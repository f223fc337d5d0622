---------------------------- MODULE MCPublication ----------------------------
(***************************************************************************)
(* The publication of metadata by the handlers of several processes, for   *)
(* TLC.                                                                    *)
(***************************************************************************)
EXTENDS MetadataPublication

CONSTANTS s1, s2, p1, p2

\* Two processes that share the database; one session performs two commands.
MCProcessOf == [s \in Sessions |-> IF s = s1 THEN p1 ELSE p2]
MCMaxCommands == [s \in Sessions |-> IF s = s1 THEN 2 ELSE 1]

-----------------------------------------------------------------------------
\* Every command and activation ends, as no two of them wait for each other's row locks
\* (fence_modules, publish_ui).
WorkEnds == <>[]Settled
=============================================================================
