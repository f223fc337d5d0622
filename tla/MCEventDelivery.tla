--------------------------- MODULE MCEventDelivery ---------------------------
(***************************************************************************)
(* Delivery of an event during a deployment, for TLC, in one of two        *)
(* scenes: w2 has a module more than w1, or w1 has no module that knows    *)
(* the type of the event at all.                                           *)
(***************************************************************************)
EXTENDS EventDelivery, TLC

CONSTANTS w1, w2

VARIABLE scene

DeclareRolling == [w \in Workers |-> IF w = w1 THEN {1} ELSE Subscribers]
DeclareNewcomer == [w \in Workers |-> IF w = w1 THEN {} ELSE Subscribers]

\* No rotation in this scene.
Newcomer == INSTANCE EventDelivery WITH Declares <- DeclareNewcomer, MaxGeneration <- 1

MCInit ==
    \/ scene = "rolling" /\ Init
    \/ scene = "newcomer" /\ Newcomer!Init

MCNext ==
    /\ scene' = scene
    /\ \/ scene = "rolling" /\ Next
       \/ scene = "newcomer" /\ Newcomer!Next

MCSpec == MCInit /\ [][MCNext]_<<scene, vars>>
==============================================================================
