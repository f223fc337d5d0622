----------------------------- MODULE MCRetention -----------------------------
(***************************************************************************)
(* RetentionGovernance for TLC.  A behaviour draws its commands from one   *)
(* of three workloads, which are explored side by side in one run.         *)
(***************************************************************************)
EXTENDS RetentionGovernance, TLC

CONSTANTS t1, t2, c1, c2

VARIABLE load       \* the commands that callers issue in this behaviour

\* Holds of both tables, placed and released around a destruction
HoldLoad == {"place", "release", "legacyPlace", "legacyRelease", "execute"}

\* An owner that reclassifies its record while holds are placed
OwnerLoad == {"place", "legacyPlace", "execute", "own"}

\* Policies set and replaced while a record is destroyed under them
PolicyLoad == {"set", "replace", "execute"}

\* c2 is there for the owner's reclassification and for replacements, the
\* second action for policies.
Issued(c) ==
    /\ c.op \in load
    /\ load # OwnerLoad /\ c.op # "replace" => c.cat # c2
    /\ c.act = "archive" => load = PolicyLoad /\ c.op # "replace"
    /\ c.op = "replace" => c.days = 1 \/ c.cat = c1

MCInit ==
    /\ Init
    /\ load \in {HoldLoad, OwnerLoad, PolicyLoad}
    /\ load # OwnerLoad => \A r \in Records : subject[r].cat = c1

MCNext ==
    /\ Next
    /\ load' = load
    /\ \A t \in Tx : tx[t].op = "idle" /\ tx'[t].op # "idle" => Issued(tx'[t])

MCSpec == MCInit /\ [][MCNext]_<<vars, load>>

\* Purge after one day, until the second day, in c1; after two days in c2
OnePolicyEach ==
    {[cat |-> c1, days |-> 1, act |-> "purge", from |-> 0, until |-> 2],
     [cat |-> c2, days |-> 2, act |-> "purge", from |-> 0, until |-> Forever]}

Symmetry == Permutations(Tx)
=============================================================================
