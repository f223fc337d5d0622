----------------------------- MODULE EventEffects -----------------------------
(***************************************************************************)
(* What durable event delivery promises to the modules, whatever happens   *)
(* to workers, broker and transactions: a subscriber's relational effect   *)
(* for an event happens only after the command that recorded the event has *)
(* committed, and never a second time.                                     *)
(***************************************************************************)
EXTENDS Integers

CONSTANTS Subscribers, Events

VARIABLES
    recorded,   \* the events whose command has committed
    effects     \* how often the effect of a subscriber for an event happened

vars == <<recorded, effects>>

Init ==
    /\ recorded = {}
    /\ effects = [p \in Subscribers \X Events |-> 0]

Record(e) ==
    /\ e \notin recorded
    /\ recorded' = recorded \cup {e}
    /\ UNCHANGED effects

Apply(s, e) ==
    /\ e \in recorded
    /\ effects[<<s, e>>] = 0
    /\ effects' = [effects EXCEPT ![<<s, e>>] = 1]
    /\ UNCHANGED recorded

Next ==
    \/ \E e \in Events : Record(e)
    \/ \E s \in Subscribers, e \in Events : Apply(s, e)

Spec == Init /\ [][Next]_vars
===============================================================================
