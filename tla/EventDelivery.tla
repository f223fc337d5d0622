---------------------------- MODULE EventDelivery ----------------------------
(***************************************************************************)
(* Durable event delivery: the transactional outbox and the durable        *)
(* consumer (eventing.py, event_source.py, persistence/uow.py), the event  *)
(* bus's delivery obligations (messages.py), the publisher loop and the    *)
(* delivery callback of the event worker (event_worker.py), the JetStream  *)
(* adapter (providers.py) and the workload authority that admits every     *)
(* transaction of a worker (foundations/identity workload_authority.py).   *)
(*                                                                         *)
(* Several worker processes share one database and one durable consumer.   *)
(* A step is what a worker does between two awaits that other processes    *)
(* can be seen at: a committed transaction, a row lock taken, a message    *)
(* accepted by the broker.  Events are numbered in the order of            *)
(* (occurred_at, id), subscribers in the order of their sorted names; all  *)
(* events have one event type.                                             *)
(***************************************************************************)
EXTENDS Integers, Sequences, FiniteSets

CONSTANTS
    Workers,        \* event worker processes
    Events,         \* event ids, in the order of (occurred_at, id)
    Subscribers,    \* durable subscriber ids, in the order of their names
    Declares,       \* the subscribers the modules of each worker declare
    Permitted,      \* the subscribers registered with a permission
    Malformed,      \* events whose payload the registered event model refuses
    BatchLimit,     \* publish_batch_size
    MaxStream,      \* bound: messages the broker accepts
    MaxGeneration,  \* bound: credential generations
    MaxFaults       \* bound: crashes, failures, forgeries and disables

ASSUME SetsAssumption ==
    /\ Events \subseteq Nat
    /\ Subscribers \subseteq Nat \ {0}
    /\ Permitted \subseteq Subscribers
    /\ Malformed \subseteq Events
    /\ Declares \in [Workers -> SUBSET Subscribers]

ASSUME BoundsAssumption ==
    /\ BatchLimit \in Nat \ {0}
    /\ MaxStream \in Nat
    /\ MaxGeneration \in Nat \ {0}
    /\ MaxFaults \in Nat

VARIABLES
    \* --- the database
    outbox,       \* OutboxMessage of each event: "none", "pending", "published"
    inbox,        \* the committed InboxReceipts <<subscriber, event>>
    applied,      \* committed effects of each subscriber for each event
    obligations,  \* EventSubscriberObligation rows
    authority,    \* credential_generation of the workload row, 0 once disabled
    \* --- the broker
    stream,       \* the accepted messages
    acked,        \* positions acknowledged
    terminated,   \* positions given up with term()
    \* --- each worker process
    status,       \* "down", "running" or "quarantined"
    credential,   \* the generation of the secret in its credential file
    handlers,     \* EventBus._handlers
    open,         \* those of them whose generation is active in the gate
    bound,        \* EventBus._durable_subscriber_owners
    \* --- the delivery callback of each worker
    step,         \* where _consume_delivery is
    msg,          \* the stream position being delivered
    proof,        \* credential generation of the verified proof
    left,         \* subscribers still to be served
    sub,          \* the subscriber being served, 0 between two
    leased,       \* handlers held by the admission lease
    owed,         \* (history) obligations when the delivery was received
    \* --- the publisher loop of each worker
    phase,        \* where _publish_loop is
    locked,       \* outbox rows of the batch, locked FOR UPDATE
    unsent,       \* those not yet handed to the broker
    sent,         \* those marked published in the open transaction
    \* --- the bound
    faults

database  == <<outbox, inbox, applied, obligations>>
broker    == <<stream, acked, terminated>>
process   == <<status, handlers, open, bound>>
delivery  == <<step, msg, proof, left, sub, leased, owed>>
publisher == <<phase, locked, unsent, sent>>
vars == <<database, authority, broker, process, credential, delivery, publisher, faults>>

Message == [event : Events, kind : {"genuine", "forged"}]

Positions == 1..MaxStream

Faulty == faults < MaxFaults /\ faults' = faults + 1

Pending(m) == m \in 1..Len(stream) /\ m \notin acked /\ m \notin terminated

EventOf(w) == stream[msg[w]].event

\* _verify_workload: the row is active and the credential file is current.
Verified(w) == credential[w] = authority

\* Rows FOR SHARE: admit_workload keeps the row until the transaction ends.
AuthorityLocked ==
    \E w \in Workers : step[w] \in {"claim", "handle", "commit"} \/ phase[w] = "publish"

Lowest(x, S) == x \in S /\ \A y \in S : x <= y

-----------------------------------------------------------------------------
(* The command side: one transaction writes the state and the outbox row.  *)

CommitCommand(e) ==
    /\ outbox[e] = "none"
    /\ outbox' = [outbox EXCEPT ![e] = "pending"]
    /\ UNCHANGED <<inbox, applied, obligations, authority, broker, process, credential,
                   delivery, publisher, faults>>

-----------------------------------------------------------------------------
(* Subscriber obligations and the worker process.                          *)

\* _synchronize_subscriber_obligations: declare, read back and bind in one
\* transaction.
Synchronize(w, declared) ==
    /\ obligations' = obligations \cup declared
    /\ bound' = [bound EXCEPT ![w] = @ \cup obligations \cup declared]

\* The binding is made before the commit, which may then fail.
SynchronizeUncommitted(w) ==
    /\ bound' = [bound EXCEPT ![w] = @ \cup obligations \cup handlers[w]]
    /\ UNCHANGED obligations

Quarantine(w) == status' = [status EXCEPT ![w] = "quarantined"]

Start(w) ==
    /\ status[w] = "down"
    /\ Verified(w)
    /\ status' = [status EXCEPT ![w] = "running"]
    /\ handlers' = [handlers EXCEPT ![w] = Declares[w]]
    /\ open' = [open EXCEPT ![w] = Declares[w]]
    /\ Synchronize(w, Declares[w])
    /\ UNCHANGED <<outbox, inbox, applied, authority, broker, credential, delivery,
                   publisher, faults>>

\* The delivery callback ends: its transaction is rolled back if it did not
\* commit, its admission lease is given back.
EndDelivery(w) ==
    /\ step' = [step EXCEPT ![w] = "idle"]
    /\ msg' = [msg EXCEPT ![w] = 0]
    /\ proof' = [proof EXCEPT ![w] = 0]
    /\ left' = [left EXCEPT ![w] = {}]
    /\ sub' = [sub EXCEPT ![w] = 0]
    /\ leased' = [leased EXCEPT ![w] = {}]
    /\ owed' = [owed EXCEPT ![w] = {}]

\* The publisher's transaction ends and gives its row locks back.
EndBatch(w) ==
    /\ phase' = [phase EXCEPT ![w] = "idle"]
    /\ locked' = [locked EXCEPT ![w] = {}]
    /\ unsent' = [unsent EXCEPT ![w] = {}]
    /\ sent' = [sent EXCEPT ![w] = {}]

\* The process dies, or an operator stops it: nothing volatile survives.
Crash(w) ==
    /\ status[w] # "down"
    /\ Faulty
    /\ status' = [status EXCEPT ![w] = "down"]
    /\ handlers' = [handlers EXCEPT ![w] = {}]
    /\ open' = [open EXCEPT ![w] = {}]
    /\ bound' = [bound EXCEPT ![w] = {}]
    /\ EndDelivery(w)
    /\ EndBatch(w)
    /\ UNCHANGED <<database, authority, broker, credential>>

\* close_and_drain of the generation that owns the subscriber.
CloseHandler(w, s) ==
    /\ s \in open[w]
    /\ Faulty
    /\ open' = [open EXCEPT ![w] = @ \ {s}]
    /\ UNCHANGED <<database, authority, broker, status, handlers, bound, credential,
                   delivery, publisher>>

\* EventBus.remove_owner_generation, after the drain: a published handler
\* leaves its obligation behind.
RemoveHandler(w, s) ==
    /\ s \in handlers[w] \ open[w]
    /\ s \notin leased[w]
    /\ handlers' = [handlers EXCEPT ![w] = @ \ {s}]
    /\ bound' = [bound EXCEPT ![w] = @ \cup {s}]
    /\ UNCHANGED <<database, authority, broker, status, open, credential, delivery,
                   publisher, faults>>

\* EventBus.subscribe and the publication of the new generation.
EnableHandler(w, s) ==
    /\ status[w] # "down"
    /\ s \in Declares[w] \ handlers[w]
    /\ handlers' = [handlers EXCEPT ![w] = @ \cup {s}]
    /\ open' = [open EXCEPT ![w] = @ \cup {s}]
    /\ UNCHANGED <<database, authority, broker, status, bound, credential, delivery,
                   publisher, faults>>

-----------------------------------------------------------------------------
(* workload_operator: both updates wait for the share locks on the row.    *)

Rotate ==
    /\ ~AuthorityLocked
    /\ authority \in 1..(MaxGeneration - 1)
    /\ authority' = authority + 1
    /\ UNCHANGED <<database, broker, process, credential, delivery, publisher, faults>>

Disable ==
    /\ ~AuthorityLocked
    /\ authority # 0
    /\ Faulty
    /\ authority' = 0
    /\ UNCHANGED <<database, broker, process, credential, delivery, publisher>>

\* The operator replaces the credential file of a worker.
Deploy(w) ==
    /\ credential[w] < MaxGeneration
    /\ credential' = [credential EXCEPT ![w] = @ + 1]
    /\ UNCHANGED <<database, authority, broker, process, delivery, publisher, faults>>

-----------------------------------------------------------------------------
(* The publisher loop.                                                     *)

\* One cycle starts with the synchronization of the obligations.
PublisherSync(w) ==
    /\ status[w] = "running"
    /\ phase[w] = "idle"
    /\ Verified(w)
    /\ Synchronize(w, handlers[w])
    /\ phase' = [phase EXCEPT ![w] = "ready"]
    /\ UNCHANGED <<outbox, inbox, applied, authority, broker, status, handlers, open,
                   credential, delivery, locked, unsent, sent, faults>>

\* The oldest pending rows that no other publisher has locked.
Batch(B) ==
    LET free == {e \in Events : outbox[e] = "pending" /\ \A v \in Workers : e \notin locked[v]}
    IN  /\ B \subseteq free
        /\ \A e \in B, f \in free \ B : e < f
        /\ IF Cardinality(free) <= BatchLimit THEN B = free ELSE Cardinality(B) = BatchLimit

\* _admit_publisher and the select of _publish_locked_batch.
BeginBatch(w) ==
    /\ phase[w] = "ready"
    /\ Verified(w)
    /\ \E B \in SUBSET Events :
         /\ Batch(B)
         /\ locked' = [locked EXCEPT ![w] = B]
         /\ unsent' = [unsent EXCEPT ![w] = B]
    /\ phase' = [phase EXCEPT ![w] = "publish"]
    /\ UNCHANGED <<database, authority, broker, process, credential, delivery, sent, faults>>

Accept(e, kind) ==
    /\ Len(stream) < MaxStream
    /\ stream' = Append(stream, [event |-> e, kind |-> kind])

\* publish() returned: the row is marked in the open transaction.
Publish(w) ==
    /\ phase[w] = "publish"
    /\ \E e \in unsent[w] :
         /\ Lowest(e, unsent[w])
         /\ Accept(e, "genuine")
         /\ unsent' = [unsent EXCEPT ![w] = @ \ {e}]
         /\ sent' = [sent EXCEPT ![w] = @ \cup {e}]
    /\ UNCHANGED <<database, authority, acked, terminated, process, credential, delivery,
                   phase, locked, faults>>

\* publish() raised, with the message accepted by the broker or not.
PublishFails(w) ==
    /\ phase[w] = "publish"
    /\ Faulty
    /\ \E e \in unsent[w] :
         /\ Lowest(e, unsent[w])
         /\ Accept(e, "genuine") \/ UNCHANGED stream
         /\ unsent' = [unsent EXCEPT ![w] = @ \ {e}]
    /\ UNCHANGED <<database, authority, acked, terminated, process, credential, delivery,
                   phase, locked, sent>>

\* Mutant of CommitBatch: every row of the batch is marked.
CommitBatchAll(w) ==
    /\ phase[w] = "publish"
    /\ unsent[w] = {}
    /\ outbox' = [e \in Events |-> IF e \in locked[w] THEN "published" ELSE outbox[e]]
    /\ EndBatch(w)
    /\ UNCHANGED <<inbox, applied, obligations, authority, broker, process, credential,
                   delivery, faults>>

CommitBatch(w) ==
    /\ phase[w] = "publish"
    /\ unsent[w] = {}
    /\ outbox' = [e \in Events |-> IF e \in sent[w] THEN "published" ELSE outbox[e]]
    /\ EndBatch(w)
    /\ UNCHANGED <<inbox, applied, obligations, authority, broker, process, credential,
                   delivery, faults>>

\* The cycle raises: a failed commit, the time limit, a lost connection.  The
\* transaction rolls back whatever the broker already accepted.
AbortCycle(w) ==
    /\ phase[w] # "idle"
    /\ Faulty
    /\ EndBatch(w)
    /\ UNCHANGED <<database, authority, broker, process, credential, delivery>>

\* WorkloadAdmissionDenied in the publisher loop.
PublisherDenied(w) ==
    /\ \/ status[w] = "running" /\ phase[w] = "idle"
       \/ phase[w] = "ready"
    /\ ~Verified(w)
    /\ Quarantine(w)
    /\ EndBatch(w)
    /\ UNCHANGED <<database, authority, broker, handlers, open, bound, credential,
                   delivery, faults>>

-----------------------------------------------------------------------------
(* The delivery callback.                                                  *)

\* The broker delivers any message it has no answer for, to any worker, as
\* often as it likes: redelivery after a nak, after a crash, or after the
\* acknowledgement wait of a delivery that is still running.
Receive(w, m) ==
    /\ status[w] = "running"
    /\ step[w] = "idle"
    /\ Pending(m)
    /\ Verified(w)
    /\ step' = [step EXCEPT ![w] = "source"]
    /\ msg' = [msg EXCEPT ![w] = m]
    /\ proof' = [proof EXCEPT ![w] = authority]
    /\ owed' = [owed EXCEPT ![w] = obligations]
    /\ UNCHANGED <<database, authority, broker, process, credential, left, sub, leased,
                   publisher, faults>>

\* Mutant of SourceMatches: no verification.
SourceIgnored(w) == TRUE

\* CommittedOutboxSourceVerifier.verify, then decode.
SourceMatches(w) ==
    /\ stream[msg[w]].kind = "genuine"
    /\ outbox[EventOf(w)] # "none"

\* decode: a handler of this worker has registered the event type and
\* version, and its model accepts the payload.
Known(w) == Declares[w] # {}

VerifySource(w) ==
    /\ step[w] = "source"
    /\ SourceMatches(w)
    /\ Known(w)
    /\ EventOf(w) \notin Malformed
    /\ step' = [step EXCEPT ![w] = "sync"]
    /\ UNCHANGED <<database, authority, broker, process, credential, msg, proof, left, sub,
                   leased, owed, publisher, faults>>

\* PermanentDeliveryError, or a ValueError of the decoding turned into one:
\* the adapter terminates the message.
RejectSource(w) ==
    /\ step[w] = "source"
    /\ SourceMatches(w) => Known(w) /\ EventOf(w) \in Malformed
    /\ terminated' = IF msg[w] \in acked THEN terminated ELSE terminated \cup {msg[w]}
    /\ EndDelivery(w)
    /\ UNCHANGED <<database, authority, stream, acked, process, credential, publisher, faults>>

\* NotFoundError or DeliveryUnavailableError: no module of this worker knows
\* the event type or its version; nak.
UnknownType(w) ==
    /\ step[w] = "source"
    /\ SourceMatches(w)
    /\ ~Known(w)
    /\ EndDelivery(w)
    /\ UNCHANGED <<database, authority, broker, process, credential, publisher, faults>>

SyncDelivery(w) ==
    /\ step[w] = "sync"
    /\ Verified(w)
    /\ Synchronize(w, handlers[w])
    /\ step' = [step EXCEPT ![w] = "admit"]
    /\ UNCHANGED <<outbox, inbox, applied, authority, broker, status, handlers, open,
                   credential, msg, proof, left, sub, leased, owed, publisher, faults>>

SyncCommitFails(w) ==
    /\ step[w] = "sync"
    /\ Verified(w)
    /\ Faulty
    /\ SynchronizeUncommitted(w)
    /\ EndDelivery(w)
    /\ UNCHANGED <<outbox, inbox, applied, authority, broker, status, handlers, open,
                   credential, publisher>>

\* Mutant of Obligated: only the handlers of this process count.
ObligatedLocally(w) == handlers[w]

\* delivery_subscribers: the complete set or none.
Obligated(w) == bound[w] \cup handlers[w]

AdmitDelivery(w) ==
    /\ step[w] = "admit"
    /\ Obligated(w) \subseteq open[w]
    /\ left' = [left EXCEPT ![w] = open[w]]
    /\ leased' = [leased EXCEPT ![w] = open[w]]
    /\ step' = [step EXCEPT ![w] = "bind"]
    /\ UNCHANGED <<database, authority, broker, process, credential, msg, proof, sub, owed,
                   publisher, faults>>

\* DeliveryUnavailableError: nak.
Unavailable(w) ==
    /\ step[w] = "admit"
    /\ ~(Obligated(w) \subseteq open[w])
    /\ EndDelivery(w)
    /\ UNCHANGED <<database, authority, broker, process, credential, publisher, faults>>

\* Mutant of Admitted: the proof of the attempt is trusted as it is.
AdmittedOnce(w, p) == p # 0

\* _lock_current: the proof is of the generation the row has now.
Admitted(w, p) == p = authority

\* A new unit of work for the next subscriber: renew the proof when it is
\* about to expire, then take the share lock on the workload row.
BindSubscriber(w) ==
    /\ step[w] = "bind"
    /\ \E s \in left[w], p \in {proof[w], credential[w]} :
         /\ Lowest(s, left[w])
         /\ p = proof[w] \/ Verified(w)
         /\ Admitted(w, p)
         /\ s \in Permitted
         /\ sub' = [sub EXCEPT ![w] = s]
         /\ proof' = [proof EXCEPT ![w] = p]
    /\ step' = [step EXCEPT ![w] = "claim"]
    /\ UNCHANGED <<database, authority, broker, process, credential, msg, left, leased, owed,
                   publisher, faults>>

\* WorkloadAdmissionDenied in the callback: at the proof, the
\* synchronization or the binding, or for a subscriber without permission.
DeliveryDenied(w) ==
    /\ \/ status[w] = "running" /\ step[w] = "idle" /\ ~Verified(w)
             /\ \E m \in Positions : Pending(m)
       \/ step[w] = "sync" /\ ~Verified(w)
       \/ step[w] = "bind" /\ left[w] # {} /\ (~Admitted(w, proof[w]) \/ ~Verified(w))
       \/ step[w] = "bind" /\ \E s \in left[w] : Lowest(s, left[w]) /\ s \notin Permitted
    /\ Quarantine(w)
    /\ EndDelivery(w)
    /\ UNCHANGED <<database, authority, broker, handlers, open, bound, credential,
                   publisher, faults>>

\* Another transaction that inserted the same receipt and has not ended.
ClaimedElsewhere(w) ==
    \E v \in Workers \ {w} :
        step[v] \in {"handle", "commit"} /\ sub[v] = sub[w] /\ EventOf(v) = EventOf(w)

Served(w) ==
    /\ left' = [left EXCEPT ![w] = @ \ {sub[w]}]
    /\ sub' = [sub EXCEPT ![w] = 0]
    /\ step' = [step EXCEPT ![w] = "bind"]

\* Mutant of Claim: the receipt is inserted without looking at the outcome.
ClaimUnchecked(w) ==
    /\ step[w] = "claim"
    /\ ~ClaimedElsewhere(w)
    /\ step' = [step EXCEPT ![w] = "handle"]
    /\ UNCHANGED <<database, authority, broker, process, credential, msg, proof, left, sub,
                   leased, owed, publisher, faults>>

\* claim_inbox returned a row.
Claim(w) ==
    /\ step[w] = "claim"
    /\ ~ClaimedElsewhere(w)
    /\ <<sub[w], EventOf(w)>> \notin inbox
    /\ step' = [step EXCEPT ![w] = "handle"]
    /\ UNCHANGED <<database, authority, broker, process, credential, msg, proof, left, sub,
                   leased, owed, publisher, faults>>

\* The receipt exists: `continue`.
AlreadyClaimed(w) ==
    /\ step[w] = "claim"
    /\ <<sub[w], EventOf(w)>> \in inbox
    /\ Served(w)
    /\ UNCHANGED <<database, authority, broker, process, credential, msg, proof, leased,
                   owed, publisher, faults>>

\* The subscriber's handler has run, in the open transaction.
Handle(w) ==
    /\ step[w] = "handle"
    /\ step' = [step EXCEPT ![w] = "commit"]
    /\ UNCHANGED <<database, authority, broker, process, credential, msg, proof, left, sub,
                   leased, owed, publisher, faults>>

\* The receipt and the effect of the handler become durable together.
Commit(w) ==
    LET p == <<sub[w], EventOf(w)>> IN
        /\ inbox' = inbox \cup {p}
        /\ applied' = [applied EXCEPT ![p] = @ + 1]

CommitSubscriber(w) ==
    /\ step[w] = "commit"
    /\ Commit(w)
    /\ Served(w)
    /\ UNCHANGED <<outbox, obligations, authority, broker, process, credential, msg, proof,
                   leased, owed, publisher, faults>>

\* The connection is lost after the server committed: the callback sees an
\* error.
CommitUnconfirmed(w) ==
    /\ step[w] = "commit"
    /\ Faulty
    /\ Commit(w)
    /\ EndDelivery(w)
    /\ UNCHANGED <<outbox, obligations, authority, broker, process, credential, publisher>>

\* consume() returned and the adapter acknowledges.
Ack(w) ==
    /\ step[w] = "bind"
    /\ left[w] = {}
    /\ acked' = IF msg[w] \in terminated THEN acked ELSE acked \cup {msg[w]}
    /\ EndDelivery(w)
    /\ UNCHANGED <<database, authority, stream, terminated, process, credential, publisher,
                   faults>>

\* Any other exception, time limit or cancellation: the open transaction
\* rolls back and the adapter sends a nak; also an acknowledgement lost.
DeliveryFails(w) ==
    /\ step[w] # "idle"
    /\ Faulty
    /\ EndDelivery(w)
    /\ UNCHANGED <<database, authority, broker, process, credential, publisher>>

\* Someone else writes to the stream: a message that matches no outbox row.
Forge(e) ==
    /\ Faulty
    /\ Accept(e, "forged")
    /\ UNCHANGED <<database, authority, acked, terminated, process, credential, delivery,
                   publisher>>

-----------------------------------------------------------------------------
Init ==
    /\ outbox = [e \in Events |-> "none"]
    /\ inbox = {}
    /\ applied = [p \in Subscribers \X Events |-> 0]
    /\ obligations = {}
    /\ authority = 1
    /\ stream = <<>>
    /\ acked = {}
    /\ terminated = {}
    /\ status = [w \in Workers |-> "down"]
    /\ credential = [w \in Workers |-> 1]
    /\ handlers = [w \in Workers |-> {}]
    /\ open = [w \in Workers |-> {}]
    /\ bound = [w \in Workers |-> {}]
    /\ step = [w \in Workers |-> "idle"]
    /\ msg = [w \in Workers |-> 0]
    /\ proof = [w \in Workers |-> 0]
    /\ left = [w \in Workers |-> {}]
    /\ sub = [w \in Workers |-> 0]
    /\ leased = [w \in Workers |-> {}]
    /\ owed = [w \in Workers |-> {}]
    /\ phase = [w \in Workers |-> "idle"]
    /\ locked = [w \in Workers |-> {}]
    /\ unsent = [w \in Workers |-> {}]
    /\ sent = [w \in Workers |-> {}]
    /\ faults = 0

PublisherStep(w) ==
    PublisherSync(w) \/ BeginBatch(w) \/ Publish(w) \/ CommitBatch(w) \/ PublisherDenied(w)

DeliveryStep(w) ==
    \/ VerifySource(w) \/ RejectSource(w) \/ UnknownType(w) \/ SyncDelivery(w)
    \/ AdmitDelivery(w) \/ Unavailable(w) \/ BindSubscriber(w) \/ DeliveryDenied(w)
    \/ Claim(w) \/ AlreadyClaimed(w) \/ Handle(w) \/ CommitSubscriber(w) \/ Ack(w)

Failure(w) ==
    \/ Crash(w) \/ PublishFails(w) \/ AbortCycle(w) \/ SyncCommitFails(w)
    \/ CommitUnconfirmed(w) \/ DeliveryFails(w)

Operator(w) ==
    \/ Start(w) \/ Deploy(w)
    \/ \E s \in Subscribers : CloseHandler(w, s) \/ RemoveHandler(w, s) \/ EnableHandler(w, s)

Next ==
    \/ \E e \in Events : CommitCommand(e) \/ Forge(e)
    \/ Rotate \/ Disable
    \/ \E w \in Workers : PublisherStep(w) \/ DeliveryStep(w) \/ Failure(w) \/ Operator(w)
    \/ \E w \in Workers, m \in Positions : Receive(w, m)

Spec == Init /\ [][Next]_vars

\* A worker's event loop runs its two tasks; the broker keeps delivering what
\* it has no answer for.
Fairness ==
    \A w \in Workers :
        /\ WF_vars(PublisherStep(w))
        /\ WF_vars(DeliveryStep(w))
        /\ \A m \in Positions : SF_vars(Receive(w, m))

FairSpec == Spec /\ Fairness

-----------------------------------------------------------------------------
(* Properties.                                                             *)

DatabaseTypeOK ==
    /\ outbox \in [Events -> {"none", "pending", "published"}]
    /\ inbox \subseteq Subscribers \X Events
    /\ applied \in [Subscribers \X Events -> Nat]
    /\ obligations \subseteq Subscribers
    /\ authority \in 0..MaxGeneration

BrokerTypeOK ==
    /\ stream \in Seq(Message)
    /\ Len(stream) <= MaxStream
    /\ acked \subseteq 1..Len(stream)
    /\ terminated \subseteq 1..Len(stream)

ProcessTypeOK ==
    /\ status \in [Workers -> {"down", "running", "quarantined"}]
    /\ credential \in [Workers -> 1..MaxGeneration]
    /\ handlers \in [Workers -> SUBSET Subscribers]
    /\ open \in [Workers -> SUBSET Subscribers]
    /\ bound \in [Workers -> SUBSET Subscribers]

DeliveryTypeOK ==
    /\ step \in [Workers -> {"idle", "source", "sync", "admit", "bind", "claim", "handle",
                             "commit"}]
    /\ msg \in [Workers -> 0..MaxStream]
    /\ proof \in [Workers -> 0..MaxGeneration]
    /\ left \in [Workers -> SUBSET Subscribers]
    /\ sub \in [Workers -> Subscribers \cup {0}]
    /\ leased \in [Workers -> SUBSET Subscribers]
    /\ owed \in [Workers -> SUBSET Subscribers]

PublisherTypeOK ==
    /\ phase \in [Workers -> {"idle", "ready", "publish"}]
    /\ locked \in [Workers -> SUBSET Events]
    /\ unsent \in [Workers -> SUBSET Events]
    /\ sent \in [Workers -> SUBSET Events]
    /\ faults \in 0..MaxFaults

\* A delivery has a message while it runs and a current subscriber while it
\* is inside a subscriber's transaction.
DeliveryControl ==
    \A w \in Workers :
        /\ msg[w] \in 0..Len(stream)
        /\ step[w] # "idle" => msg[w] # 0 /\ status[w] # "down"
        /\ step[w] \in {"claim", "handle", "commit"} => sub[w] \in left[w]
        /\ step[w] \notin {"claim", "handle", "commit"} => sub[w] = 0

\* The variables keep their types and the delivery callback its control
\* state: the loop of consume() is inside exactly one subscriber's unit of
\* work or in none.
TypeOK ==
    /\ DatabaseTypeOK /\ BrokerTypeOK /\ ProcessTypeOK /\ DeliveryTypeOK /\ PublisherTypeOK
    /\ DeliveryControl

\* The receipt and the effect of a subscriber are one: whatever is
\* redelivered, published twice, handled by two workers at a time, rolled
\* back or cut off by a crash, a subscriber's effect for an event happens
\* once if its inbox receipt is there and not at all otherwise
\* (DurableEventConsumer.consume).
EffectsMatchReceipts ==
    \A p \in Subscribers \X Events : applied[p] = IF p \in inbox THEN 1 ELSE 0

\* A row is marked published only if the broker has accepted its message;
\* an aborted batch may publish twice but never loses an event
\* (OutboxPublisher.publish_batch).
PublishedWasAccepted ==
    \A e \in Events : outbox[e] = "published" =>
        \E m \in 1..Len(stream) : stream[m] = [event |-> e, kind |-> "genuine"]

\* Two publishers never work on the same row at a time (FOR UPDATE SKIP
\* LOCKED), so only failures make duplicates: without one, an event is in
\* the stream at most once.
NoNeedlessDuplicates ==
    \A e \in Events :
        Cardinality({m \in 1..Len(stream) : stream[m].event = e}) <= 1 + faults

\* Every transaction that a worker commits for a subscriber, and every batch
\* it publishes, runs under the workload authority as it is: a rotation or a
\* disable takes effect between transactions, never inside one
\* (_lock_current, admit_workload FOR SHARE).
AdmittedIsCurrent ==
    \A w \in Workers :
        /\ step[w] \in {"claim", "handle", "commit"} => authority # 0 /\ proof[w] = authority
        /\ phase[w] = "publish" => authority # 0

\* Without a failure an event is published once, and what a worker commits it
\* commits under a credential that is neither rotated nor disabled
\* (publish_batch, _lock_current).
CurrentAndOnce == NoNeedlessDuplicates /\ AdmittedIsCurrent

\* A committed event that its subscribers can decode is never given up:
\* term() is only for messages that match no committed outbox row or that
\* the event model refuses (CommittedOutboxSourceVerifier.verify, decode).
OnlyUnusableTerminated ==
    \A m \in terminated : stream[m].kind = "forged" \/ stream[m].event \in Malformed

\* The tables and the stream agree in every state: an effect for every
\* receipt, an accepted message for every published row, and no usable message
\* terminated.
DeliverySound ==
    /\ TypeOK
    /\ EffectsMatchReceipts
    /\ PublishedWasAccepted
    /\ OnlyUnusableTerminated

\* A worker acknowledges a message only when every subscriber that was
\* obliged when the message was delivered to it has its receipt, whichever
\* worker served it (admit_delivery, consume).
AckedWhenServed ==
    [][\A w \in Workers :
         (msg[w] \in acked' \ acked /\ step[w] # "idle" /\ step'[w] = "idle")
            => \A s \in owed[w] : <<s, EventOf(w)>> \in inbox]_vars

Effects == INSTANCE EventEffects WITH
    recorded <- {e \in Events : outbox[e] # "none"},
    effects <- applied

\* Delivery implements the exactly-once effects that modules may rely on.
ImplementsEffects == Effects!Spec

\* Whether a worker is up and has every obliged module enabled.
CanServe(w) == status[w] = "running" /\ (obligations \cup Obligated(w)) \subseteq open[w]

\* No delivery of the event is under way and none has been acknowledged.
Undelivered(e) ==
    /\ \A m \in acked : stream[m].event # e
    /\ \A w \in Workers : step[w] # "idle" => EventOf(w) # e

\* Once some worker stays up with every obliged module enabled, every event
\* of a committed command reaches every subscriber that was obliged before
\* its delivery began, although publications, acknowledgements, commits and
\* workers fail on the way.
EventuallyApplied ==
    \A w \in Workers :
        <>[]CanServe(w) =>
            \A s \in Subscribers, e \in Events :
                (outbox[e] # "none" /\ e \notin Malformed /\ s \in obligations /\ Undelivered(e))
                    ~> (<<s, e>> \in inbox)
=============================================================================
