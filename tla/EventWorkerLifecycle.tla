------------------------ MODULE EventWorkerLifecycle ------------------------
(***************************************************************************)
(* Start, quarantine and stop of one event worker process                  *)
(* (event_worker.py, _NatsSubscription of providers.py).                   *)
(*                                                                         *)
(* start() and stop() hold _lifecycle_lock; the publisher loop, the        *)
(* delivery callbacks and the task that closes a quarantined subscription  *)
(* run beside them, and a denied workload admission in any of these        *)
(* quarantines the worker.  What the loop and the callbacks do between     *)
(* admissions is the subject of EventDelivery.                             *)
(***************************************************************************)
EXTENDS Naturals, FiniteSets

CONSTANTS
    DeliverEarly,   \* may the broker deliver before subscribe() has returned?
    MaxStarts       \* bound: calls of start()

VARIABLES
    started,       \* _started
    quarantined,   \* _quarantined
    stopping,      \* _stop_publisher
    held,          \* 1 when _subscription is not None
    job,           \* the tasks of the worker
    application,   \* the application's lifecycle: "new", "running", "closed"
    database,      \* the operations database: "open", "closed"
    channel,       \* the subscription at the broker: "none", "open", "closed"
    lock,          \* the holder of _lifecycle_lock
    pc,            \* the await at which it is suspended
    pending,       \* tasks that resisted their cancellation in _cleanup
    errors,        \* 1 when _cleanup has collected an error
    starts

worker == <<started, quarantined, stopping, held>>
world  == <<application, database, channel>>
control == <<lock, pc, pending, errors, starts>>
vars == <<worker, job, world, control>>

\* The quarantine task, the close of the subscription, the publisher loop
\* and the application's shutdown, in the order _cleanup ends them.
Jobs == {"closer", "close", "publisher", "shutdown"}

After(j) == CASE j = "closer" -> "close" [] j = "close" -> "publisher"
              [] j = "publisher" -> "shutdown" [] j = "shutdown" -> "pending"

Running(j) == job[j] = "running"

Init ==
    /\ started = 0 /\ quarantined = 0 /\ stopping = 0 /\ held = 0
    /\ job = [j \in Jobs |-> "none"]
    /\ application = "new" /\ database = "open" /\ channel = "none"
    /\ lock = "none" /\ pc = "idle" /\ pending = {} /\ errors = 0 /\ starts = 0

-----------------------------------------------------------------------------
(* start().                                                                *)

\* start() on a worker that has started returns; a database that is not
\* ready makes it raise before anything is owned.
Start ==
    /\ lock = "none" /\ started = 0 /\ starts < MaxStarts
    /\ starts' = starts + 1
    /\ lock' = "start" /\ pc' = "application"
    /\ database' = "open"
    /\ UNCHANGED <<worker, job, application, channel, pending, errors>>

\* application.startup(), which runs once only; then the workload is
\* verified and the obligations are synchronized.
ApplicationStarted ==
    /\ lock = "start" /\ pc = "application"
    /\ application = "new"
    /\ application' = "running"
    /\ pc' = "subscribe"
    /\ UNCHANGED <<worker, job, database, channel, lock, pending, errors, starts>>

\* The broker has made the subscription; subscribe() has not returned yet.
ChannelOpens ==
    /\ lock = "start" /\ pc = "subscribe" /\ channel = "none"
    /\ channel' = "open"
    /\ UNCHANGED <<worker, job, application, database, control>>

\* subscribe() returns and the subscription is kept.
Subscribed ==
    /\ lock = "start" /\ pc = "subscribe" /\ channel = "open"
    /\ held' = 1
    /\ pc' = "commit"
    /\ UNCHANGED <<started, quarantined, stopping, job, world, lock, pending, errors, starts>>

StartReturns ==
    /\ lock = "start" /\ pc = "commit"
    /\ stopping' = 0 /\ started' = 1
    /\ job' = [job EXCEPT !["publisher"] = "running"]
    /\ lock' = "none" /\ pc' = "idle"
    /\ UNCHANGED <<quarantined, held, world, pending, errors, starts>>

\* Mutant of EnterCleanup: the publisher is not told to stop.
EnterCleanupSilently(holder) ==
    /\ lock' = holder /\ pc' = "closer"
    /\ errors' = 0 /\ pending' = {}
    /\ UNCHANGED <<started, quarantined, stopping, held>>

\* _cleanup begins with the quarantine task, if there is one.
EnterCleanup(holder) ==
    /\ lock' = holder /\ pc' = "closer"
    /\ stopping' = 1
    /\ errors' = 0 /\ pending' = {}
    /\ UNCHANGED <<started, quarantined, held>>

\* Any step raises, is denied, cancelled or runs into the time limit.
StartFails ==
    /\ lock = "start"
    /\ EnterCleanup("failing")
    /\ UNCHANGED <<job, world, starts>>

-----------------------------------------------------------------------------
(* Quarantine.                                                             *)

\* Mutant of Quarantine: the flag alone.
QuarantineFlagOnly ==
    /\ quarantined' = 1 /\ stopping' = 1
    /\ UNCHANGED <<held, job>>

\* _quarantine: nothing to close while no subscription is kept, and only one
\* task closes it.
Quarantine ==
    /\ quarantined' = 1 /\ stopping' = 1
    /\ IF held = 0 \/ job["closer"] # "none"
       THEN UNCHANGED <<held, job>>
       ELSE held' = 0 /\ job' = [job EXCEPT !["closer"] = "running"]

\* A delivery, or a cycle of the publisher loop, is denied.
DeliveryDenied ==
    /\ channel = "open"
    /\ DeliverEarly \/ pc # "subscribe"
    /\ quarantined = 0
    /\ Quarantine
    /\ UNCHANGED <<started, world, control>>

PublisherDenied ==
    /\ Running("publisher")
    /\ quarantined = 0
    /\ Quarantine
    /\ UNCHANGED <<started, world, control>>

\* The publisher loop leaves at its next check of the two flags.
PublisherEnds ==
    /\ Running("publisher")
    /\ stopping = 1 \/ quarantined = 1
    /\ job' = [job EXCEPT !["publisher"] = "ended"]
    /\ UNCHANGED <<worker, world, control>>

-----------------------------------------------------------------------------
(* stop() and _cleanup.                                                    *)

\* Nothing was ever started: only the database is closed.
StopIdle ==
    /\ lock = "none" /\ started = 0 /\ held = 0 /\ job["publisher"] = "none"
    /\ database = "open"
    /\ database' = "closed"
    /\ UNCHANGED <<worker, job, application, channel, control>>

Stop ==
    /\ lock = "none"
    /\ started = 1 \/ held = 1 \/ job["publisher"] # "none"
    /\ EnterCleanup("stop")
    /\ UNCHANGED <<job, world, starts>>

\* The step of job j is over: the next one begins, with the task it makes.
Proceed(j, ended) ==
    /\ pc' = After(j)
    /\ job' = IF After(j) = "shutdown" \/ (After(j) = "close" /\ held = 1)
              THEN [ended EXCEPT ![After(j)] = "running"] ELSE ended

StepEnds(j) ==
    /\ pc = j /\ ~Running(j)
    /\ Proceed(j, job)
    /\ UNCHANGED <<worker, world, lock, pending, errors, starts>>

\* The time limit passes: the task is cancelled up to eight times and ends,
\* or it resists and is awaited before the database is closed.  A cancelled
\* close leaves the subscription at the broker as it is; the application's
\* shutdown shields its clean-up and always resists.
StepTimesOut(j) ==
    /\ pc = j /\ Running(j)
    /\ errors' = 1
    /\ \/ j # "shutdown" /\ Proceed(j, [job EXCEPT ![j] = "ended"]) /\ UNCHANGED pending
       \/ Proceed(j, job) /\ pending' = pending \cup {j}
    /\ UNCHANGED <<worker, world, lock, starts>>

\* _NatsSubscription.close: drained, or unsubscribed after its own time
\* limit; a second close returns at once.  It may fail with the connection.
CloseEnds(j) ==
    /\ j \in {"closer", "close"} /\ Running(j)
    /\ job' = [job EXCEPT ![j] = "ended"]
    /\ \/ channel' = "closed" /\ UNCHANGED errors
       \/ channel' = channel /\ errors' = IF j = "close" THEN 1 ELSE errors
    /\ UNCHANGED <<worker, application, database, lock, pc, pending, starts>>

\* application.shutdown() closes the broker connection with the providers.
ShutdownEnds ==
    /\ Running("shutdown")
    /\ job' = [job EXCEPT !["shutdown"] = "ended"]
    /\ application' = "closed"
    /\ \/ channel' = (IF channel = "none" THEN "none" ELSE "closed") /\ UNCHANGED errors
       \/ UNCHANGED channel /\ errors' = 1
    /\ UNCHANGED <<worker, database, lock, pc, pending, starts>>

AwaitPending ==
    /\ pc = "pending"
    /\ \A j \in pending : ~Running(j)
    /\ pc' = "database"
    /\ UNCHANGED <<worker, job, world, lock, pending, errors, starts>>

\* The operations database is closed last, whatever its close raises.
CleanupReturns ==
    /\ pc = "database"
    /\ database' = "closed"
    /\ held' = 0
    /\ job' = [j \in Jobs |-> "none"]
    /\ started' = 0
    /\ lock' = "none" /\ pc' = "idle" /\ pending' = {}
    /\ UNCHANGED <<quarantined, stopping, application, channel, errors, starts>>

-----------------------------------------------------------------------------
Lifecycle ==
    \/ ApplicationStarted \/ ChannelOpens \/ Subscribed \/ StartReturns
    \/ (\E j \in Jobs : StepEnds(j) \/ StepTimesOut(j))
    \/ AwaitPending \/ CleanupReturns

TaskEnds(j) ==
    \/ j = "publisher" /\ PublisherEnds
    \/ CloseEnds(j)
    \/ j = "shutdown" /\ ShutdownEnds

Next ==
    \/ Start \/ StartFails \/ Stop \/ StopIdle
    \/ Lifecycle
    \/ DeliveryDenied \/ PublisherDenied
    \/ \E j \in Jobs : TaskEnds(j)

Spec == Init /\ [][Next]_vars

\* The event loop runs the holder of the lock and every task, and the tasks
\* end: the publisher at its flags, the closes at their own time limits.  A
\* start that hangs or cannot go on fails at the time limits of the
\* application's startup and of the admitted operation.
FairSpec ==
    /\ Spec
    /\ WF_vars(Lifecycle) /\ WF_vars(StartFails)
    /\ \A j \in Jobs : WF_vars(TaskEnds(j))

-----------------------------------------------------------------------------
(* Properties.                                                             *)

\* The variables keep their types; only one thing is ever closing or has
\* closed the subscription that the worker keeps.
TypeOK ==
    /\ <<started, quarantined, stopping, held, errors>> \in
          {0, 1} \X {0, 1} \X {0, 1} \X {0, 1} \X {0, 1}
    /\ job \in [Jobs -> {"none", "running", "ended"}]
    /\ application \in {"new", "running", "closed"}
    /\ database \in {"open", "closed"}
    /\ channel \in {"none", "open", "closed"}
    /\ lock \in {"none", "start", "failing", "stop"}
    /\ pc \in {"idle", "application", "subscribe", "commit", "pending", "database"} \cup Jobs
    /\ pending \subseteq Jobs
    /\ starts \in 0..MaxStarts
    /\ lock = "none" <=> pc = "idle"
    /\ Running("closer") => held = 0

\* The operations database outlives everything that uses it: it is closed
\* only when the publisher loop and the application's shutdown have ended,
\* those that resisted their cancellation included (_cleanup).
DatabaseClosedLast ==
    database = "closed" => ~Running("publisher") /\ ~Running("shutdown") /\ application # "running"

\* A quarantined worker takes no new deliveries: whenever it runs, and no
\* lifecycle operation is under way, its subscription is closed or a task has
\* been made to close it
\* (_quarantine; "closes its durable subscription" in ADR-019's runtime
\* implementation notes).
QuarantineCloses ==
    (quarantined = 1 /\ started = 1 /\ lock = "none") =>
        channel # "open" \/ job["closer"] # "none"

\* A start that failed or a stop, when its clean-up reports no error, has
\* left nothing behind: no subscription, no publisher, no application.
CleanStopIsComplete ==
    (lock = "none" /\ started = 0 /\ starts > 0 /\ errors = 0 /\ database = "closed") =>
        /\ channel # "open" /\ held = 0
        /\ \A j \in Jobs : job[j] = "none"
        /\ application = "closed"

\* Whatever fails, is cancelled or times out, the worker closes what it opened
\* in order: the database last, the subscription of a quarantined worker, and
\* everything before stop() reports success.
WorkerSound ==
    /\ TypeOK
    /\ DatabaseClosedLast
    /\ QuarantineCloses
    /\ CleanStopIsComplete

\* start and stop give the lifecycle lock back.
LifecycleEnds == (lock # "none") ~> (lock = "none")
=============================================================================
