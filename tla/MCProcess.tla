----------------------------- MODULE MCProcess -----------------------------
(***************************************************************************)
(* The processes of a deployment for TLC: the life of the web application, *)
(* the life of the event worker, and the delivery of an event by two event *)
(* workers.  They share nothing that another of them reads, so a behaviour *)
(* follows one of them while the others stay at their start, and TLC       *)
(* explores the three side by side.                                        *)
(***************************************************************************)
EXTENDS Integers, FiniteSets, TLC

CONSTANTS
    N, S, F, Requests,        \* of ApplicationLifecycle
    w1, w2,
    DeliverEarly, MaxStarts   \* of EventWorkerLifecycle

ASSUME ApplicationAssumption ==
    /\ N \in Nat \ {0} /\ S \in Nat /\ F \in Nat
    /\ IsFiniteSet(Requests)

ASSUME WorkerAssumption == MaxStarts \in Nat /\ DeliverEarly \in BOOLEAN

VARIABLES
    scene,
    \* ApplicationLifecycle
    state, up, complete, call, pc, pos, failed, forced, comp, active, drained, req, task,
    \* EventWorkerLifecycle
    started, quarantined, stopping, held, job, application, database, channel, mutex, stage,
    pending, errors, starts,
    \* EventDelivery
    outbox, inbox, applied, obligations, authority, stream, acked, terminated, status,
    credential, handlers, open, bound, step, msg, proof, left, sub, leased, owed, phase, locked,
    unsent, sent, faults

applicationVars == <<state, up, complete, call, pc, pos, failed, forced, comp, active, drained,
                     req, task>>
workerVars == <<started, quarantined, stopping, held, job, application, database, channel,
                mutex, stage, pending, errors, starts>>
deliveryVars == <<outbox, inbox, applied, obligations, authority, stream, acked, terminated,
                  status, credential, handlers, open, bound, step, msg, proof, left, sub, leased,
                  owed, phase, locked, unsent, sent, faults>>
allVars == <<scene, applicationVars, workerVars, deliveryVars>>

\* w1 has no module that knows the event type.
DeclareNewcomer == [w \in {w1, w2} |-> IF w = w1 THEN {} ELSE {1}]

Application == INSTANCE ApplicationLifecycle

Worker == INSTANCE EventWorkerLifecycle WITH pc <- stage, lock <- mutex

Delivery == INSTANCE EventDelivery WITH
    Workers <- {w1, w2}, Events <- {1}, Subscribers <- {1}, Permitted <- {1},
    Declares <- DeclareNewcomer, Malformed <- {}, BatchLimit <- 1, MaxStream <- 2,
    MaxGeneration <- 1, MaxFaults <- 1

-----------------------------------------------------------------------------
MCInit ==
    /\ Application!Init /\ Worker!Init /\ Delivery!Init
    /\ scene \in {"application", "worker", "delivery"}

MCNext ==
    \/ scene = "application" /\ Application!Next /\ UNCHANGED <<scene, workerVars, deliveryVars>>
    \/ scene = "worker" /\ Worker!Next /\ UNCHANGED <<scene, applicationVars, deliveryVars>>
    \/ scene = "delivery" /\ Delivery!Next /\ UNCHANGED <<scene, applicationVars, workerVars>>

\* The fairness of each specification, in its own scene.
MCSpec ==
    /\ MCInit /\ [][MCNext]_allVars
    /\ WF_applicationVars(scene = "application" /\ Application!LifecycleStep)
    /\ WF_workerVars(scene = "worker" /\ Worker!Lifecycle)
    /\ WF_workerVars(scene = "worker" /\ Worker!StartFails)
    /\ \A j \in Worker!Jobs : WF_workerVars(scene = "worker" /\ Worker!TaskEnds(j))
    /\ \A w \in {w1, w2} :
         /\ WF_deliveryVars(scene = "delivery" /\ Delivery!PublisherStep(w))
         /\ WF_deliveryVars(scene = "delivery" /\ Delivery!DeliveryStep(w))
         /\ \A m \in 1..2 : SF_deliveryVars(scene = "delivery" /\ Delivery!Receive(w, m))

-----------------------------------------------------------------------------
\* The application starts and stops its components in order and serves requests only with all
\* of them, even while startup fails or shutdown runs (ApplicationLifecycle).
ApplicationSound == Application!ComponentsSound /\ Application!ServedByAll

\* The event worker closes what it opened, in order (EventWorkerLifecycle).
WorkerSound == Worker!WorkerSound

\* Startup, shutdown, and the start and stop of the event worker end and give their lock back,
\* whatever never returns or resists cancellation (_cleanup).
Busy == call # "none" \/ mutex # "none"
LifecyclesEnd == Busy ~> ~Busy

\* Once some worker stays up with every obliged module enabled, every committed event reaches
\* its subscribers, although publications, acknowledgements, commits and workers fail on the
\* way (EventDelivery).
EventuallyApplied == Delivery!EventuallyApplied
=============================================================================
