--------------------------- MODULE ModuleLifecycle ---------------------------
(***************************************************************************)
(* The module lifecycle of the platform kernel: modules/registry.py        *)
(* (ModuleRegistry.replace and LifecycleManager), modules/sdk.py           *)
(* (ModuleRegistration) and activation.py (ContributionGate), together     *)
(* with the requests that resolve a contribution and then hold its         *)
(* generation through the gate.                                            *)
(*                                                                         *)
(* Every lifecycle operation runs under LifecycleManager._lifecycle_lock,  *)
(* so there is one program counter for all of them.  A step of it ends at  *)
(* an await of the code; between two steps requests and ModuleRegistry     *)
(* .replace, which takes no lock, may run.                                 *)
(***************************************************************************)
EXTENDS Integers, FiniteSets

CONSTANTS
    Modules,              \* the module ids
    N,                    \* how many there are
    Order,                \* ModuleRegistry.ordered(): position -> module
    Deps,                 \* manifest.dependencies of each module
    MaxGen,               \* bound: activation attempts per module
    Requests,             \* concurrent handler invocations
    MaxLeases,            \* bound: generations one request holds (admit_many)
    ReplaceUnderLock      \* may replace() run while the lifecycle lock is held?

ASSUME OrderAssumption ==
    /\ N \in Nat \ {0}
    /\ Order \in [1..N -> Modules]
    /\ \A m \in Modules : \E i \in 1..N : Order[i] = m
    /\ \A i, j \in 1..N : Order[i] = Order[j] => i = j

\* _ordered_manifests sorts topologically and rejects cycles.
ASSUME DepsAssumption ==
    /\ Deps \in [Modules -> SUBSET Modules]
    /\ \A i, j \in 1..N : Order[i] \in Deps[Order[j]] => i < j

ASSUME BoundsAssumption ==
    /\ MaxGen \in Nat \ {0}
    /\ MaxLeases \in Nat
    /\ IsFiniteSet(Requests)
    /\ ReplaceUnderLock \in BOOLEAN

VARIABLES
    state,      \* RegisteredModule.state
    started,    \* the modules with RegisteredModule.started
    reg,        \* RegisteredModule.registration: its generation, 0 for None
    lifecycle,  \* ContributionGate._states[g].lifecycle, "absent" if no entry
    inFlight,   \* ContributionGate._states[g].in_flight
    nextGen,    \* ContributionGate._next_generation
    retired,    \* ContributionGate._retired
    entries,    \* generations with routes, handlers, jobs... in the registries
    services,   \* generations with registrations in the DI container
    caller,     \* the lifecycle operation that holds the lifecycle lock
    pc,         \* the await at which it is suspended
    cur,        \* the module whose RegisteredModule.lock it holds
    pos,        \* its position in ordered(), for the *_all operations
    fresh,      \* `enabled` of _enable_all
    stale,      \* modules replaced since _enable_all took its snapshot
    before,     \* (history) the modules ENABLED when _enable_all began
    errors,     \* `errors` of _disable: the hooks that raised
    req         \* the requests

modVars  == <<state, started, reg>>
gateVars == <<lifecycle, inFlight, nextGen, retired>>
contVars == <<entries, services>>
loopVars == <<pos, fresh, stale, before>>
opVars   == <<caller, pc, cur, loopVars, errors>>
vars     == <<modVars, gateVars, contVars, opVars, req>>

Gens == 1..MaxGen

ModuleState == {"AVAILABLE", "INSTALLED", "ENABLED", "DISABLED",
                "UNINSTALLING", "FAILED", "RETIRED"}

ContributionState == {"absent", "staged", "active", "draining", "inactive"}

Callers == {"none", "enable", "enable_all", "rollback", "disable",
            "disable_all", "retire"}

Steps == {"idle", "loop", "register", "start", "publish", "undo_stop",
          "undo_remove", "drain", "stop", "remove", "retire", "retire_rollback"}

Init ==
    /\ state = [m \in Modules |-> "AVAILABLE"]
    /\ started = {}
    /\ reg = [m \in Modules |-> 0]
    /\ lifecycle = [m \in Modules |-> [g \in Gens |-> "absent"]]
    /\ inFlight = [m \in Modules |-> [g \in Gens |-> 0]]
    /\ nextGen = [m \in Modules |-> 0]
    /\ retired = {}
    /\ entries = [m \in Modules |-> {}]
    /\ services = [m \in Modules |-> {}]
    /\ caller = "none"
    /\ pc = "idle"
    /\ cur = Order[1]
    /\ pos = 0
    /\ fresh = {}
    /\ stale = {}
    /\ before = {}
    /\ errors = {}
    /\ req = [r \in Requests |-> [pc |-> "idle", leases |-> {}]]

-----------------------------------------------------------------------------
(* The contribution gate.                                                  *)

\* ContributionGate.reserve: the next generation of m, staged.
Reserve(m) ==
    /\ m \notin retired
    /\ nextGen' = [nextGen EXCEPT ![m] = @ + 1]
    /\ lifecycle' = [lifecycle EXCEPT ![m][nextGen[m] + 1] = "staged"]

\* Bound: m may make one more activation attempt.
Activable(m) == nextGen[m] < MaxGen

\* ContributionGate.is_active
IsActive(m, g) == lifecycle[m][g] = "active"

\* ModuleRegistration._finished: set by the removal that discards the gate entry.
Finished(m, g) == lifecycle[m][g] = "absent"

\* The module has a registration whose remove() has not run to its end.
Registered(m) == reg[m] \in {g \in Gens : ~Finished(m, g)}

\* ModuleRegistration._remove_contributions of generation g of m, to the end:
\* container, registries, then ContributionGate.discard, which refuses a
\* generation with work in flight.
Removable(m, g) == inFlight[m][g] = 0

\* Mutant of RemoveContributions: the registries are not cleaned.
RemoveServicesOnly(m, g) ==
    /\ services' = [services EXCEPT ![m] = @ \ {g}]
    /\ lifecycle' = [lifecycle EXCEPT
                       ![m][g] = IF Removable(m, g) THEN "absent" ELSE @]
    /\ UNCHANGED entries

RemoveContributions(m, g) ==
    /\ services' = [services EXCEPT ![m] = @ \ {g}]
    /\ entries' = [entries EXCEPT ![m] = @ \ {g}]
    /\ lifecycle' = [lifecycle EXCEPT
                       ![m][g] = IF Removable(m, g) THEN "absent" ELSE @]

-----------------------------------------------------------------------------
(* How _enable and _disable return to the operation that called them.      *)

\* The lock is released and the locals of the loops are gone.
Idle ==
    /\ caller' = "none"
    /\ pc' = "idle"
    /\ pos' = 0
    /\ fresh' = {}
    /\ stale' = {}
    /\ before' = {}

\* Mutant of EnableReturned: the module is not recorded for the roll back.
EnableReturnedUnrecorded(m, wasEnabled) ==
    \/ /\ caller = "enable"
       /\ Idle
    \/ /\ caller = "enable_all"
       /\ pos' = pos + 1
       /\ pc' = "loop"
       /\ UNCHANGED <<caller, fresh, stale, before>>

\* _enable returned: _enable_all appends the module when its snapshot of it
\* went from another state to ENABLED (a replaced snapshot never does).
EnableReturned(m, wasEnabled) ==
    \/ /\ caller = "enable"
       /\ Idle
    \/ /\ caller = "enable_all"
       /\ fresh' = IF ~wasEnabled /\ state'[m] = "ENABLED" /\ m \notin stale
                   THEN fresh \cup {m} ELSE fresh
       /\ pos' = pos + 1
       /\ pc' = "loop"
       /\ UNCHANGED <<caller, stale, before>>

\* _enable raised: _enable_all starts to roll back what it has enabled.
EnableRaised ==
    \/ /\ caller = "enable"
       /\ Idle
    \/ /\ caller = "enable_all"
       /\ caller' = "rollback"
       /\ pos' = pos - 1
       /\ pc' = "loop"
       /\ UNCHANGED <<fresh, stale, before>>

\* _disable returned (ok) or raised: the loops collect the error and go on.
DisableEnded(ok) ==
    \/ /\ caller \in {"disable_all", "rollback"}
       /\ pos' = pos - 1
       /\ pc' = "loop"
       /\ UNCHANGED <<caller, fresh, stale, before>>
    \/ /\ caller = "retire" /\ ok
       /\ pc' = "retire"
       /\ UNCHANGED <<caller, loopVars>>
    \/ /\ caller = "disable" \/ (caller = "retire" /\ ~ok)
       /\ Idle

-----------------------------------------------------------------------------
(* LifecycleManager._enable                                                *)

\* _validate_active_dependencies
DependenciesActive(m) == \A d \in Deps[m] : state[d] = "ENABLED"

\* Mutant of EnabledDependents: dependents are not looked up.
EnabledDependentsIgnored(m) == {}

\* _reject_enabled_dependents looks at ENABLED modules only.
EnabledDependents(m) == {d \in Modules : state[d] = "ENABLED" /\ m \in Deps[d]}

\* The part of _enable(m) before its first await, for each early outcome.
\* A manifest that changed since admission or a missing capability fails the
\* attempt like a dependency that is not enabled.
BeginEnable(m, who) ==
    /\ cur' = m
    /\ errors' = {}
    /\ caller' = who
    /\ state[m] \in {"INSTALLED", "DISABLED"}
    /\ Reserve(m)
    /\ \/ DependenciesActive(m) /\ pc' = "register"
       \/ pc' = "undo_remove"
    /\ UNCHANGED <<modVars, inFlight, retired, contVars, loopVars, req>>

\* await module.register(registration): contributions enter the registries
\* and the container as the module registers them; a failure may leave some.
RegisterModule ==
    /\ pc = "register"
    /\ LET g == nextGen[cur] IN
       \/ /\ entries' = [entries EXCEPT ![cur] = @ \cup {g}]
          /\ services' = [services EXCEPT ![cur] = @ \cup {g}]
          /\ pc' = "start"
       \/ /\ entries' \in {entries, [entries EXCEPT ![cur] = @ \cup {g}]}
          /\ services' \in {services, [services EXCEPT ![cur] = @ \cup {g}]}
          /\ pc' = "undo_remove"
    /\ UNCHANGED <<modVars, gateVars, caller, cur, loopVars, errors, req>>

\* await module.start()
StartModule ==
    /\ pc = "start"
    /\ \/ /\ started' = started \cup {cur}
          /\ pc' = "publish"
       \/ /\ pc' = "undo_stop"
          /\ UNCHANGED started
    /\ UNCHANGED <<state, reg, gateVars, contVars, caller, cur, loopVars, errors, req>>

\* The activation fence commits, then, with no await, resources.stage,
\* gate.publish and the assignment of registration and state.
PublishModule ==
    /\ pc = "publish"
    /\ cur \notin retired
    /\ lifecycle[cur][nextGen[cur]] # "absent"
    /\ lifecycle' = [lifecycle EXCEPT ![cur][nextGen[cur]] = "active"]
    /\ reg' = [reg EXCEPT ![cur] = nextGen[cur]]
    /\ state' = [state EXCEPT ![cur] = "ENABLED"]
    /\ EnableReturned(cur, FALSE)
    /\ UNCHANGED <<started, inFlight, nextGen, retired, contVars, cur, errors, req>>

\* The fence's commit, resources.stage or gate.publish raises.
PublishFails ==
    /\ pc = "publish"
    /\ pc' = "undo_stop"
    /\ UNCHANGED <<modVars, gateVars, contVars, caller, cur, loopVars, errors, req>>

\* The except branch: module.stop() after an attempted start.
UndoStop ==
    /\ pc = "undo_stop"
    /\ \/ started' = started \ {cur}
       \/ started' = started \cup {cur}
    /\ pc' = "undo_remove"
    /\ UNCHANGED <<state, reg, gateVars, contVars, caller, cur, loopVars, errors, req>>

\* ... then registration.rollback(), state FAILED, and the exception leaves.
UndoRemove ==
    /\ pc = "undo_remove"
    /\ RemoveContributions(cur, nextGen[cur])
    /\ state' = [state EXCEPT ![cur] = "FAILED"]
    /\ EnableRaised
    /\ UNCHANGED <<started, reg, inFlight, nextGen, retired, cur, errors, req>>

-----------------------------------------------------------------------------
(* LifecycleManager._disable                                               *)

\* _disable returns without doing anything.
NothingToDisable(m) ==
    \/ state[m] = "FAILED" /\ reg[m] = 0 /\ m \notin started
    \/ state[m] \notin {"ENABLED", "FAILED"}

\* Where _disable goes once stop_accepting is done.
AfterDrain(m) == IF m \in started THEN "stop" ELSE "remove"

\* The part of _disable(m) before its first await; close_and_drain turns the
\* generation DRAINING before it waits.
BeginDisable(m, who) ==
    /\ ~NothingToDisable(m)
    /\ cur' = m
    /\ errors' = {}
    /\ caller' = who
    /\ \/ /\ Registered(m)
          /\ lifecycle' = [lifecycle EXCEPT ![m][reg[m]] = "draining"]
          /\ pc' = "drain"
       \/ /\ ~Registered(m)
          /\ pc' = AfterDrain(m)
          /\ UNCHANGED lifecycle
    /\ UNCHANGED <<modVars, inFlight, nextGen, retired, contVars, loopVars, req>>

\* Mutant of Drained: the drain does not wait.
DrainedAtOnce ==
    /\ pc = "drain"
    /\ lifecycle' = [lifecycle EXCEPT ![cur][reg[cur]] = "inactive"]
    /\ pc' = AfterDrain(cur)
    /\ UNCHANGED <<modVars, inFlight, nextGen, retired, contVars,
                   caller, cur, loopVars, errors, req>>

\* close_and_drain: every admitted invocation has left.
Drained ==
    /\ pc = "drain"
    /\ inFlight[cur][reg[cur]] = 0
    /\ lifecycle' = [lifecycle EXCEPT ![cur][reg[cur]] = "inactive"]
    /\ pc' = AfterDrain(cur)
    /\ UNCHANGED <<modVars, inFlight, nextGen, retired, contVars,
                   caller, cur, loopVars, errors, req>>

\* Mutant of DrainFails: the drain has no deadline and is never cancelled.
DrainNeverFails == FALSE /\ UNCHANGED vars

\* close_and_drain times out or is cancelled: FAILED, still DRAINING.
DrainFails ==
    /\ pc = "drain"
    /\ state' = [state EXCEPT ![cur] = "FAILED"]
    /\ DisableEnded(FALSE)
    /\ UNCHANGED <<started, reg, gateVars, contVars, cur, errors, req>>

\* await module.stop()
StopModule ==
    /\ pc = "stop"
    /\ pc' = "remove"
    /\ \/ /\ started' = started \ {cur}
          /\ UNCHANGED errors
       \/ /\ errors' = {"stop"}
          /\ UNCHANGED started
    /\ UNCHANGED <<state, reg, gateVars, contVars, caller, cur, loopVars, req>>

\* The end of _disable after remove() returned.
Conclude ==
    /\ state' = [state EXCEPT ![cur] = IF errors = {} THEN "DISABLED" ELSE "FAILED"]
    /\ DisableEnded(errors = {})

\* await registration.remove(), nothing left of the registration afterwards.
RemoveModule ==
    /\ pc = "remove"
    /\ \/ /\ Registered(cur)
          /\ Removable(cur, reg[cur])
          /\ RemoveContributions(cur, reg[cur])
       \/ /\ ~Registered(cur)
          /\ UNCHANGED <<lifecycle, contVars>>
    /\ reg' = [reg EXCEPT ![cur] = 0]
    /\ Conclude
    /\ UNCHANGED <<started, inFlight, nextGen, retired, cur, errors, req>>

\* remove() raises: a singleton finalizer failed (the container forgot its
\* registrations, nothing else was removed), discard refused, or the task was
\* cancelled (everything was removed, the registration is finished).
RemoveFails ==
    /\ pc = "remove"
    /\ Registered(cur)
    /\ \/ /\ reg[cur] \in services[cur]
          /\ services' = [services EXCEPT ![cur] = @ \ {reg[cur]}]
          /\ UNCHANGED <<entries, lifecycle>>
       \/ RemoveContributions(cur, reg[cur])
    /\ state' = [state EXCEPT ![cur] = "FAILED"]
    /\ DisableEnded(FALSE)
    /\ UNCHANGED <<started, reg, inFlight, nextGen, retired, cur, errors, req>>

-----------------------------------------------------------------------------
(* The public operations, each admitted when the lifecycle lock is free.   *)

LockFree == pc = "idle"

\* enable(m); the calls that return or raise at once change nothing.
Enable(m) ==
    /\ LockFree
    /\ Activable(m)
    /\ BeginEnable(m, "enable")

\* disable(m), refused while an ENABLED module depends on m.
Disable(m) ==
    /\ LockFree
    /\ EnabledDependents(m) = {}
    /\ BeginDisable(m, "disable")

\* enable_all: the snapshot of ordered() is taken here.
EnableAll ==
    /\ LockFree
    /\ \A m \in Modules : Activable(m)
    /\ caller' = "enable_all"
    /\ pc' = "loop"
    /\ pos' = 1
    /\ fresh' = {}
    /\ stale' = {}
    /\ before' = {m \in Modules : state[m] = "ENABLED"}
    /\ UNCHANGED <<modVars, gateVars, contVars, cur, errors, req>>

\* The next module of _enable_all: activate it, find nothing to do, or (a
\* RETIRED module) raise.
EnableNext ==
    /\ pc = "loop"
    /\ caller = "enable_all"
    /\ pos <= N
    /\ LET m == Order[pos] IN
       \/ BeginEnable(m, "enable_all")
       \/ /\ state[m] \notin {"INSTALLED", "DISABLED", "RETIRED"}
          /\ EnableReturned(m, TRUE)
          /\ UNCHANGED <<modVars, gateVars, contVars, cur, errors, req>>
       \/ /\ state[m] = "RETIRED"
          /\ EnableRaised
          /\ UNCHANGED <<modVars, gateVars, contVars, cur, errors, req>>

\* disable_all: in reverse order, dependents not validated.
DisableAll ==
    /\ LockFree
    /\ caller' = "disable_all"
    /\ pc' = "loop"
    /\ pos' = N
    /\ UNCHANGED <<modVars, gateVars, contVars, cur, fresh, stale, before, errors, req>>

\* The next module of disable_all, or of the roll back of _enable_all.
DisableNext ==
    /\ pc = "loop"
    /\ caller \in {"disable_all", "rollback"}
    /\ pos >= 1
    /\ LET m == Order[pos] IN
       \/ /\ caller = "rollback" => m \in fresh
          /\ BeginDisable(m, caller)
       \/ /\ NothingToDisable(m) \/ (caller = "rollback" /\ m \notin fresh)
          /\ DisableEnded(TRUE)
          /\ UNCHANGED <<modVars, gateVars, contVars, cur, errors, req>>

\* The loop is over: the lock is released.
LoopEnds ==
    /\ pc = "loop"
    /\ pos \notin 1..N
    /\ Idle
    /\ UNCHANGED <<modVars, gateVars, contVars, cur, errors, req>>

\* retire(m), refused while an ENABLED module depends on m; a module that is
\* enabled, started or registered is disabled first.
Retire(m) ==
    /\ LockFree
    /\ Activable(m)
    /\ EnabledDependents(m) = {}
    /\ \/ BeginDisable(m, "retire")
       \/ /\ NothingToDisable(m)
          /\ state[m] \in {"INSTALLED", "DISABLED", "FAILED"}
          /\ cur' = m
          /\ caller' = "retire"
          /\ pc' = "retire"
          /\ UNCHANGED <<modVars, gateVars, contVars, loopVars, errors, req>>

\* UNINSTALLING, and a fresh registration to remove what the owner may have.
BeginUninstall ==
    /\ pc = "retire"
    /\ Reserve(cur)
    /\ state' = [state EXCEPT ![cur] = "UNINSTALLING"]
    /\ pc' = "retire_rollback"
    /\ UNCHANGED <<started, reg, inFlight, retired, contVars, caller, cur,
                   loopVars, errors, req>>

\* rollback of that registration, retire_owner (which raises while any
\* generation of the owner has work in flight) and RETIRED.
FinishRetire ==
    /\ pc = "retire_rollback"
    /\ RemoveContributions(cur, nextGen[cur])
    /\ IF \A g \in Gens : inFlight[cur][g] = 0
       THEN /\ retired' = retired \cup {cur}
            /\ state' = [state EXCEPT ![cur] = "RETIRED"]
       ELSE UNCHANGED <<retired, state>>
    /\ Idle
    /\ UNCHANGED <<started, reg, inFlight, nextGen, cur, errors, req>>

\* install_all takes no lock and has no await.
InstallAll ==
    /\ \E m \in Modules : state[m] = "AVAILABLE"
    /\ state' = [m \in Modules |->
                   IF state[m] = "AVAILABLE" THEN "INSTALLED" ELSE state[m]]
    /\ UNCHANGED <<started, reg, gateVars, contVars, opVars, req>>

\* ModuleRegistry.replace: a new RegisteredModule object for an inactive id
\* whose own lock is free.  It runs while the operation at work is suspended at
\* an await ("loop" is none); a loop of _enable_all keeps the object it captured.
Replace(m) ==
    /\ LockFree \/ (ReplaceUnderLock /\ pc # "loop" /\ cur # m)
    /\ reg[m] = 0
    /\ m \notin started
    /\ state[m] \in {"DISABLED", "INSTALLED"}
    /\ state' = [state EXCEPT ![m] = "INSTALLED"]
    /\ stale' = IF caller = "enable_all" THEN stale \cup {m} ELSE stale
    /\ UNCHANGED <<started, reg, gateVars, contVars, caller, pc, cur,
                   pos, fresh, before, errors, req>>

-----------------------------------------------------------------------------
(* Requests: resolve, then (after other awaits) admit the exact generation *)
(* captured, run, and leave.                                               *)

Resolvable ==
    {l \in Modules \X Gens : IsActive(l[1], l[2]) /\ l[2] \in entries[l[1]]}

\* OwnedRegistry.resolve / EventBus.delivery_subscribers
Resolve(r) ==
    /\ req[r].pc = "idle"
    /\ \E ls \in SUBSET Resolvable :
         /\ ls # {} /\ Cardinality(ls) <= MaxLeases
         /\ req' = [req EXCEPT ![r] = [pc |-> "resolved", leases |-> ls]]
    /\ UNCHANGED <<modVars, gateVars, contVars, opVars>>

\* in_flight of every generation in ls changes by d.
Count(ls, d) ==
    [m \in Modules |-> [g \in Gens |->
        IF <<m, g>> \in ls THEN inFlight[m][g] + d ELSE inFlight[m][g]]]

\* ContributionGate.admit and admit_many: all of them, or NotFoundError.
Admit(r) ==
    /\ req[r].pc = "resolved"
    /\ IF \A l \in req[r].leases : IsActive(l[1], l[2])
       THEN /\ inFlight' = Count(req[r].leases, 1)
            /\ req' = [req EXCEPT ![r].pc = "admitted"]
       ELSE /\ req' = [req EXCEPT ![r] = [pc |-> "idle", leases |-> {}]]
            /\ UNCHANGED inFlight
    /\ UNCHANGED <<modVars, lifecycle, nextGen, retired, contVars, opVars>>

\* The finally of admit: return, exception or cancellation of the handler.
Leave(r) ==
    /\ req[r].pc = "admitted"
    /\ inFlight' = Count(req[r].leases, -1)
    /\ req' = [req EXCEPT ![r] = [pc |-> "idle", leases |-> {}]]
    /\ UNCHANGED <<modVars, lifecycle, nextGen, retired, contVars, opVars>>

-----------------------------------------------------------------------------
OperationStep ==
    \/ RegisterModule \/ StartModule \/ PublishModule \/ PublishFails
    \/ UndoStop \/ UndoRemove
    \/ Drained \/ DrainFails \/ StopModule \/ RemoveModule \/ RemoveFails
    \/ EnableNext \/ DisableNext \/ LoopEnds
    \/ BeginUninstall \/ FinishRetire

OperationCall ==
    \/ InstallAll \/ EnableAll \/ DisableAll
    \/ \E m \in Modules : Enable(m) \/ Disable(m) \/ Retire(m) \/ Replace(m)

RequestStep == \E r \in Requests : Resolve(r) \/ Admit(r) \/ Leave(r)

Next == OperationStep \/ OperationCall \/ RequestStep

Spec == Init /\ [][Next]_vars

\* The event loop runs a suspended operation again: module hooks return or
\* raise, and a drain ends at the latest with its timeout.
FairSpec == Spec /\ WF_vars(OperationStep)

-----------------------------------------------------------------------------
(* Properties                                                              *)

ModTypeOK ==
    /\ state \in [Modules -> ModuleState]
    /\ started \in SUBSET Modules
    /\ reg \in [Modules -> 0..MaxGen]

GateTypeOK ==
    /\ lifecycle \in [Modules -> [Gens -> ContributionState]]
    /\ inFlight \in [Modules -> [Gens -> Int]]
    /\ nextGen \in [Modules -> 0..MaxGen]
    /\ retired \in SUBSET Modules
    /\ entries \in [Modules -> SUBSET Gens]
    /\ services \in [Modules -> SUBSET Gens]

OpTypeOK ==
    /\ caller \in Callers
    /\ pc \in Steps
    /\ cur \in Modules
    /\ pos \in 0..(N + 1)
    /\ fresh \in SUBSET Modules
    /\ stale \in SUBSET Modules
    /\ before \in SUBSET Modules
    /\ errors \in SUBSET {"stop"}

RequestTypeOK ==
    req \in [Requests -> [pc : {"idle", "resolved", "admitted"},
                         leases : SUBSET (Modules \X Gens)]]

\* Every variable has its type; positions stay within ordered() and generation
\* numbers within the attempts counted.
TypeOK == ModTypeOK /\ GateTypeOK /\ OpTypeOK /\ RequestTypeOK

\* An ENABLED module has all the modules its manifest depends on ENABLED, at
\* every await of every operation: enabling validates it, disable and retire
\* refuse, and the *_all loops get it from their order alone.
EnabledDependenciesEnabled ==
    \A m \in Modules : state[m] = "ENABLED" => DependenciesActive(m)

\* A request that was admitted runs against a module that is started, whose
\* contributions are in the registries and whose stop() is not running: it
\* resolved earlier, so only the gate's drain protects it.
WorkIsProtected ==
    \A r \in Requests : req[r].pc = "admitted" =>
        \A l \in req[r].leases :
            /\ l[1] \in started
            /\ l[2] \in entries[l[1]]
            /\ lifecycle[l[1]][l[2]] \in {"active", "draining"}
            /\ ~(cur = l[1] /\ pc \in {"stop", "undo_stop", "remove", "undo_remove"})

\* At most one generation of a module is ACTIVE, it is the registered one and
\* the module is ENABLED and started: what active_generation and the routers
\* resolve is never a half-activated or half-removed module.
ActiveIsRegistered ==
    \A m \in Modules, g \in Gens : IsActive(m, g) =>
        reg[m] = g /\ state[m] = "ENABLED" /\ m \in started

\* Between operations the registries, the container and the gate hold nothing
\* but the registered generation of each module: a failed activation or removal
\* leaves no contribution that no later disable would find.
NothingOrphaned ==
    pc = "idle" => \A m \in Modules, g \in Gens :
        (g \in entries[m] \/ g \in services[m] \/ ~Finished(m, g)) => g = reg[m]

\* An operation that ended left no module UNINSTALLING: retire_owner never finds
\* work in flight, whatever drain timeouts came before.
RetireNotStuck == LockFree => \A m \in Modules : state[m] # "UNINSTALLING"

\* An operation that ended, well or badly, leaves nothing that a later one
\* would not find: no orphaned contribution and no module half uninstalled.
NothingLeftBehind == NothingOrphaned /\ RetireNotStuck

\* The gate's counters agree with the requests that hold the generation.
InFlightCounts ==
    \A m \in Modules, g \in Gens :
        inFlight[m][g] = Cardinality({r \in Requests :
                            req[r].pc = "admitted" /\ <<m, g>> \in req[r].leases})

\* The registry, the gate and the services tell the same story at every await
\* of every operation: what is ENABLED has its dependencies ENABLED, what is
\* ACTIVE is the registered generation of a started module, and the counters
\* are exact.
RegistryConsistent ==
    /\ TypeOK
    /\ EnabledDependenciesEnabled
    /\ ActiveIsRegistered
    /\ InFlightCounts

\* When _enable_all fails, no module that was not ENABLED before it is ENABLED
\* when it lets go of the lock.
EnableAllRollsBack ==
    [][caller = "rollback" /\ caller' = "none" =>
         \A m \in Modules : state'[m] = "ENABLED" => m \in before]_vars

\* Every lifecycle operation ends, even when admitted requests never leave.
OperationsEnd == pc # "idle" ~> pc = "idle"
=============================================================================
