------------------------- MODULE ApplicationLifecycle -------------------------
(***************************************************************************)
(* The ASGI application (application.py): startup, its roll back,          *)
(* shutdown, and the requests that shutdown drains.                        *)
(*                                                                         *)
(* startup() and shutdown() run under _lifecycle_lock, so one program      *)
(* counter serves both.  A lifecycle hook is a task of its own: it may     *)
(* return, raise, run into the deadline, be cancelled, end in any way      *)
(* after the cancellation, or resist it and be left behind.  The caller's  *)
(* cancellation interrupts a startup hook and is otherwise only remembered *)
(* (_await_cleanup shields the clean-up), so it is no step of its own.     *)
(***************************************************************************)
EXTENDS Integers, FiniteSets

CONSTANTS
    N,         \* lifecycle components, 1..N in registration order
    S,         \* startup hooks, run after the components
    F,         \* shutdown hooks, run after the components have stopped
    Requests   \* concurrent HTTP requests

VARIABLES
    state,     \* BusinessOSApplication.state
    up,        \* Len(_started_components): components 1..up are in the list
    complete,  \* _cleanup_complete, as 0 or 1
    call,      \* the operation that holds _lifecycle_lock
    pc,        \* the await at which it is suspended
    pos,       \* the hook it is at; see Cleanup for the order of clean-up
    failed,    \* 1 when the clean-up has collected an error
    forced,    \* (history) 1 when the drain of the requests has timed out
    comp,      \* what the hooks of each component have done
    active,    \* _active_requests
    drained,   \* _requests_drained, as 0 or 1
    req,       \* where _handle_http_traced is
    task       \* the handler task of _run_request_until_disconnect

lifeVars == <<state, up, complete, call, pc, pos, failed, forced, comp>>
reqVars  == <<active, drained, req, task>>
vars     == <<lifeVars, reqVars>>

Components == 1..N

\* Clean-up visits the started components in reverse, up..1, then the
\* shutdown hooks at 0, -1, ..., then container.close at -F.
LastHook == -F

Init ==
    /\ state = "NEW" /\ up = 0 /\ complete = 0
    /\ call = "none" /\ pc = "idle" /\ pos = 0
    /\ failed = 0 /\ forced = 0
    /\ comp = [c \in Components |-> "down"]
    /\ active = 0 /\ drained = 1
    /\ req = [r \in Requests |-> "idle"]
    /\ task = [r \in Requests |-> "none"]

-----------------------------------------------------------------------------
(* startup().                                                              *)

SetComp(p, v) == comp' = IF p \in Components THEN [comp EXCEPT ![p] = v] ELSE comp

Startup ==
    /\ call = "none"
    /\ state = "NEW"
    /\ state' = "STARTING"
    /\ call' = "startup" /\ pc' = "hook" /\ pos' = 1
    /\ SetComp(1, "starting")
    /\ UNCHANGED <<up, complete, failed, forced, reqVars>>

\* completed.append and _started_components.append: only components.
Completed(p) == up' = IF p \in Components THEN p ELSE up

\* The hook at pos is over and the next one begins, or the application runs.
HookReturns ==
    /\ call = "startup" /\ pc = "hook"
    /\ Completed(pos)
    /\ comp' = [c \in Components |-> IF c = pos THEN "up"
                                     ELSE IF c = pos + 1 THEN "starting" ELSE comp[c]]
    /\ IF pos = N + S
       THEN state' = "RUNNING" /\ call' = "none" /\ pc' = "idle" /\ pos' = 0
       ELSE pos' = pos + 1 /\ UNCHANGED <<state, call, pc>>
    /\ UNCHANGED <<complete, failed, forced, reqVars>>

\* Clean-up begins with the last of the first k components, which are all
\* that have started.
Cleanup(k, s) ==
    /\ pc' = "hook" /\ pos' = k
    /\ comp' = [c \in Components |-> IF c = k THEN "stopping" ELSE s[c]]

\* Startup fails at the hook at pos, which was left in state s.
RollBack(s) ==
    /\ call' = "rollback"
    /\ Cleanup(up', IF pos \in Components THEN [comp EXCEPT ![pos] = s] ELSE comp)
    /\ UNCHANGED <<state, complete, failed, forced, reqVars>>

HookRaises ==
    /\ call = "startup" /\ pc = "hook"
    /\ UNCHANGED up
    /\ RollBack("failed")

\* The startup deadline passed, or the caller was cancelled while it waited
\* for the hook: _cancel_owned_task.
Interrupt ==
    /\ call = "startup" /\ pc = "hook"
    /\ pc' = "cancel"
    /\ UNCHANGED <<state, up, complete, call, pos, failed, forced, comp, reqVars>>

\* The cancelled hook completed all the same: its component has started and
\* is rolled back with the others.
CancelledCompletes ==
    /\ call = "startup" /\ pc = "cancel"
    /\ Completed(pos)
    /\ RollBack("up")

\* It ended with CancelledError or another error, or resisted: it is left
\* running and its component is not counted as started.
CancelledEnds ==
    /\ call = "startup" /\ pc = "cancel"
    /\ UNCHANGED up
    /\ \E s \in {"failed", "lingering"} : RollBack(s)

-----------------------------------------------------------------------------
(* shutdown().                                                             *)

Shutdown ==
    /\ call = "none"
    /\ state # "STOPPED" /\ complete = 0
    /\ state' = "STOPPING"
    /\ call' = "shutdown" /\ pc' = "drain"
    /\ UNCHANGED <<up, complete, pos, failed, forced, comp, reqVars>>

RequestsDrained ==
    /\ call = "shutdown" /\ pc = "drain"
    /\ drained = 1
    /\ Cleanup(up, comp)
    /\ UNCHANGED <<state, up, complete, call, failed, forced, reqVars>>

DrainTimesOut ==
    /\ call = "shutdown" /\ pc = "drain"
    /\ drained = 0
    /\ failed' = 1 /\ forced' = 1
    /\ Cleanup(up, comp)
    /\ UNCHANGED <<state, up, complete, call, reqVars>>

\* _run_cleanup_hooks: the hook at pos is over, its component is in state s;
\* go on with the next, or end the operation.
CleanupNext(s) ==
    /\ comp' = [c \in Components |->
                  IF c = pos THEN s ELSE IF c = pos - 1 THEN "stopping" ELSE comp[c]]
    /\ IF pos = LastHook
       THEN /\ call' = "none" /\ pc' = "idle" /\ pos' = 0
            /\ complete' = 1 /\ up' = 0
            /\ state' = IF call = "rollback" \/ failed' = 1 THEN "FAILED" ELSE "STOPPED"
       ELSE /\ pos' = pos - 1 /\ pc' = "hook"
            /\ UNCHANGED <<state, up, complete, call>>

CleaningUp == call \in {"rollback", "shutdown"}

StopReturns ==
    /\ CleaningUp /\ pc = "hook"
    /\ UNCHANGED failed
    /\ CleanupNext("stopped")
    /\ UNCHANGED <<forced, reqVars>>

StopRaises ==
    /\ CleaningUp /\ pc = "hook"
    /\ failed' = 1
    /\ CleanupNext("broken")
    /\ UNCHANGED <<forced, reqVars>>

StopTimesOut ==
    /\ CleaningUp /\ pc = "hook"
    /\ pc' = "cancel" /\ failed' = 1
    /\ UNCHANGED <<state, up, complete, call, pos, forced, comp, reqVars>>

\* The cancelled hook completed, ended with an error or resisted and is left
\* behind; the timeout stays an error whatever it did.
StopCancelled ==
    /\ CleaningUp /\ pc = "cancel"
    /\ UNCHANGED failed
    /\ \E s \in {"stopped", "broken", "hanging"} : CleanupNext(s)
    /\ UNCHANGED <<forced, reqVars>>

\* A hook that resisted its cancellation ends at last.
StrayEnds(c) ==
    /\ \/ comp[c] = "lingering" /\ \E s \in {"leaked", "failed"} : SetComp(c, s)
       \/ comp[c] = "hanging" /\ \E s \in {"stopped", "broken"} : SetComp(c, s)
    /\ UNCHANGED <<state, up, complete, call, pc, pos, failed, forced, reqVars>>

-----------------------------------------------------------------------------
(* HTTP requests that are not for an operational path.                     *)

\* Mutant of Admit: a request is refused only once the application stopped.
AdmitWhileStopping(r) ==
    /\ req[r] = "idle"
    /\ state \in {"RUNNING", "STOPPING"}
    /\ active' = active + 1 /\ drained' = 0
    /\ req' = [req EXCEPT ![r] = "enter"]
    /\ UNCHANGED <<task, lifeVars>>

Admit(r) ==
    /\ req[r] = "idle"
    /\ state = "RUNNING"
    /\ active' = active + 1 /\ drained' = 0
    /\ req' = [req EXCEPT ![r] = "enter"]
    /\ UNCHANGED <<task, lifeVars>>

\* The context is resolved, the route matched, the body read and the scope
\* open: the handler and the disconnect watcher run.
Serve(r) ==
    /\ req[r] = "enter"
    /\ req' = [req EXCEPT ![r] = "serve"]
    /\ task' = [task EXCEPT ![r] = "running"]
    /\ UNCHANGED <<active, drained, lifeVars>>

\* The handler task ends, in its own time whether it was cancelled or not.
HandlerEnds(r) ==
    /\ task[r] \in {"running", "cancelled"}
    /\ task' = [task EXCEPT ![r] = "done"]
    /\ UNCHANGED <<active, drained, req, lifeVars>>

\* The client went away or the server cancelled the request: the handler is
\* cancelled once and awaited, however often the request is cancelled.
Disconnect(r) ==
    /\ req[r] = "serve" /\ task[r] # "done"
    /\ task' = [task EXCEPT ![r] = "cancelled"]
    /\ req' = [req EXCEPT ![r] = "drain"]
    /\ UNCHANGED <<active, drained, lifeVars>>

HandlerAwaited(r) ==
    /\ req[r] \in {"serve", "drain"} /\ task[r] = "done"
    /\ req' = [req EXCEPT ![r] = "exit"]
    /\ UNCHANGED <<active, drained, task, lifeVars>>

\* The finally block, after the scope is closed or entering has failed.
Leave(r) ==
    /\ req[r] \in {"enter", "exit"}
    /\ active' = active - 1
    /\ drained' = IF active = 1 THEN 1 ELSE drained
    /\ req' = [req EXCEPT ![r] = "idle"]
    /\ task' = [task EXCEPT ![r] = "none"]
    /\ UNCHANGED lifeVars

-----------------------------------------------------------------------------
LifecycleStep ==
    \/ HookReturns \/ HookRaises \/ Interrupt \/ CancelledCompletes \/ CancelledEnds
    \/ RequestsDrained \/ DrainTimesOut
    \/ StopReturns \/ StopRaises \/ StopTimesOut \/ StopCancelled

RequestStep(r) ==
    Admit(r) \/ Serve(r) \/ HandlerEnds(r) \/ Disconnect(r) \/ HandlerAwaited(r) \/ Leave(r)

Next ==
    \/ Startup \/ Shutdown \/ LifecycleStep
    \/ \E c \in Components : StrayEnds(c)
    \/ \E r \in Requests : RequestStep(r)

Spec == Init /\ [][Next]_vars

\* The event loop resumes the task that holds the lifecycle lock: its hook
\* ends or one of the deadlines passes.  Hooks, handlers and callers owe
\* nothing.
FairSpec == Spec /\ WF_vars(LifecycleStep)

-----------------------------------------------------------------------------
(* Properties.                                                             *)

LifeTypeOK ==
    /\ state \in {"NEW", "STARTING", "RUNNING", "STOPPING", "STOPPED", "FAILED"}
    /\ up \in 0..N
    /\ complete \in {0, 1} /\ failed \in {0, 1} /\ forced \in {0, 1}
    /\ call \in {"none", "startup", "rollback", "shutdown"}
    /\ pc \in {"idle", "hook", "cancel", "drain"}
    /\ pos \in LastHook..(N + S)
    /\ comp \in [Components -> {"down", "starting", "up", "failed", "lingering", "leaked",
                                "stopping", "stopped", "broken", "hanging"}]

RequestTypeOK ==
    /\ active \in Int
    /\ drained \in {0, 1}
    /\ req \in [Requests -> {"idle", "enter", "serve", "drain", "exit"}]
    /\ task \in [Requests -> {"none", "running", "cancelled", "done"}]

\* The variables keep their types and every request that runs has its own
\* handler task: a task that is not done is still awaited by its request.
TypeOK ==
    /\ LifeTypeOK /\ RequestTypeOK
    /\ \A r \in Requests : task[r] \in {"running", "cancelled"} => req[r] \in {"serve", "drain"}

\* Whatever fails, times out or is cancelled, a component starts, runs and
\* stops only while every component registered before it is up (startup,
\* _run_cleanup_hooks over reversed lists).
EarlierComponentsUp ==
    \A c \in Components : comp[c] \in {"starting", "up", "stopping"} =>
        \A d \in 1..(c - 1) : comp[d] = "up"

\* Once the clean-up is complete no component is left up: every one whose
\* startup completed before the roll back, the interrupted ones included,
\* has had its shutdown run (startup, _startup_rollback, shutdown).
NothingLeftUp ==
    complete = 1 => \A c \in Components : comp[c] \notin {"starting", "up", "stopping"}

\* A request is served by the whole application: from its admission until
\* its handler has ended and its scope is closed every component is up,
\* unless the drain of the requests timed out (_handle_http_traced,
\* _shutdown_sequence).
ServedByAll ==
    \A r \in Requests : req[r] # "idle" =>
        forced = 1 \/ \A c \in Components : comp[c] = "up"

\* The counter and the event that shutdown waits for agree with the requests
\* that run, whichever way each of them ends (_handle_http_traced).
RequestsCounted ==
    /\ active = Cardinality({r \in Requests : req[r] # "idle"})
    /\ drained = 1 <=> active = 0

\* STOPPED means that all went well: every component stopped without an
\* error and no request was cut off; anything else is reported as FAILED.
StoppedIsClean ==
    state = "STOPPED" =>
        /\ \A c \in Components : comp[c] \in {"down", "stopped"}
        /\ \A r \in Requests : req[r] = "idle"

\* Start-up and clean-up keep the components in order, whichever hooks fail and
\* whichever calls are cancelled: what is up rests on what is up, nothing stays
\* up unnoticed, and a drain waits for the requests that are counted.
ComponentsSound ==
    /\ TypeOK
    /\ EarlierComponentsUp
    /\ NothingLeftUp
    /\ RequestsCounted
    /\ StoppedIsClean

\* startup and shutdown end and give the lifecycle lock back, even when
\* hooks never return, resist cancellation, or requests never leave.
LifecycleEnds == (call # "none") ~> (call = "none")
=============================================================================
