--------------------------- MODULE MessageDispatch ---------------------------
(***************************************************************************)
(* Dispatch of commands, queries and jobs: the unit of work around a       *)
(* handler, the admissions it takes (its own generation, resource owners,  *)
(* retained declarations), the completion guards, nested dispatch, failure *)
(* and cancellation at every await, and the module generations that drain  *)
(* meanwhile (messages.py, operation_boundary.py, handler_invocation.py,   *)
(* resources.py, publication_execution.py, jobs.py, persistence/uow.py).   *)
(*                                                                         *)
(* A task's nested dispatches form a stack; only the last frame runs.      *)
(***************************************************************************)
EXTENDS Naturals, Sequences, FiniteSets

CONSTANTS Tasks,         \* asyncio tasks that dispatch
          Generations,   \* contribution generations: handlers, resource owners
          Coordinators,  \* generations approved to run owner operations
          MaxDepth,      \* bound on nested dispatch
          MaxDispatches, \* bound on the dispatches of a behaviour
          MaxGuards      \* completion guards of one operation (64 in the code)

VARIABLES gate,       \* lifecycle of each generation
          stack,      \* frames of each task, outermost first
          dispatched  \* how many dispatches there have been

vars == <<gate, stack, dispatched>>

Kinds == {"command", "query", "publication", "job"}

Stages == {"authorize", "open", "handler", "complete", "commit", "close", "scope",
           "gate", "boundary"}

Frame ==
    [kind : Kinds, owner : Generations, stage : Stages,
     tx : {"none", "open", "committed", "rolledback"},
     admitted : SUBSET Generations,   \* ResourceTransactionScope._admitted
     providers : SUBSET Generations,  \* operation providers resolved
     validated : SUBSET Generations,  \* _validated_operations
     writes : SUBSET Generations,     \* owners whose operation was applied
     retained : SUBSET Generations,   \* admissions kept by the boundary
     guards : 0 .. MaxGuards, entered : 0 .. MaxGuards,
     failed : BOOLEAN]

TypeOK ==
    /\ gate \in [Generations -> {"active", "draining", "removed"}]
    /\ \A t \in Tasks : stack[t] \in Seq(Frame)
    /\ dispatched \in 0 .. MaxDispatches

Init ==
    /\ gate = [g \in Generations |-> "active"]
    /\ stack = [t \in Tasks |-> <<>>]
    /\ dispatched = 0

Depth(t) == Len(stack[t])
Top(t) == stack[t][Depth(t)]
At(t, stage) == Depth(t) > 0 /\ Top(t).stage = stage

\* The running frame of task t becomes f.
Become(t, f) == stack' = [stack EXCEPT ![t][Depth(t)] = f]

HasUnit(f) == f.kind # "job"

-----------------------------------------------------------------------------
(* Dispatch and the way to the handler. *)

\* resolve and gate.admit: no await between them, so the generation that is
\* found active is the one that is counted.
Enter(t, kind, g) ==
    /\ dispatched < MaxDispatches
    /\ Depth(t) < MaxDepth
    /\ Depth(t) > 0 => At(t, "handler")
    /\ gate[g] = "active"
    /\ dispatched' = dispatched + 1
    /\ stack' = [stack EXCEPT ![t] = Append(@,
         [kind |-> kind, owner |-> g, stage |-> "authorize", tx |-> "none", admitted |-> {},
          providers |-> {}, validated |-> {}, writes |-> {}, retained |-> {}, guards |-> 0,
          entered |-> 0, failed |-> FALSE])]
    /\ UNCHANGED gate

\* reject_nested_dispatch_if_leased: the scope is that of the nearest frame
\* with a transaction; a job has none of its own.
NestingAllowed(t) ==
    \A i \in 1 .. Depth(t) :
      (\A j \in i + 1 .. Depth(t) : ~ HasUnit(stack[t][j])) => stack[t][i].admitted = {}

Dispatch(t, kind, g) ==
    /\ NestingAllowed(t)
    /\ Enter(t, kind, g)

\* A job is not asked for leases: it may run inside a transaction that holds them, and
\* its handler is given no transaction.
InvokeJob(t, g) == Enter(t, "job", g)

Authorize(t) ==
    /\ At(t, "authorize")
    /\ Become(t, [Top(t) EXCEPT !.stage = IF HasUnit(Top(t)) THEN "open" ELSE "handler"])
    /\ UNCHANGED <<gate, dispatched>>

\* The unit of work begins, inside the resource scope.
OpenUnit(t) ==
    /\ At(t, "open")
    /\ Become(t, [Top(t) EXCEPT !.stage = "handler", !.tx = "open"])
    /\ UNCHANGED <<gate, dispatched>>

-----------------------------------------------------------------------------
(* What the handler does; every capability is checked against the running frame. *)

\* ResourceTransactionScope.current: the task's own open transaction.
Current(t) == At(t, "handler") /\ Top(t).tx = "open"

\* resolve_provider admits the owner's generation for the rest of the
\* transaction; an operation provider needs a live approved coordinator.
ResolveProvider(t, o) ==
    /\ Current(t)
    /\ gate[o] = "active"
    /\ \E operation \in BOOLEAN :
         /\ operation => Top(t).owner \in Coordinators /\ gate[Top(t).owner] = "active"
         /\ Become(t, [Top(t) EXCEPT !.admitted = @ \cup {o},
                                     !.providers = IF operation THEN @ \cup {o} ELSE @])
    /\ UNCHANGED <<gate, dispatched>>

ValidateOperation(t, o) ==
    /\ Current(t)
    /\ o \in Top(t).providers
    /\ Become(t, [Top(t) EXCEPT !.validated = @ \cup {o}])
    /\ UNCHANGED <<gate, dispatched>>

\* consume_validation: one validation pays for one application.
ApplyOperation(t, o) ==
    /\ Current(t)
    /\ o \in Top(t).validated
    /\ Become(t, [Top(t) EXCEPT !.validated = @ \ {o}, !.writes = @ \cup {o}])
    /\ UNCHANGED <<gate, dispatched>>

\* _require_live: the binding issued for frame i is active only while that
\* frame's handler is the one running, and only inside its unit of work.
InvocationLive(t, i) == i = Depth(t) /\ At(t, "handler")

\* assert_resource_owner_invocation: a module's own write presents the binding
\* it was issued with the running request and transaction, which must be those
\* of a handler of the active canonical owner.
OwnerWrite(t, i) ==
    /\ Current(t)
    /\ InvocationLive(t, i)
    /\ gate[stack[t][i].owner] = "active"
    /\ Become(t, [Top(t) EXCEPT !.writes = @ \cup {stack[t][i].owner}])
    /\ UNCHANGED <<gate, dispatched>>

\* retain_for_operation: leases on the declaring generation until the boundary
\* ends, and a guard that revalidates the declaration before commit.
Retain(t, g) ==
    /\ Current(t)
    /\ gate[g] = "active"
    /\ Top(t).guards < MaxGuards
    /\ Become(t, [Top(t) EXCEPT !.retained = @ \cup {g}, !.guards = @ + 1])
    /\ UNCHANGED <<gate, dispatched>>

\* A publication's fixed writer runs after its declaration sources are retained.
SourcesRetained(f) == f.kind = "publication" => f.retained # {}

\* The handler returns; what it resolved and validated ends with it.
Return(t) ==
    /\ At(t, "handler")
    /\ SourcesRetained(Top(t))
    /\ Become(t, [Top(t) EXCEPT !.stage = IF HasUnit(Top(t)) THEN "complete" ELSE "gate",
                                !.providers = {}, !.validated = {}])
    /\ UNCHANGED <<gate, dispatched>>

-----------------------------------------------------------------------------
(* Completion, commit and cleanup. *)

\* boundary.complete: every deferred guard is entered, in order.
EnterGuard(t) ==
    /\ At(t, "complete")
    /\ Top(t).entered < Top(t).guards
    /\ Become(t, [Top(t) EXCEPT !.entered = @ + 1])
    /\ UNCHANGED <<gate, dispatched>>

Completed(t) ==
    /\ At(t, "complete")
    /\ Top(t).entered = Top(t).guards
    /\ Become(t, [Top(t) EXCEPT !.stage = IF Top(t).kind = "query" THEN "close" ELSE "commit"])
    /\ UNCHANGED <<gate, dispatched>>

Commit(t) ==
    /\ At(t, "commit")
    /\ Become(t, [Top(t) EXCEPT !.stage = "close", !.tx = "committed"])
    /\ UNCHANGED <<gate, dispatched>>

\* An exception or cancellation at an await.  Interrupted while the commit is
\* under way, the database may have committed all the same.
Fail(t) ==
    /\ Depth(t) > 0
    /\ Top(t).stage \in {"authorize", "open", "handler", "complete", "commit"}
    /\ \E tx \in {Top(t).tx} \cup (IF At(t, "commit") THEN {"committed"} ELSE {}) :
         Become(t, [Top(t) EXCEPT !.failed = TRUE, !.tx = tx, !.providers = {}, !.validated = {},
                                  !.stage = CASE Top(t).tx # "none" -> "close"
                                              [] At(t, "open") -> "scope"
                                              [] OTHER -> "gate"])
    /\ UNCHANGED <<gate, dispatched>>

\* Mutant of CloseUnit: the owners' admissions are released with the handler,
\* before the unit of work has finished.
CloseScopeFirst(t) ==
    /\ At(t, "close")
    /\ \/ /\ Top(t).admitted # {}
          /\ Become(t, [Top(t) EXCEPT !.admitted = {}])
       \/ /\ Top(t).admitted = {}
          /\ Become(t, [Top(t) EXCEPT !.stage = "scope",
                                      !.tx = IF @ = "open" THEN "rolledback" ELSE @])
    /\ UNCHANGED <<gate, dispatched>>

\* _finish_session in its shielded task: rollback unless committed, then close.
\* A cancellation or a cleanup error that arrives meanwhile is raised after it.
CloseUnit(t) ==
    /\ At(t, "close")
    /\ \E raised \in {Top(t).failed, TRUE} :
         Become(t, [Top(t) EXCEPT !.stage = "scope", !.failed = raised,
                                  !.tx = IF @ = "open" THEN "rolledback" ELSE @])
    /\ UNCHANGED <<gate, dispatched>>

CloseScope(t) ==
    /\ At(t, "scope")
    /\ Become(t, [Top(t) EXCEPT !.stage = "gate", !.admitted = {}, !.writes = {}])
    /\ UNCHANGED <<gate, dispatched>>

\* The handler's own admission ends before the boundary does.
LeaveGate(t) ==
    /\ At(t, "gate")
    /\ Become(t, [Top(t) EXCEPT !.stage = "boundary"])
    /\ UNCHANGED <<gate, dispatched>>

\* Guards and retained admissions are released; the caller gets the outcome.
CloseBoundary(t) ==
    /\ At(t, "boundary")
    /\ stack' = [stack EXCEPT ![t] = SubSeq(@, 1, Depth(t) - 1)]
    /\ UNCHANGED <<gate, dispatched>>

-----------------------------------------------------------------------------
(* Module lifecycle: close_and_drain, and removal once nothing is in flight. *)

InFlight(g) ==
    \E t \in Tasks : \E i \in 1 .. Depth(t) :
      LET f == stack[t][i] IN
      \/ f.owner = g /\ f.stage # "boundary"
      \/ g \in f.admitted \cup f.retained

Drain(g) ==
    /\ gate[g] = "active"
    /\ gate' = [gate EXCEPT ![g] = "draining"]
    /\ UNCHANGED <<stack, dispatched>>

RemoveGeneration(g) ==
    /\ gate[g] = "draining"
    /\ ~ InFlight(g)
    /\ gate' = [gate EXCEPT ![g] = "removed"]
    /\ UNCHANGED <<stack, dispatched>>

HandlerStep(t) ==
    \/ \E i \in 1 .. Depth(t) : OwnerWrite(t, i)
    \/ \E g \in Generations :
         ResolveProvider(t, g) \/ ValidateOperation(t, g) \/ ApplyOperation(t, g) \/ Retain(t, g)

FrameworkStep(t) ==
    \/ Authorize(t) \/ OpenUnit(t) \/ EnterGuard(t) \/ Completed(t) \/ Commit(t)
    \/ CloseUnit(t) \/ CloseScope(t) \/ LeaveGate(t) \/ CloseBoundary(t)

Next ==
    \/ \E t \in Tasks, g \in Generations :
         InvokeJob(t, g) \/ \E kind \in Kinds \ {"job"} : Dispatch(t, kind, g)
    \/ \E t \in Tasks : HandlerStep(t) \/ Return(t) \/ FrameworkStep(t) \/ Fail(t)
    \/ \E g \in Generations : Drain(g) \/ RemoveGeneration(g)

\* A handler comes to an end (it returns or fails), the framework's own steps
\* run, and a drain that can finish does.
Progress ==
    \/ \E t \in Tasks : FrameworkStep(t) \/ Return(t) \/ Fail(t)
    \/ \E g \in Generations : RemoveGeneration(g)

Spec == Init /\ [][Next]_vars /\ WF_vars(Progress)

-----------------------------------------------------------------------------
(* Properties. *)

\* Every frame: its place and its contents.
Frames == {x \in Tasks \X (1 .. MaxDepth) : x[2] <= Depth(x[1])}
FrameAt(x) == stack[x[1]][x[2]]

\* While a unit of work can still write, commit or roll back, no generation it
\* draws on is removed: the handler's own, the owners whose providers it holds
\* or whose operation it applied, and the declarations its guards stand for.
UnitIsProtected ==
    \A x \in Frames :
      LET f == FrameAt(x) IN
      f.tx # "none" /\ f.stage \in {"handler", "complete", "commit", "close"} =>
        \A g \in {f.owner} \cup f.providers \cup f.writes \cup f.retained : gate[g] # "removed"

\* What a dispatch reports is what the database did: a command that returns was
\* committed with every guard entered, a query commits nothing, and a record
\* is written only by a handler of its owner or for an approved coordinator (command, query,
\* OperationBoundary.complete, resolve_provider).
OutcomeIsHonest ==
    \A x \in Frames :
      LET f == FrameAt(x) IN
      /\ f.stage = "boundary" /\ ~ f.failed /\ f.kind \in {"command", "publication"} =>
           f.tx = "committed"
      /\ f.tx = "committed" => f.kind # "query" /\ f.entered = f.guards
      /\ f.writes \subseteq {f.owner} \/ f.owner \in Coordinators
      /\ f.stage \in {"scope", "gate", "boundary"} => f.tx # "open"

\* A transaction nested under others leaves no admitted owner behind on the way: the outer
\* ones hold none, whatever jobs lie between.
NoLeaseAcrossDispatch ==
    \A x, y \in Frames :
      x[1] = y[1] /\ x[2] < y[2] /\ HasUnit(FrameAt(y)) => FrameAt(x).admitted = {}

\* The admissions of a dispatch cover its unit of work at every await, and what it reports is
\* what the database did: MessageDispatcher.command and query with ResourceTransactionScope.
DispatchSound ==
    /\ TypeOK
    /\ UnitIsProtected
    /\ NoLeaseAcrossDispatch
    /\ OutcomeIsHonest

\* No generation is waiting for the dispatches that hold it.
Settled == \A g \in Generations : gate[g] # "draining"
=============================================================================
