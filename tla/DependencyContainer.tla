------------------------- MODULE DependencyContainer -------------------------
(***************************************************************************)
(* Singletons of the dependency container (di.py): concurrent resolution   *)
(* with shared initializations ("flights"), the wait graph that turns a    *)
(* circular initialization into an error, publication, validation of the   *)
(* retained dependency graph, removal of a module's generation and the     *)
(* ordered clean-up of the container.                                      *)
(*                                                                         *)
(* An instance is one _SingletonResourceOwner with its task.  A step ends  *)
(* at an await; a caller and the provider of an instance both resolve keys *)
(* in the same way and differ in their resolution path.                    *)
(***************************************************************************)
EXTENDS Integers, Sequences, FiniteSets

CONSTANTS
    Keys,       \* dependency keys registered as singletons
    Needs,      \* the sets of keys the provider of each key may resolve
    Module,     \* the keys that belong to one module's generation
    Callers,    \* request tasks that resolve dependencies
    MaxInst     \* bound: owner tasks

VARIABLES
    avail,    \* "active", "inactive" (gate closed) or "removed" for each key
    closed,   \* Container._closed, as 0 or 1
    cleanup,  \* where close() is
    removal,  \* where remove_owner_generation() of Module is
    waits,    \* _singleton_waits: how often each edge is counted
    flight,   \* _singleton_flights: the instance whose result is awaited
    cur,      \* _singleton_owners and _singletons, 0 for none
    order,    \* _singleton_order, as instances
    key,      \* key of each instance
    st,       \* its task: "free", "init", "published", "final", "ended"
    res,      \* its result future: "pending", "value", "error"
    todo,     \* keys its provider has still to resolve
    deps,     \* its retained dependencies
    path,     \* the resolution path of its context
    wait,     \* the instance that a caller or an instance waits for, 0 for none
    got       \* what the last resolution gave a caller, 0 for nothing

Inst == 1..MaxInst
Resolvers == Callers \cup Inst
instVars  == <<key, st, res, todo, deps, path>>
graphVars == <<waits, flight, cur, order>>
ctlVars   == <<avail, closed, cleanup, removal>>
vars == <<ctlVars, graphVars, instVars, wait, got>>

Init ==
    /\ avail = [k \in Keys |-> "active"]
    /\ closed = 0 /\ cleanup = "none" /\ removal = "none"
    /\ waits = [e \in Keys \X Keys |-> 0]
    /\ flight = [k \in Keys |-> 0]
    /\ cur = [k \in Keys |-> 0]
    /\ order = <<>>
    /\ key = [i \in Inst |-> CHOOSE k \in Keys : TRUE]
    /\ st = [i \in Inst |-> "free"]
    /\ res = [i \in Inst |-> "pending"]
    /\ todo = [i \in Inst |-> {}]
    /\ deps = [i \in Inst |-> {}]
    /\ path = [i \in Inst |-> <<>>]
    /\ wait = [x \in Resolvers |-> 0]
    /\ got = [c \in Callers |-> 0]

-----------------------------------------------------------------------------
(* The wait graph.                                                         *)

\* The resolution path of the context in which x resolves.
PathOf(x) == IF x \in Inst THEN path[x] ELSE <<>>

\* pairwise(chain): the edges that waiting for k adds below x.
Chain(x, k) ==
    LET p == Append(PathOf(x), k) IN {<<p[n], p[n + 1]>> : n \in 1..(Len(p) - 1)}

\* Every set of keys has one that waits for none of the others in it.
Acyclic(E) == \A S \in SUBSET Keys : S # {} => \E x \in S : \A y \in S : <<x, y>> \notin E

\* Mutant of Circular: only the resolver's own path is looked at.
CircularPath(x, k) == \E n \in 1..Len(PathOf(x)) : PathOf(x)[n] = k

\* The path has the key already, or an edge of the chain closes a cycle.
Circular(x, k) ==
    \/ \E n \in 1..Len(PathOf(x)) : PathOf(x)[n] = k
    \/ ~Acyclic({e \in Keys \X Keys : waits[e] > 0} \cup Chain(x, k))

AddWaits(x, k) == waits' = [e \in Keys \X Keys |-> waits[e] + IF e \in Chain(x, k) THEN 1 ELSE 0]

\* _remove_wait: an edge that is not counted is left alone.
Less(n, m) == IF n > m THEN n - m ELSE 0

RemoveWaits(x, k) ==
    waits' = [e \in Keys \X Keys |-> Less(waits[e], IF e \in Chain(x, k) THEN 1 ELSE 0)]

-----------------------------------------------------------------------------
(* Resolution.                                                             *)

\* validate_registration.
Registered(k) == closed = 0 /\ avail[k] = "active"

\* _validate_owner_graph: the owner and all it retains are published, not
\* finalizing, and their registrations are still the active ones.
Valid(i) ==
    \E T \in SUBSET {x \in Inst : st[x] = "published" /\ Registered(key[x])} :
        i \in T /\ \A x \in T : deps[x] \subseteq T

\* Whether x may call resolve(k) now.
Asks(x, k) ==
    /\ wait[x] = 0
    /\ IF x \in Inst THEN st[x] = "init" /\ k \in todo[x] ELSE got[x] = 0

\* x receives the value of instance i.
Receive(x, i) ==
    IF x \in Inst
    THEN /\ todo' = [todo EXCEPT ![x] = @ \ {key[i]}]
         /\ deps' = [deps EXCEPT ![x] = @ \cup {i}]
         /\ UNCHANGED <<key, st, res, path, got>>
    ELSE /\ got' = [got EXCEPT ![x] = i]
         /\ UNCHANGED instVars

\* resolve raises: the provider of an instance fails with it.
Raise(x) ==
    IF x \in Inst
    THEN /\ st' = [st EXCEPT ![x] = "final"]
         /\ res' = [res EXCEPT ![x] = "error"]
         /\ UNCHANGED <<key, todo, deps, path, got>>
    ELSE UNCHANGED <<instVars, got>>

\* _registration_for_resolution and the validation of a cached owner.
Refuse(x, k) ==
    /\ Asks(x, k)
    /\ \/ ~Registered(k)
       \/ cur[k] # 0 /\ ~Valid(cur[k])
       \/ cur[k] = 0 /\ Circular(x, k)
    /\ x \in Inst
    /\ Raise(x)
    /\ UNCHANGED <<ctlVars, graphVars, wait>>

Hit(x, k) ==
    /\ Asks(x, k)
    /\ Registered(k) /\ cur[k] # 0 /\ Valid(cur[k])
    /\ Receive(x, cur[k])
    /\ UNCHANGED <<ctlVars, graphVars, wait>>

Miss(x, k) == Asks(x, k) /\ Registered(k) /\ cur[k] = 0 /\ ~Circular(x, k)

\* A flight that is done is dropped.
InFlight(k) == flight[k] # 0 /\ res[flight[k]] = "pending"

Join(x, k) ==
    /\ Miss(x, k)
    /\ InFlight(k)
    /\ AddWaits(x, k)
    /\ wait' = [wait EXCEPT ![x] = flight[k]]
    /\ UNCHANGED <<ctlVars, flight, cur, order, instVars, got>>

\* _start_singleton_initialization, in a copy of the resolver's context.
Launch(x, k) ==
    /\ Miss(x, k)
    /\ ~InFlight(k)
    /\ AddWaits(x, k)
    /\ \E i \in Inst, needed \in Needs[k] :
         /\ st[i] = "free" /\ \A j \in Inst : j < i => st[j] # "free"
         /\ key' = [key EXCEPT ![i] = k]
         /\ st' = [st EXCEPT ![i] = "init"]
         /\ todo' = [todo EXCEPT ![i] = needed]
         /\ path' = [path EXCEPT ![i] = Append(PathOf(x), k)]
         /\ flight' = [flight EXCEPT ![k] = i]
         /\ wait' = [wait EXCEPT ![x] = i]
    /\ UNCHANGED <<ctlVars, cur, order, res, deps, got>>

\* Mutant of Answer: the value of the flight is taken as it is.
AnswerUnchecked(x) ==
    /\ wait[x] # 0 /\ res[wait[x]] # "pending"
    /\ LET k == key[wait[x]] IN
         /\ RemoveWaits(x, k)
         /\ IF res[wait[x]] = "value" THEN Receive(x, wait[x]) ELSE Raise(x)
    /\ wait' = [wait EXCEPT ![x] = 0]
    /\ UNCHANGED <<ctlVars, flight, cur, order>>

\* The flight is over: its value is returned if the owner that is published
\* now is valid.
Answer(x) ==
    /\ wait[x] # 0 /\ res[wait[x]] # "pending"
    /\ LET k == key[wait[x]] IN
         /\ RemoveWaits(x, k)
         /\ IF res[wait[x]] = "value" /\ cur[k] # 0 /\ Valid(cur[k])
            THEN Receive(x, wait[x])
            ELSE Raise(x)
    /\ wait' = [wait EXCEPT ![x] = 0]
    /\ UNCHANGED <<ctlVars, flight, cur, order>>

\* The caller is done with the value and may resolve again.
Forget(c) ==
    /\ got[c] # 0
    /\ got' = [got EXCEPT ![c] = 0]
    /\ UNCHANGED <<ctlVars, graphVars, instVars, wait>>

\* A caller that is cancelled leaves the flight to the others.
Abandon(c) ==
    /\ wait[c] # 0
    /\ RemoveWaits(c, key[wait[c]])
    /\ wait' = [wait EXCEPT ![c] = 0]
    /\ UNCHANGED <<ctlVars, flight, cur, order, instVars, got>>

-----------------------------------------------------------------------------
(* The owner task.                                                         *)

\* The provider raises, the validation fails or the container has closed.
Fail(i) ==
    /\ st[i] = "init" /\ wait[i] = 0
    /\ Raise(i)
    /\ UNCHANGED <<ctlVars, graphVars, wait>>

Publish(i) ==
    /\ st[i] = "init" /\ wait[i] = 0 /\ todo[i] = {}
    /\ Registered(key[i]) /\ \A j \in deps[i] : Valid(j)
    /\ cur' = [cur EXCEPT ![key[i]] = i]
    /\ order' = Append(order, i)
    /\ st' = [st EXCEPT ![i] = "published"]
    /\ res' = [res EXCEPT ![i] = "value"]
    /\ UNCHANGED <<ctlVars, waits, flight, key, todo, deps, path, wait, got>>

\* The exit stack is closed and the task ends: _singleton_owner_finished.
Finish(i) ==
    /\ st[i] = "final"
    /\ st' = [st EXCEPT ![i] = "ended"]
    /\ flight' = [k \in Keys |-> IF flight[k] = i /\ res[i] = "error" THEN 0 ELSE flight[k]]
    /\ UNCHANGED <<ctlVars, waits, cur, order, key, res, todo, deps, path, wait, got>>

-----------------------------------------------------------------------------
(* close(): the initializations are cancelled and drained, then the        *)
(* published owners are closed one by one.                                 *)

Close ==
    /\ closed = 0 /\ removal \in {"none", "done"}
    /\ closed' = 1 /\ cleanup' = "begin"
    /\ UNCHANGED <<avail, removal, graphVars, instVars, wait, got>>

\* A cancelled initialization leaves its flight; its waits are taken back.
CancelInitializers ==
    /\ cleanup = "begin"
    /\ cleanup' = "initializers"
    /\ LET I == {i \in Inst : st[i] = "init"}
           W == {i \in I : wait[i] # 0} IN
         /\ st' = [i \in Inst |-> IF i \in I THEN "final" ELSE st[i]]
         /\ res' = [i \in Inst |-> IF i \in I THEN "error" ELSE res[i]]
         /\ wait' = [x \in Resolvers |-> IF x \in W THEN 0 ELSE wait[x]]
         /\ waits' = [e \in Keys \X Keys |->
                        Less(waits[e], Cardinality({i \in W : e \in Chain(i, key[wait[i]])}))]
    /\ UNCHANGED <<avail, closed, removal, flight, cur, order, key, todo, deps, path, got>>

InitializersDrained ==
    /\ cleanup = "initializers"
    /\ \A i \in Inst : st[i] # "final"
    /\ cleanup' = "published"
    /\ UNCHANGED <<avail, closed, removal, graphVars, instVars, wait, got>>

\* Reverse order of publication.
NextToClose(S) == CHOOSE n \in S : \A m \in S : m <= n

\* request_close of the next owner of those at positions S of the order.
RequestClose(S) ==
    LET i == order[NextToClose(S)] IN
        /\ st[i] = "published"
        /\ st' = [st EXCEPT ![i] = "final"]

CloseNext ==
    /\ cleanup = "published" /\ order # <<>>
    /\ RequestClose(1..Len(order))
    /\ UNCHANGED <<ctlVars, graphVars, key, res, todo, deps, path, wait, got>>

CloseDrained ==
    /\ cleanup = "published" /\ order # <<>>
    /\ LET n == NextToClose(1..Len(order)) IN
         /\ st[order[n]] = "ended"
         /\ order' = [m \in 1..(Len(order) - 1) |-> IF m < n THEN order[m] ELSE order[m + 1]]
    /\ UNCHANGED <<ctlVars, waits, flight, cur, instVars, wait, got>>

\* _clear_singletons.
CloseReturns ==
    /\ cleanup = "published" /\ order = <<>>
    /\ cleanup' = "done"
    /\ cur' = [k \in Keys |-> 0]
    /\ flight' = [k \in Keys |-> 0]
    /\ waits' = [e \in Keys \X Keys |-> 0]
    /\ UNCHANGED <<avail, closed, removal, order, instVars, wait, got>>

-----------------------------------------------------------------------------
(* remove_owner_generation() of the module, after its gate has closed.     *)

ModulePositions == {n \in 1..Len(order) : key[order[n]] \in Module}

GateCloses ==
    /\ removal = "none" /\ closed = 0
    /\ removal' = "drain"
    /\ avail' = [k \in Keys |-> IF k \in Module THEN "inactive" ELSE avail[k]]
    /\ UNCHANGED <<closed, cleanup, graphVars, instVars, wait, got>>

\* The gate is drained of providers, and their owner tasks that failed are
\* awaited.
GateDrained ==
    /\ removal = "drain"
    /\ \A i \in Inst : key[i] \in Module => st[i] \notin {"init", "final"}
    /\ removal' = "published"
    /\ UNCHANGED <<avail, closed, cleanup, graphVars, instVars, wait, got>>

RemoveNext ==
    /\ removal = "published" /\ ModulePositions # {}
    /\ RequestClose(ModulePositions)
    /\ UNCHANGED <<ctlVars, graphVars, key, res, todo, deps, path, wait, got>>

RemoveDrained ==
    /\ removal = "published" /\ ModulePositions # {}
    /\ LET n == NextToClose(ModulePositions) IN
         /\ st[order[n]] = "ended"
         /\ order' = [m \in 1..(Len(order) - 1) |-> IF m < n THEN order[m] ELSE order[m + 1]]
         /\ cur' = [cur EXCEPT ![key[order[n]]] = 0]
         /\ flight' = [flight EXCEPT ![key[order[n]]] = 0]
    /\ UNCHANGED <<ctlVars, waits, instVars, wait, got>>

RemoveReturns ==
    /\ removal = "published" /\ ModulePositions = {}
    /\ removal' = "done"
    /\ flight' = [k \in Keys |-> IF k \in Module THEN 0 ELSE flight[k]]
    /\ avail' = [k \in Keys |-> IF k \in Module THEN "removed" ELSE avail[k]]
    /\ UNCHANGED <<closed, cleanup, waits, cur, order, instVars, wait, got>>

\* The next generation of the module registers the same keys.  The event loop
\* has delivered by then every result set before the removal.
Reregister ==
    /\ removal = "done" /\ closed = 0
    /\ \A x \in Resolvers : wait[x] # 0 => res[wait[x]] = "pending"
    /\ \E k \in Module : avail[k] = "removed"
    /\ avail' = [k \in Keys |-> IF k \in Module THEN "active" ELSE avail[k]]
    /\ UNCHANGED <<closed, cleanup, removal, graphVars, instVars, wait, got>>

-----------------------------------------------------------------------------
Resolve(x) ==
    \/ \E k \in Keys : Refuse(x, k) \/ Hit(x, k) \/ Join(x, k) \/ Launch(x, k)
    \/ Answer(x)

OwnerStep(i) == Resolve(i) \/ Fail(i) \/ Publish(i) \/ Finish(i)

CleanupStep ==
    \/ CancelInitializers \/ InitializersDrained \/ CloseNext \/ CloseDrained \/ CloseReturns

RemovalStep == GateDrained \/ RemoveNext \/ RemoveDrained \/ RemoveReturns

Next ==
    \/ \E c \in Callers : Resolve(c) \/ Forget(c) \/ Abandon(c)
    \/ \E i \in Inst : OwnerStep(i)
    \/ Close \/ CleanupStep
    \/ GateCloses \/ RemovalStep \/ Reregister

Spec == Init /\ [][Next]_vars

-----------------------------------------------------------------------------
(* Properties.                                                             *)

\* The variables keep their types, and what is published is what the owner
\* tables name.
TypeOK ==
    /\ avail \in [Keys -> {"active", "inactive", "removed"}]
    /\ closed \in {0, 1}
    /\ cleanup \in {"none", "begin", "initializers", "published", "done"}
    /\ removal \in {"none", "drain", "published", "done"}
    /\ waits \in [Keys \X Keys -> Nat]
    /\ flight \in [Keys -> 0..MaxInst]
    /\ cur \in [Keys -> 0..MaxInst]
    /\ order \in Seq(Inst)
    /\ key \in [Inst -> Keys]
    /\ st \in [Inst -> {"free", "init", "published", "final", "ended"}]
    /\ res \in [Inst -> {"pending", "value", "error"}]
    /\ todo \in [Inst -> SUBSET Keys]
    /\ deps \in [Inst -> SUBSET Inst]
    /\ path \in [Inst -> Seq(Keys)]
    /\ wait \in [Resolvers -> 0..MaxInst]
    /\ got \in [Callers -> 0..MaxInst]
    /\ \A i \in Inst : st[i] = "published" => cur[key[i]] = i

\* Concurrent resolutions share one instance: at no time does a key have two
\* owners that initialize or are published (_singleton_flights).
OneOwner ==
    \A i, j \in Inst :
        (i # j /\ key[i] = key[j] /\ st[i] \in {"init", "published"})
            => st[j] \notin {"init", "published"}

\* Initializations never wait for each other in a circle, whichever tasks
\* started them and in whatever order: a cycle in Needs becomes an error
\* (_add_wait_chain).
NoCircularWait ==
    \A S \in SUBSET Inst :
        S # {} => \E i \in S : ~(wait[i] \in S /\ res[wait[i]] = "pending")

\* The wait graph is exact: each edge is counted once for every resolution
\* under way below it, so that none is refused because of an edge left
\* behind (_remove_wait).
WaitsExact ==
    cleanup # "done" => \A e \in Keys \X Keys :
        waits[e] = Cardinality({x \in Resolvers : wait[x] # 0 /\ e \in Chain(x, key[wait[x]])})

\* A resource is released after everything that retains it: while an owner
\* initializes, is published or closes its own resources, what it depends on
\* is published, unless its module was removed first (_cleanup_singletons,
\* _remove_singleton_keys).
ReleasedAfterDependents ==
    \A i \in Inst : st[i] \in {"init", "published", "final"} =>
        \A j \in deps[i] : \/ st[j] = "published"
                           \/ key[j] \in Module /\ removal # "none"

\* Once close() has returned every owner task has ended and none starts.
ClosedIsReleased ==
    cleanup = "done" => \A i \in Inst : st[i] \in {"free", "ended"}

\* The container's tables are exact: one owner per key, a wait graph that
\* counts the resolutions under way and no others, and nothing left after
\* close().
OwnersSound ==
    /\ TypeOK
    /\ OneOwner
    /\ WaitsExact
    /\ ClosedIsReleased

\* What resolve() returns is alive: the value and everything below it is
\* published under active registrations at the moment it is returned, even
\* if the module was removed or the container closed while it waited.
ReturnsLive == \A c \in Callers : got[c] = 0 /\ got'[c] # 0 => Valid(got'[c])

=============================================================================
