--------------------------- MODULE SchemaMigrations ---------------------------
(***************************************************************************)
(* Schema migrations (migrations.py): validation of the revision graph of  *)
(* a release, the installed-module inventory, and upgrade / downgrade, in  *)
(* the calling process or async: the parent task, the child process with   *)
(* the transaction, the pipe between them, the session in PostgreSQL       *)
(* and the advisory lock, with cancellation and crashes at every point.    *)
(***************************************************************************)
EXTENDS Naturals, Sequences, FiniteSets

CONSTANTS Deployers,   \* tasks and commands that migrate the database
          Commands,    \* those that call upgrade or downgrade without a child
          Releases,    \* releases that may be deployed, well-formed or not
          Installed,   \* releases that may have been deployed before
          Core,        \* owner of the framework's own revisions
          InventoryAt, \* revision that creates the inventory table
          GraphAt,     \* revision that adds the graph columns to it
          MaxRuns      \* bound on the migrations of a behaviour

VARIABLES db,      \* applied revisions and installed-module inventory
          lock,    \* holder of the advisory transaction lock, or None
          parent,  \* the task that awaits the migration
          child,   \* the process that executes it
          session, \* its session in the database server
          up, down,\* the pipe, child to parent and parent to child
          runs     \* migrations started

vars == <<db, lock, parent, child, session, up, down, runs>>

None == "none"

-----------------------------------------------------------------------------
(* The canonical graph of a release: a set of revisions, each with its       *)
(* owner, parents, dependencies, labels and fingerprint, and per owner a     *)
(* namespace and the owners it may depend on.                                *)

Owners(r) == {x.owner : x \in r.revisions}
Ids(revisions) == {x.id : x \in revisions}
OwnedBy(r, o) == {x \in r.revisions : x.owner = o}
Prerequisites(x) == x.parents \cup x.dependencies

\* No revision identifier, namespace or label has two owners, and no label is
\* also a revision identifier; each owner labels its branch with its namespace.
SymbolsSound(r) ==
    /\ \A x, y \in r.revisions : x.id = y.id \/ x.labels \cap y.labels # {} => x = y
    /\ \A x, y \in r.revisions : x.id \notin y.labels
    /\ \A o, p \in Owners(r) : r.namespace[o] = r.namespace[p] => o = p
    /\ \A o \in Owners(r) : \E x \in OwnedBy(r, o) : r.namespace[o] \in x.labels

\* Every referenced revision exists and belongs to the owner itself or to an
\* owner it declares.
ReferencesSound(r) ==
    \A x \in r.revisions : \A i \in Prerequisites(x) :
      \E y \in r.revisions : y.id = i /\ (y.owner = x.owner \/ y.owner \in r.allowed[x.owner])

\* The revisions that i cannot be reached without: the nodes a visit from i meets.
Reached(r, i) ==
    LET step[n \in 0 .. Cardinality(r.revisions)] ==
          IF n = 0 THEN UNION {Prerequisites(x) : x \in {y \in r.revisions : y.id = i}}
          ELSE step[n - 1] \cup
               UNION {Prerequisites(x) : x \in {y \in r.revisions : y.id \in step[n - 1]}}
    IN step[Cardinality(r.revisions)]

AcyclicGraph(r) == \A i \in Ids(r.revisions) : i \notin Reached(r, i)

PlanValid(r) == SymbolsSound(r) /\ ReferencesSound(r) /\ AcyclicGraph(r)

\* The releases that get past the validation of their graph.
Deployable == {r \in Releases : PlanValid(r)}

-----------------------------------------------------------------------------
(* The database. *)

NoRow == [format |-> 0, version |-> 0, ids |-> {}, manifest |-> {}]

\* What a revision is recorded as: everything but the file it is read from.
ManifestEntry(x) == <<x.id, Prerequisites(x), x.labels, x.fingerprint>>
RevisionManifest(revisions) == {ManifestEntry(x) : x \in revisions}

Row(state, o) == IF o \in DOMAIN state.inventory THEN state.inventory[o] ELSE NoRow

\* alembic_version holds the applied revisions no applied revision builds on.
AppliedHeads(r, state) ==
    {i \in state.applied : \A x \in r.revisions : x.id \in state.applied => i \notin x.parents}

\* _validate_stored_module: recorded history may grow and may not be rewritten,
\* removed or taken back to an older release.
HistoryAccepted(r, o, row) ==
    /\ row.ids \subseteq Ids(OwnedBy(r, o))
    /\ row.version <= r.version
    /\ row.manifest \subseteq RevisionManifest(OwnedBy(r, o))

\* _Format2Inventory, _legacy_inventory: a current row lists exactly the
\* revisions of its manifest, a retained old one has no manifest to compare.
RowWellFormed(row) ==
    /\ row.ids # {} /\ row.format \in {1, 2}
    /\ row.format = 2 => row.ids = {e[1] : e \in row.manifest}
    /\ row.format = 1 => row.manifest = {}

\* _validate_database_inventory_connection
InventoryAccepted(r, state) ==
    /\ AppliedHeads(r, state) \subseteq Ids(r.revisions)
    /\ \A o \in DOMAIN state.inventory :
          /\ RowWellFormed(state.inventory[o])
          /\ o \in Owners(r) /\ HistoryAccepted(r, o, state.inventory[o])

Operations == {"heads", InventoryAt, GraphAt}

\* Alembic: an upgrade to the heads applies every revision of the release, a
\* downgrade undoes the revision and what needs it; dropping the graph columns
\* or the table takes the stored history with it.
Applied(r, op, state) ==
    IF op = "heads" THEN state.applied \cup Ids(r.revisions)
    ELSE {i \in state.applied : i # op /\ op \notin Reached(r, i)}

Stored(state) ==
    IF InventoryAt \notin state.applied THEN [state EXCEPT !.inventory = <<>>]
    ELSE IF GraphAt \notin state.applied
         THEN [state EXCEPT !.inventory = [o \in DOMAIN @ |->
                 [@[o] EXCEPT !.format = 1, !.manifest = {}]]]
         ELSE state

\* _persist_inventory: one row for each module that has migrations.
Persisted(r, state) ==
    IF InventoryAt \notin state.applied THEN state
    ELSE [state EXCEPT !.inventory =
           [o \in (Owners(r) \ {Core}) \cup DOMAIN @ |->
             IF o \notin Owners(r) THEN @[o]
             ELSE LET graph == GraphAt \in state.applied
                      own == OwnedBy(r, o) IN
                  [format |-> IF graph THEN 2 ELSE 1, version |-> r.version, ids |-> Ids(own),
                   manifest |-> IF graph THEN RevisionManifest(own) ELSE {}]]]

-----------------------------------------------------------------------------
IdleParent == [pc |-> "idle", pid |-> FALSE, authorized |-> FALSE, result |-> None]
IdleChild == [pc |-> None, staged |-> None, durable |-> FALSE]

Empty == [applied |-> {}, inventory |-> <<>>]

\* A new database, or one that a release was deployed to.
Init ==
    /\ db \in {Empty} \cup {Persisted(r, [Empty EXCEPT !.applied = Ids(r.revisions)]) : r \in Installed}
    /\ lock = None
    /\ parent = [d \in Deployers |-> IdleParent]
    /\ child = [d \in Deployers |-> IdleChild]
    /\ session = [d \in Deployers |-> None]
    /\ up = [d \in Deployers |-> <<>>]
    /\ down = [d \in Deployers |-> <<>>]
    /\ runs = 0

Alive(d) == child[d].pc \notin {None, "exited"}
Parent(d, pc) == parent' = [parent EXCEPT ![d].pc = pc]
Child(d, pc) == child' = [child EXCEPT ![d].pc = pc]

\* Without a protocol nothing is sent.
Send(d, message) == up' = IF d \in Commands THEN up ELSE [up EXCEPT ![d] = Append(@, message)]

\* The transaction of d ends: its session closes and the lock is released.
EndSession(d) ==
    /\ session' = [session EXCEPT ![d] = None]
    /\ lock' = IF lock = d THEN None ELSE lock

-----------------------------------------------------------------------------
(* The child process: _process_entry and _execute_transaction. *)

Connect(d) ==
    /\ child[d].pc = "spawned"
    /\ session' = [session EXCEPT ![d] = "open"]
    /\ Child(d, "lock")
    /\ Send(d, "backend")
    /\ UNCHANGED <<db, lock, parent, down, runs>>

\* pg_advisory_xact_lock
LockFree(d) == lock = None

\* _process_checkpoint: the phase is announced and the child waits for the answer.
Checkpoint(d, phase) == Child(d, phase) /\ Send(d, phase)

AcquireLock(d) ==
    /\ child[d].pc = "lock"
    /\ LockFree(d)
    /\ lock' = d
    /\ Checkpoint(d, "lock_acquired")
    /\ UNCHANGED <<db, parent, session, down, runs>>

Answered(d, phase, answer) ==
    /\ child[d].pc = phase
    /\ \/ d \in Commands /\ UNCHANGED down
       \/ /\ down[d] # <<>>
          /\ Head(down[d]) = answer
          /\ down' = [down EXCEPT ![d] = Tail(@)]

\* The release that d deploys matters from here on.  The rows are read under
\* the lock; the schema and the inventory change in the same transaction.
ApplySchema(d) ==
    /\ Answered(d, "lock_acquired", "continue")
    /\ \E r \in Deployable :
         /\ InventoryAccepted(r, db)
         /\ \E op \in Operations :
              LET migrated == Stored([db EXCEPT !.applied = Applied(r, op, db)]) IN
              child' = [child EXCEPT ![d].pc = "schema_applied",
                                     ![d].staged = Persisted(r, migrated)]
    /\ Send(d, "schema_applied")
    /\ UNCHANGED <<db, lock, parent, session, runs>>

ReadyToCommit(d) ==
    /\ Answered(d, "schema_applied", "continue")
    /\ Checkpoint(d, "ready_to_commit")
    /\ UNCHANGED <<db, lock, parent, session, runs>>

\* COMMIT reaches the server, which answers once it is durable.
ChildCommits(d) ==
    /\ Answered(d, "ready_to_commit", "commit")
    /\ db' = child[d].staged
    /\ child' = [child EXCEPT ![d].pc = "committed", ![d].durable = TRUE]
    /\ EndSession(d)
    /\ UNCHANGED <<parent, up, runs>>

SendsOutcome(d) ==
    /\ child[d].pc = "committed"
    /\ Send(d, "committed")
    /\ Child(d, "closing")
    /\ UNCHANGED <<db, lock, parent, session, down, runs>>

\* Connecting, validation or the schema change fails: rolled back and reported.
ChildFails(d) ==
    /\ child[d].pc \in {"spawned", "lock", "lock_acquired", "schema_applied"}
    /\ EndSession(d)
    /\ Child(d, "closing")
    /\ Send(d, "error")
    /\ UNCHANGED <<db, parent, down, runs>>

\* The commit fails; if only its answer was lost, it is durable all the same.
CommitFails(d) ==
    /\ Answered(d, "ready_to_commit", "commit")
    /\ \E durable \in BOOLEAN :
         /\ child' = [child EXCEPT ![d].pc = "closing", ![d].durable = durable]
         /\ db' = IF durable THEN child[d].staged ELSE db
    /\ EndSession(d)
    /\ Send(d, "error")
    /\ UNCHANGED <<parent, runs>>

\* Any other answer, or the end of the pipe: rolled back without a word.
ChildAborts(d) ==
    /\ child[d].pc \in {"lock_acquired", "schema_applied", "ready_to_commit"}
    /\ \/ down[d] # <<>> /\ Head(down[d]) = "abort"
       \/ down[d] = <<>> /\ parent[d].pc = "crashed"
    /\ EndSession(d)
    /\ Child(d, "closing")
    /\ UNCHANGED <<db, parent, up, down, runs>>

ChildExits(d) ==
    /\ child[d].pc = "closing"
    /\ Child(d, "exited")
    /\ UNCHANGED <<db, lock, parent, session, up, down, runs>>

\* The process is gone but the server has not noticed: a session in the middle
\* of a statement goes on until the statement ends.
Killed(d) ==
    /\ Child(d, "exited")
    /\ session' = [session EXCEPT ![d] = IF @ = None THEN None
                     ELSE IF child[d].pc = "lock" THEN "waiting" ELSE "orphan"]

ChildCrashes(d) ==
    /\ Alive(d)
    /\ child[d].pc # "closing"
    /\ Killed(d)
    /\ UNCHANGED <<db, lock, parent, up, down, runs>>

\* The server ends an orphaned session, once its statement is over.
ServerNotices(d) ==
    /\ session[d] = "orphan" \/ (session[d] = "waiting" /\ lock = None)
    /\ EndSession(d)
    /\ UNCHANGED <<db, parent, child, up, down, runs>>

-----------------------------------------------------------------------------
(* The parent task: _execute_async. *)

\* The graph is validated before a child exists: a release without a valid plan
\* is rejected there, and any other spawns a child.
Start(d) ==
    /\ parent[d].pc \in {"idle", "done", "crashed"} /\ ~ Alive(d) /\ session[d] = None
    /\ runs < MaxRuns
    /\ runs' = runs + 1
    /\ up' = [up EXCEPT ![d] = <<>>]
    /\ down' = [down EXCEPT ![d] = <<>>]
    /\ \E r \in Releases : PlanValid(r)
    /\ parent' = IF d \in Commands THEN parent
                 ELSE [parent EXCEPT ![d] = [IdleParent EXCEPT !.pc = "waiting"]]
    /\ child' = [child EXCEPT ![d] = [IdleChild EXCEPT !.pc = "spawned"]]
    /\ UNCHANGED <<db, lock, session>>

\* One message of the pipe.  Authorization is the parent's last word.
Receive(d) ==
    /\ parent[d].pc = "waiting"
    /\ up[d] # <<>>
    /\ LET message == Head(up[d]) IN
       /\ up' = [up EXCEPT ![d] = Tail(@)]
       /\ parent' = [parent EXCEPT ![d] =
            CASE message = "backend" -> [@ EXCEPT !.pid = TRUE]
              [] message = "ready_to_commit" -> [@ EXCEPT !.authorized = TRUE]
              [] message \in {"committed", "error"} ->
                   [@ EXCEPT !.pc = "cleanup", !.result = message]
              [] OTHER -> @]
       /\ down' = [down EXCEPT ![d] =
            CASE message = "ready_to_commit" -> Append(@, "commit")
              [] message \in {"lock_acquired", "schema_applied"} -> Append(@, "continue")
              [] OTHER -> @]
    /\ UNCHANGED <<db, lock, child, session, runs>>

\* The pipe is empty, and the next thing the parent looks at is the process.
PollsEmpty(d) ==
    /\ parent[d].pc = "waiting"
    /\ up[d] = <<>> /\ Alive(d)
    /\ Parent(d, "polled")
    /\ UNCHANGED <<db, lock, child, session, up, down, runs>>

\* is_alive: a child that exits after the poll is reported without an outcome,
\* whatever it has sent.
ChecksAlive(d) ==
    /\ parent[d].pc = "polled"
    /\ IF Alive(d) THEN Parent(d, "waiting")
       ELSE parent' = [parent EXCEPT ![d].pc = "done", ![d].result = "exited"]
    /\ UNCHANGED <<db, lock, child, session, up, down, runs>>

\* The pipe is empty and closed: the child is gone without an outcome.
ReadsEnd(d) ==
    /\ parent[d].pc = "waiting"
    /\ up[d] = <<>> /\ child[d].pc = "exited"
    /\ parent' = [parent EXCEPT ![d].pc = "stopping", ![d].result = "lost"]
    /\ UNCHANGED <<db, lock, child, session, up, down, runs>>

\* Mutant of Cancel: a cancellation is honoured whenever it comes.
CancelAnytime(d) ==
    /\ parent[d].pc = "waiting"
    /\ parent' = [parent EXCEPT ![d].pc = "stopping", ![d].result = "cancelled",
                                ![d].pid = @ \/ \E i \in 1 .. Len(up[d]) : up[d][i] = "backend"]
    /\ up' = [up EXCEPT ![d] = <<>>]
    /\ UNCHANGED <<db, lock, child, session, down, runs>>

\* A cancellation before the commit is authorized: what the pipe still holds is
\* drained for the backend's identity.  After the authorization, while the child is
\* stopped (_wait_process) and while an outcome is cleaned up, it is swallowed.
Cancel(d) ==
    /\ parent[d].pc = "waiting"
    /\ ~ parent[d].authorized
    /\ parent' = [parent EXCEPT ![d].pc = "stopping", ![d].result = "cancelled",
                                ![d].pid = @ \/ \E i \in 1 .. Len(up[d]) : up[d][i] = "backend"]
    /\ up' = [up EXCEPT ![d] = <<>>]
    /\ UNCHANGED <<db, lock, child, session, down, runs>>

\* _stop_process: abort is sent and the child given its grace.
StopProcess(d) ==
    /\ parent[d].pc = "stopping"
    /\ Parent(d, "joining")
    /\ down' = IF Alive(d) THEN [down EXCEPT ![d] = Append(@, "abort")] ELSE down
    /\ UNCHANGED <<db, lock, child, session, up, runs>>

\* terminate, then kill, whatever the child is doing.
KillChild(d) ==
    /\ parent[d].pc \in {"joining", "cleanup"}
    /\ Alive(d)
    /\ Killed(d)
    /\ UNCHANGED <<db, lock, parent, up, down, runs>>

\* _wait_backend_stopped: a session whose identity is known is told to end and
\* looked for until it is gone.
ConfirmStopped(d) ==
    /\ parent[d].pc = "joining"
    /\ ~ Alive(d)
    /\ Parent(d, "done")
    /\ IF parent[d].pid THEN EndSession(d) ELSE UNCHANGED <<session, lock>>
    /\ UNCHANGED <<db, child, up, down, runs>>

\* It is left before that, and the session may have been told to end or not: the
\* server is not reached or the time is up ("unconfirmed"), or the task is cancelled
\* in one of its awaits, of which only the last sleep is guarded ("interrupted": the
\* caller sees CancelledError, a child that was lost before is not reported).
LeavesUnconfirmed(d, outcome) ==
    /\ parent[d].pc = "joining"
    /\ ~ Alive(d) /\ parent[d].pid
    /\ parent' = [parent EXCEPT ![d].pc = "done", ![d].result = outcome]
    /\ EndSession(d) \/ UNCHANGED <<session, lock>>
    /\ UNCHANGED <<db, child, up, down, runs>>

\* _cleanup_after_terminal_outcome retries until process and session are gone.
Cleanup(d) ==
    /\ parent[d].pc = "cleanup"
    /\ ~ Alive(d)
    /\ Parent(d, "done")
    /\ EndSession(d)
    /\ UNCHANGED <<db, child, up, down, runs>>

\* The process of the parent dies; its end of the pipe closes.
ParentCrashes(d) ==
    /\ parent[d].pc \notin {"idle", "done", "crashed"}
    /\ Parent(d, "crashed")
    /\ UNCHANGED <<db, lock, child, session, up, down, runs>>

-----------------------------------------------------------------------------
ChildStep(d) ==
    \/ Connect(d) \/ AcquireLock(d) \/ ApplySchema(d) \/ ReadyToCommit(d)
    \/ ChildCommits(d) \/ SendsOutcome(d) \/ ChildAborts(d) \/ ChildExits(d)

ParentStep(d) ==
    \/ Receive(d) \/ ReadsEnd(d) \/ ChecksAlive(d)
    \/ StopProcess(d) \/ ConfirmStopped(d) \/ Cleanup(d)

Next ==
    \E d \in Deployers :
      \/ Start(d) \/ ChildStep(d) \/ ChildFails(d) \/ CommitFails(d) \/ ChildCrashes(d)
      \/ ServerNotices(d) \/ ParentCrashes(d)
      \/ ParentStep(d) \/ PollsEmpty(d) \/ Cancel(d) \/ KillChild(d)
      \/ \E outcome \in {"unconfirmed", "interrupted"} : LeavesUnconfirmed(d, outcome)

\* The parent's loop runs, a process that was killed dies, and the server ends
\* a session whose client is gone.  The child's own work may take for ever.
Progress == \E d \in Deployers : ParentStep(d) \/ KillChild(d) \/ ServerNotices(d)

Spec == Init /\ [][Next]_vars /\ WF_vars(Progress)

-----------------------------------------------------------------------------
(* Properties. *)

TypeOK ==
    /\ lock \in Deployers \cup {None}
    /\ \A d \in Deployers :
         /\ parent[d].pc \in {"idle", "waiting", "polled", "stopping", "joining", "cleanup", "done",
                              "crashed"}
         /\ parent[d].result \in {None, "committed", "error", "exited", "lost",
                                  "cancelled", "unconfirmed", "interrupted"}
         /\ child[d].pc \in {None, "spawned", "lock", "lock_acquired", "schema_applied",
                             "ready_to_commit", "committed", "closing", "exited"}
         /\ session[d] \in {None, "open", "orphan", "waiting"}
         /\ Len(up[d]) <= 3 /\ Len(down[d]) <= 2
    /\ runs \in 0 .. MaxRuns

\* What the caller is told is what the database did, and it stays so: a
\* cancelled migration whose backend was confirmed to be gone has committed nothing,
\* success is durable, an error before the commit was authorized changed nothing,
\* and a backend whose identity reached the parent has ended when one of these is
\* returned (_execute_async).  Of a confirmation that was interrupted it says less:
\* the child is gone, and what may have been committed had been authorized; the backend
\* may still live, and after an authorization the commit may be durable.
OutcomeIsDurable ==
    /\ TypeOK
    /\ \A d \in Deployers :
         LET p == parent[d] IN
         /\ p.result = "cancelled" => ~ child[d].durable
         /\ p.result = "committed" => child[d].durable
         /\ child[d].durable => p.authorized \/ d \in Commands
         /\ p.pc = "done" => ~ Alive(d)
         /\ p.pc = "done" /\ p.pid /\ p.result \in {"cancelled", "committed", "error", "lost"} =>
              session[d] = None /\ lock # d

\* Recorded history is append-only: between two states that both hold the
\* graph, no revision is removed or rewritten and no module goes back to an
\* older release, however migrations of different releases interleave
\* (_lock_migrations, _validate_stored_module).
HistoryGrows ==
    \A o \in DOMAIN db.inventory :
      LET before == db.inventory[o]
          after == Row(db', o) IN
      before.format = 2 /\ after.format = 2 =>
        /\ before.ids \subseteq after.ids
        /\ before.manifest \subseteq after.manifest
        /\ before.version <= after.version

\* No parent is waiting for a child that it stops.
Settled == \A d \in Deployers : parent[d].pc \notin {"stopping", "joining"}
=============================================================================
