--------------------------- MODULE CustomEntities ---------------------------
(***************************************************************************)
(* Records of tenant-defined types (custom_entity_store.py), in one        *)
(* tenant.  A command runs in one transaction: creation takes the tenant's *)
(* quota lock, every writer locks the rows it names in id order and shares *)
(* the advisory lock of their types, and retiring a type takes that lock   *)
(* exclusively.  The checks between are separate statements of PostgreSQL  *)
(* at READ COMMITTED, so what they read may change unless a lock holds it. *)
(* Publication takes none of these locks.  A list is read in pages, one    *)
(* query each, from the id the last page ended with.                       *)
(***************************************************************************)
EXTENDS Integers, FiniteSets, FiniteSetsExt

CONSTANTS
    Sessions,           \* database sessions running commands
    Types,              \* numbers of the entity types, in lock order
    MaxEntities,        \* bound: ids ever created
    MaxPerType,         \* CustomEntityLimits.max_instances_per_type
    MaxPerTenant,       \* CustomEntityLimits.max_instances_per_tenant
    MaxRevisions,       \* bound: revisions of a type
    MaxVersion,         \* bound: versions of an entity
    PageSize,           \* rows of a page
    Budgets             \* bound: how many commands each session, "types" and "list" may run

VARIABLES
    definition,         \* type -> its active revision (0: retired) and how many it has
    entity,             \* id -> the row, or None
    tx,                 \* session -> its transaction
    retiring,           \* type -> the active generation its retirer expects, or 0
    page,               \* a reader of the list
    left                \* what each actor may still start

vars == <<definition, entity, tx, retiring, page, left>>

Ids == 1..MaxEntities
None == [lifecycle |-> "none"]
NewRow(type, revision, ref) == [lifecycle |-> "current", type |-> type, revision |-> revision,
                                version |-> 1, ref |-> ref]
Idle == [pc |-> "idle"]
NoPage == [pc |-> "idle"]

Rows(e) == {i \in Ids : e[i] # None}
OfType(e, t) == {i \in Rows(e) : e[i].type = t}
Current(i) == entity[i].lifecycle = "current"
Published(t) == definition[t].active # 0
Available(i) == i \in Rows(entity) /\ Current(i) /\ Published(entity[i].type)

Init ==
    /\ definition = [t \in Types |-> [active |-> 1, latest |-> 1]]
    /\ entity = [i \in Ids |-> CASE i = 2 -> NewRow(Min(Types), 1, 0)
                                  [] i = 3 -> NewRow(Max(Types), 1, 0)
                                  [] OTHER -> None]
    /\ tx = [s \in Sessions |-> Idle]
    /\ retiring = [t \in Types |-> 0]
    /\ page = NoPage
    /\ left \in Budgets

-----------------------------------------------------------------------------
(* Locks of a transaction; all are released when it ends.                    *)

Open(s) == tx[s].pc # "idle"
QuotaHeld == \E s \in Sessions : Open(s) /\ tx[s].quota
RowHeld(i, s) == \E o \in Sessions \ {s} : Open(o) /\ i \in tx[o].rows
AuditHeld == \E s \in Sessions : tx[s].pc = "commit"
Shared(t) == \E s \in Sessions : Open(s) /\ t \in tx[s].types
Goto(s, pc) == tx' = [tx EXCEPT ![s].pc = pc]
End(s) == tx' = [tx EXCEPT ![s] = Idle]

Spend(x) == left[x] > 0 /\ left' = [left EXCEPT ![x] = @ - 1]

Begin(s, kind, i, t, expected, ref) ==
    /\ tx[s].pc = "idle" /\ Spend(s)
    /\ tx' = [tx EXCEPT ![s] =
         [pc |-> IF kind = "create" THEN "quota" ELSE "rows", kind |-> kind, id |-> i, type |-> t,
          expected |-> expected, ref |-> ref, rows |-> {}, types |-> {}, quota |-> FALSE,
          revision |-> 0]]
    /\ UNCHANGED <<definition, entity, retiring, page>>

\* The admitted commands; an update or archive names the version its caller saw.
BeginCreate(s) ==
    \E t \in Types, ref \in Rows(entity) \cup {0} : Begin(s, "create", 0, t, 0, ref)
BeginUpdate(s) ==
    \E i \in Rows(entity), ref \in Rows(entity) \cup {0} :
        /\ entity[i].version < MaxVersion
        /\ Begin(s, "update", i, entity[i].type, entity[i].version, ref)
BeginArchive(s) ==
    \E i \in Rows(entity) :
        /\ entity[i].version < MaxVersion
        /\ Begin(s, "archive", i, entity[i].type, entity[i].version, 0)

\* Mutant of QuotaLock: creation does not serialise on the tenant.
NoQuotaLock(s) == TRUE
QuotaLock(s) == ~QuotaHeld

TakeQuota(s) ==
    /\ tx[s].pc = "quota" /\ QuotaLock(s)
    /\ tx' = [tx EXCEPT ![s].quota = TRUE, ![s].pc = "rows"]
    /\ UNCHANGED <<definition, entity, retiring, page, left>>

LockedRows(s) == {tx[s].id, tx[s].ref} \ {0}
\* Mutant of NextRow: an update locks what it refers to before itself.
TargetFirst(s, rest) == IF tx[s].ref \in rest THEN tx[s].ref ELSE Min(rest)
NextRow(s, rest) == Min(rest)

LockRow(s) ==
    LET rest == LockedRows(s) \ tx[s].rows IN
    /\ tx[s].pc = "rows"
    /\ IF rest = {} THEN Goto(s, "types")
       ELSE /\ ~RowHeld(NextRow(s, rest), s)
            /\ tx' = [tx EXCEPT ![s].rows = @ \cup {NextRow(s, rest)}]
    /\ UNCHANGED <<definition, entity, retiring, page, left>>

SharedTypes(s) ==
    (IF tx[s].kind = "create" THEN {tx[s].type} ELSE {}) \cup {entity[i].type : i \in tx[s].rows}

LockType(s) ==
    LET rest == SharedTypes(s) \ tx[s].types IN
    /\ tx[s].pc = "types"
    /\ IF rest = {} THEN Goto(s, "record")
       ELSE /\ retiring[Min(rest)] = 0
            /\ tx' = [tx EXCEPT ![s].types = @ \cup {Min(rest)}]
    /\ UNCHANGED <<definition, entity, retiring, page, left>>

-----------------------------------------------------------------------------
(* The checks, each a statement, and the write.                              *)

\* Denied, a value the schema refuses, an unavailable pin, a lost connection: no write.
Refused(s) == Open(s) /\ End(s) /\ UNCHANGED <<definition, entity, retiring, page, left>>

StillExpected(s) == Current(tx[s].id) /\ entity[tx[s].id].version = tx[s].expected

Record(s) ==
    /\ tx[s].pc = "record"
    /\ IF tx[s].kind = "create" \/ StillExpected(s)
       THEN Goto(s, IF tx[s].kind = "archive" THEN "write" ELSE "active")
       ELSE End(s)
    /\ UNCHANGED <<definition, entity, retiring, page, left>>

\* The exact revision the write pins, whatever is published meanwhile.
Pinned(s) == definition[tx[s].type].active

Active(s) ==
    /\ tx[s].pc = "active"
    /\ IF Published(tx[s].type)
       THEN tx' = [tx EXCEPT ![s].revision = Pinned(s), ![s].pc = "references"]
       ELSE End(s)
    /\ UNCHANGED <<definition, entity, retiring, page, left>>

References(s) ==
    /\ tx[s].pc = "references"
    /\ IF tx[s].ref = 0 \/ Available(tx[s].ref)
       THEN Goto(s, IF tx[s].kind = "create" THEN "count" ELSE "write")
       ELSE End(s)
    /\ UNCHANGED <<definition, entity, retiring, page, left>>

Quota(s) ==
    /\ tx[s].pc = "count"
    /\ IF /\ Cardinality(Rows(entity)) < MaxPerTenant
          /\ Cardinality(OfType(entity, tx[s].type)) < MaxPerType
       THEN Goto(s, "write")
       ELSE End(s)
    /\ UNCHANGED <<definition, entity, retiring, page, left>>

\* The row is written, then its evidence, which waits for the tenant's audit lock.
Evidence(s) ==
    /\ tx[s].pc = "write" /\ ~AuditHeld
    /\ Goto(s, "commit")
    /\ UNCHANGED <<definition, entity, retiring, page, left>>

\* The envelope trigger's view of an update.
Envelope(old, new) ==
    /\ old.lifecycle = "current"
    /\ new.version = old.version + 1
    /\ new.type = old.type
    /\ new.lifecycle = "archived" => new = [old EXCEPT !.lifecycle = "archived", !.version = @ + 1]

Written(s) ==
    LET old == entity[tx[s].id] IN
    IF tx[s].kind = "archive" THEN [old EXCEPT !.lifecycle = "archived", !.version = @ + 1]
    ELSE [old EXCEPT !.revision = tx[s].revision, !.ref = tx[s].ref, !.version = @ + 1]

CommitCreate(s) ==
    /\ tx[s].pc = "commit" /\ tx[s].kind = "create"
    /\ \E i \in Ids \ Rows(entity) :
           entity' = [entity EXCEPT ![i] = NewRow(tx[s].type, tx[s].revision, tx[s].ref)]
    /\ End(s)
    /\ UNCHANGED <<definition, retiring, page, left>>

CommitMutation(s) ==
    /\ tx[s].pc = "commit" /\ tx[s].kind # "create"
    /\ Envelope(entity[tx[s].id], Written(s))
    /\ entity' = [entity EXCEPT ![tx[s].id] = Written(s)]
    /\ End(s)
    /\ UNCHANGED <<definition, retiring, page, left>>

-----------------------------------------------------------------------------
(* The type's own commands (store.py), and readers.                          *)

BeginRetire(t) ==
    /\ Published(t) /\ retiring[t] = 0 /\ ~Shared(t)
    /\ Spend("types")
    /\ retiring' = [retiring EXCEPT ![t] = definition[t].active]
    /\ UNCHANGED <<definition, entity, tx, page>>

CommitRetire(t) ==
    /\ retiring[t] # 0
    /\ definition' = IF definition[t].active = retiring[t]
                     THEN [definition EXCEPT ![t].active = 0] ELSE definition
    /\ retiring' = [retiring EXCEPT ![t] = 0]
    /\ UNCHANGED <<entity, tx, page, left>>

PublishType(t) ==
    /\ Published(t) /\ definition[t].latest < MaxRevisions
    /\ Spend("types")
    /\ definition' = [definition EXCEPT ![t] = [active |-> @.latest + 1, latest |-> @.latest + 1]]
    /\ UNCHANGED <<entity, tx, retiring, page>>

\* A reader of a type's list; what it is owed is what exists when it starts.
StartList(t) ==
    /\ page = NoPage /\ Spend("list")
    /\ page' = [pc |-> "open", type |-> t, after |-> 0, owed |-> OfType(entity, t), seen |-> {}]
    /\ UNCHANGED <<definition, entity, tx, retiring>>

PageAfter(rows, n) == IF n < Cardinality(rows) THEN Max({i \in rows :
                           Cardinality({j \in rows : j <= i}) <= n}) ELSE 0

List ==
    LET rows == {i \in OfType(entity, page.type) : i > page.after}
        shown == {i \in rows : Cardinality({j \in rows : j <= i}) <= PageSize}
        next == PageAfter(rows, PageSize) IN
    /\ page.pc = "open"
    /\ page' = [page EXCEPT !.after = next, !.seen = @ \cup shown,
                            !.pc = IF next = 0 THEN "done" ELSE "open"]
    /\ UNCHANGED <<definition, entity, tx, retiring, left>>

-----------------------------------------------------------------------------
Step(s) ==
    \/ TakeQuota(s) \/ LockRow(s) \/ LockType(s) \/ Record(s) \/ Active(s) \/ References(s)
    \/ Quota(s) \/ Evidence(s) \/ CommitCreate(s) \/ CommitMutation(s)

Next ==
    \/ \E s \in Sessions :
          BeginCreate(s) \/ BeginUpdate(s) \/ BeginArchive(s) \/ Refused(s) \/ Step(s)
    \/ \E t \in Types : BeginRetire(t) \/ CommitRetire(t) \/ PublishType(t) \/ StartList(t)
    \/ List

\* Statements that can run do, and a retirement that holds its type ends.
Spec ==
    /\ Init /\ [][Next]_vars
    /\ \A s \in Sessions : WF_vars(Step(s))
    /\ \A t \in Types : WF_vars(CommitRetire(t))

-----------------------------------------------------------------------------
TypeOK ==
    /\ \A t \in Types : /\ definition[t].active \in 0..definition[t].latest
                        /\ definition[t].latest \in 1..MaxRevisions
                        /\ retiring[t] \in 0..MaxRevisions
    /\ \A i \in Rows(entity) : /\ entity[i].type \in Types
                               /\ entity[i].lifecycle \in {"current", "archived"}
                               /\ entity[i].version \in 1..MaxVersion
                               /\ entity[i].ref \in {0} \cup Rows(entity)

\* However commands interleave, neither limit is exceeded (create counts before it inserts),
\* every entity is pinned to a revision its type has, and a list read page by page shows
\* every entity that existed when it began.
EntitiesSound ==
    /\ TypeOK
    /\ Cardinality(Rows(entity)) <= MaxPerTenant
    /\ \A t \in Types : Cardinality(OfType(entity, t)) <= MaxPerType
    /\ \A i \in Rows(entity) : entity[i].revision \in 1..definition[entity[i].type].latest
    /\ page.pc = "done" => page.owed \subseteq page.seen

\* What is written refers to the state it was checked against: at the commit of a create or
\* an update the type is still published and the target still current and of a published
\* type; an archived entity never changes again, and each commit is one version.
WriteIsLive ==
    \A i \in Ids : entity'[i] # entity[i] =>
        /\ i \in Rows(entity) => Envelope(entity[i], entity'[i])
        /\ entity'[i].lifecycle = "current" =>
              /\ Published(entity'[i].type)
              /\ entity'[i].ref # 0 => Available(entity'[i].ref)

\* Every command ends: quota, row, type and audit locks are taken in one order.
Settled == \A s \in Sessions : ~Open(s)
=============================================================================
