------------------------- MODULE RetentionGovernance -------------------------
(***************************************************************************)
(* Retention, legal holds and the destruction of records, as Data          *)
(* Governance coordinates them (retention_v2.py, and the older legal holds *)
(* of module.py that it still honours).                                    *)
(*                                                                         *)
(* Every command runs in one database transaction.  What keeps two of them *)
(* apart is not row locks but transaction-scoped advisory locks taken in a *)
(* fixed order: the gate of the entity type, the subject, the gate of the  *)
(* legacy holds, the policies of a category.  A lock that cannot be had    *)
(* before the deadline fails the command.  Statements read what is         *)
(* committed when they run (READ COMMITTED); writes appear at the commit,  *)
(* which also gives the locks back.                                        *)
(*                                                                         *)
(* One tenant, owner, namespace, contract version and entity type.         *)
(***************************************************************************)
EXTENDS Integers, FiniteSets

CONSTANTS
    Tx,             \* the transactions that may be open at once
    Records,        \* record_id
    Categories,     \* retention_category
    Actions,        \* the expiry actions the owner supports
    HoldIds,        \* 1..n, rows of legal_holds_v2
    LegacyIds,      \* 1..n, rows of legal_holds
    Ops,            \* the commands a run looks at
    OldPolicies,    \* the policies in force when a behaviour begins
    MaxDays,        \* bound on retention_period_days
    MaxTime,        \* bound on the clock
    NoTx, NoCategory, NoRecord

ASSUME NothingIsSomething == NoTx \notin Tx /\ NoCategory \notin Categories /\ NoRecord \notin Records

ASSUME ActionsAreNamed == "none" \notin Actions /\ "current" \notin Actions

AllOps == {"set", "replace", "place", "release", "execute", "legacyPlace", "legacyRelease", "own"}

ASSUME OpsAreCommands == Ops \subseteq AllOps

ASSUME BoundsArePositive == MaxDays \in Nat \ {0} /\ MaxTime \in Nat \ {0}

ASSUME IdsAreNumbers == HoldIds \subseteq Nat /\ LegacyIds \subseteq Nat

VARIABLES
    clock,      \* datetime.now(UTC)
    policies,   \* retention_policies_v2, committed rows
    subject,    \* the owner's rows: category, anchor, lifecycle
    holds,      \* legal_holds_v2
    legacy,     \* legal_holds
    decided,    \* destructive_decisions_v2, by record
    lock,       \* the holder of every advisory lock
    tx          \* the open transactions: the command, its inputs, where it is

vars == <<clock, policies, subject, holds, legacy, decided, lock, tx>>

-----------------------------------------------------------------------------
(* Rows *)

Time == 0 .. MaxTime

Forever == MaxTime + 1      \* valid_until IS NULL

Policy == [cat: Categories, days: 1 .. MaxDays, act: Actions, from: Time, until: 1 .. Forever]

ASSUME OldPoliciesAreRows == OldPolicies \subseteq {p \in Policy : p.from < p.until}

Effective(ps, c, i) == {p \in ps : p.cat = c /\ p.from <= i /\ i < p.until}

ASSUME OldPoliciesDisjoint ==
    \A p, q \in OldPolicies : p.cat = q.cat /\ p # q => p.until <= q.from \/ q.until <= p.from

Lifecycles == {"current"} \cup Actions

Subject == [cat: Categories, anchor: Time, life: Lifecycles]

Scopes == {"ALL", "CATEGORY", "RECORD"}

Hold == [state: {"free", "active", "released"}, scope: Scopes,
         rec: Records \cup {NoRecord}, cat: Categories \cup {NoCategory}]

FreeHold == [state |-> "free", scope |-> "ALL", rec |-> NoRecord, cat |-> NoCategory]

\* How the caller of a legacy hold wrote entity_id: not at all, as a UUID in
\* the usual spelling, as a UUID in another spelling, or as other text.
Forms == {"null", "uuid", "hex", "text"}

Legacy == [state: {"free", "active", "released"}, form: Forms, rec: Records \cup {NoRecord}]

FreeLegacy == [state |-> "free", form |-> "null", rec |-> NoRecord]

\* at: decided_at, and the policy's facts that the audit evidence carries
Undecided == [at |-> 0, act |-> "none", cat |-> NoCategory, anchor |-> 0]

Decision == [at: Time, act: Actions \cup {"none"}, cat: Categories \cup {NoCategory}, anchor: Time]

Destroyed(r) == decided[r].act # "none"

-----------------------------------------------------------------------------
(* Locks *)

Entity == <<"entity", 0>>
SubjectOf(r) == <<"subject", r>>
LegacyGate == <<"legacy-hold-entity", 0>>
PolicyOf(c) == <<"policy", c>>

Keys == {Entity, LegacyGate} \cup {SubjectOf(r) : r \in Records} \cup {PolicyOf(c) : c \in Categories}

Idle == [op |-> "idle", pc |-> "idle", rec |-> NoRecord, cat |-> NoCategory, scope |-> "ALL", form |-> "null",
         id |-> 0, days |-> 0, act |-> "none", from |-> 0, until |-> 0, anchor |-> 0]

Command ==
    [op: AllOps \cup {"idle"}, pc: {"idle", "entity", "subject", "legacy", "policy", "facts", "check", "holds", "commit"},
     rec: Records \cup {NoRecord}, cat: Categories \cup {NoCategory}, scope: Scopes, form: Forms,
     id: HoldIds \cup LegacyIds \cup {0}, days: 0 .. MaxDays, act: Actions \cup {"none"},
     from: Time, until: 0 .. Forever, anchor: Time]

\* The lock a transaction is about to take
Wanted(t) == CASE tx[t].pc = "entity" -> Entity
               [] tx[t].pc = "subject" -> SubjectOf(tx[t].rec)
               [] tx[t].pc = "legacy" -> LegacyGate
               [] tx[t].pc = "policy" -> PolicyOf(tx[t].cat)

LockPcs == {"entity", "subject", "legacy", "policy"}

FirstLock(op) == CASE op \in {"set", "replace"} -> "policy"
                   [] op \in {"legacyPlace", "legacyRelease"} -> "legacy"
                   [] op \in {"place", "release", "execute", "own"} -> "entity"

\* Mutant of AfterLock: The legacy gate is not part of the subject's locks
AfterLockNoLegacy(t) ==
    CASE tx[t].pc = "entity" /\ tx[t].op \in {"place", "release"} /\ tx[t].scope # "RECORD" -> "check"
      [] tx[t].pc = "entity" /\ ~(tx[t].op \in {"place", "release"} /\ tx[t].scope # "RECORD") -> "subject"
      [] tx[t].pc = "subject" /\ tx[t].op = "execute" -> "facts"
      [] tx[t].pc = "subject" /\ tx[t].op # "execute" -> "check"
      [] tx[t].pc \in {"legacy", "policy"} -> "check"

\* What comes after a lock has been had
AfterLock(t) ==
    CASE tx[t].pc = "entity" /\ tx[t].op \in {"place", "release"} /\ tx[t].scope # "RECORD" -> "check"
      [] tx[t].pc = "entity" /\ ~(tx[t].op \in {"place", "release"} /\ tx[t].scope # "RECORD") -> "subject"
      [] tx[t].pc = "subject" /\ tx[t].op \in {"place", "release"} -> "check"
      [] tx[t].pc = "subject" /\ tx[t].op \notin {"place", "release"} -> "legacy"
      [] tx[t].pc = "legacy" /\ tx[t].op = "execute" -> "facts"
      [] tx[t].pc = "legacy" /\ tx[t].op # "execute" -> "check"
      [] tx[t].pc = "policy" -> "check"

\* The end of a transaction gives every lock back
Released(t) == [k \in Keys |-> IF lock[k] = t THEN NoTx ELSE lock[k]]

-----------------------------------------------------------------------------
Init ==
    /\ clock = 0
    /\ policies = OldPolicies
    /\ subject \in [Records -> {s \in Subject : s.anchor = 0 /\ s.life = "current"}]
    /\ holds = [h \in HoldIds |-> FreeHold]
    /\ legacy = [h \in LegacyIds |-> FreeLegacy]
    /\ decided = [r \in Records |-> Undecided]
    /\ lock = [k \in Keys |-> NoTx]
    /\ tx = [t \in Tx |-> Idle]

Tick ==
    /\ clock < MaxTime
    /\ clock' = clock + 1
    /\ UNCHANGED <<policies, subject, holds, legacy, decided, lock, tx>>

-----------------------------------------------------------------------------
(* Beginning a command *)

Begin(t, request) ==
    /\ tx[t].op = "idle"
    /\ request.op \in Ops
    /\ tx' = [tx EXCEPT ![t] = [request EXCEPT !.pc = FirstLock(request.op)]]
    /\ UNCHANGED <<clock, policies, subject, holds, legacy, decided, lock>>

\* set_policy: any non-empty interval, also one that began in the past
BeginSet(t) ==
    \E c \in Categories, d \in 1 .. MaxDays, a \in Actions, f \in Time, u \in 1 .. Forever :
        /\ f < u
        /\ Begin(t, [Idle EXCEPT !.op = "set", !.cat = c, !.days = d, !.act = a, !.from = f, !.until = u])

\* replace_policy: effective_at is where the old row ends and the new begins
BeginReplace(t) ==
    \E c \in Categories, d \in 1 .. MaxDays, a \in Actions, f \in Time :
        Begin(t, [Idle EXCEPT !.op = "replace", !.cat = c, !.days = d, !.act = a, !.from = f])

\* place_hold, with the combinations valid_scope lets through
BeginPlace(t) ==
    \E s \in Scopes, r \in Records, c \in Categories \cup {NoCategory} :
        /\ s = "ALL" => c = NoCategory
        /\ s = "CATEGORY" => c # NoCategory
        /\ Begin(t, [Idle EXCEPT !.op = "place", !.scope = s, !.cat = c,
                                 !.rec = IF s = "RECORD" THEN r ELSE NoRecord])

\* release_hold: the first read of the row is a hint for the locks only
BeginRelease(t) ==
    \E h \in HoldIds :
        /\ holds[h].state # "free"
        /\ Begin(t, [Idle EXCEPT !.op = "release", !.id = h, !.scope = holds[h].scope, !.rec = holds[h].rec])

BeginExecute(t) ==
    \E r \in Records, a \in Actions : Begin(t, [Idle EXCEPT !.op = "execute", !.rec = r, !.act = a])

BeginLegacyPlace(t) ==
    \E f \in Forms, r \in Records :
        Begin(t, [Idle EXCEPT !.op = "legacyPlace", !.form = f,
                              !.rec = IF f \in {"uuid", "hex"} THEN r ELSE NoRecord])

BeginLegacyRelease(t) ==
    \E h \in LegacyIds :
        /\ legacy[h].state # "free"
        /\ Begin(t, [Idle EXCEPT !.op = "legacyRelease", !.id = h])

\* An owner that changes the category or the anchor of a record: it must take
\* the locks of lock_retention_subject first.
BeginOwn(t) ==
    \E r \in Records, c \in Categories, i \in Time :
        /\ i <= clock
        /\ Begin(t, [Idle EXCEPT !.op = "own", !.rec = r, !.cat = c, !.anchor = i])

-----------------------------------------------------------------------------
(* lock_governance_scope *)

Acquire(t) ==
    /\ tx[t].pc \in LockPcs
    /\ lock[Wanted(t)] = NoTx
    /\ lock' = [lock EXCEPT ![Wanted(t)] = t]
    /\ tx' = [tx EXCEPT ![t].pc = AfterLock(t)]
    /\ UNCHANGED <<clock, policies, subject, holds, legacy, decided>>

\* A command that fails, times out on a lock or loses its connection: nothing
\* of it stays.
Rollback(t) ==
    /\ lock' = Released(t)
    /\ tx' = [tx EXCEPT ![t] = Idle]
    /\ UNCHANGED <<clock, policies, subject, holds, legacy, decided>>

TimesOut(t) ==
    /\ tx[t].pc \in LockPcs
    /\ lock[Wanted(t)] # NoTx
    /\ Rollback(t)

Dies(t) ==
    /\ tx[t].op # "idle"
    /\ Rollback(t)

-----------------------------------------------------------------------------
(* The checks made under the locks *)

Checked(t) ==
    /\ tx' = [tx EXCEPT ![t].pc = "commit"]
    /\ UNCHANGED <<clock, policies, subject, holds, legacy, decided, lock>>

CheckOf(t, op) == tx[t].op = op /\ tx[t].pc = "check"

Overlaps(p, q) == p.cat = q.cat /\ p.from < q.until /\ q.from < p.until

Draft(t) == [cat |-> tx[t].cat, days |-> tx[t].days, act |-> tx[t].act, from |-> tx[t].from, until |-> tx[t].until]

\* The exclusion constraint ex_retention_v2_effective
Insertable(t) == \A p \in policies : ~Overlaps(p, Draft(t))

CheckSet(t) ==
    /\ CheckOf(t, "set")
    /\ IF Insertable(t) THEN Checked(t) ELSE Rollback(t)

\* Mutant of Replaceable: The instant of the request itself passes for the future
ReplaceableNow(t, p) ==
    /\ p.cat = tx[t].cat
    /\ clock <= tx[t].from
    /\ p.from < tx[t].from
    /\ tx[t].from < p.until
    /\ p.days <= tx[t].days
    /\ p.act = tx[t].act

\* Mutant of Replaceable: The period is not compared
ReplaceableShorter(t, p) ==
    /\ p.cat = tx[t].cat
    /\ clock < tx[t].from
    /\ p.from < tx[t].from
    /\ tx[t].from < p.until
    /\ p.act = tx[t].act

\* A replacement may only take effect later, inside the old interval, and may
\* neither shorten the period nor change the action.
Replaceable(t, p) ==
    /\ p.cat = tx[t].cat
    /\ clock < tx[t].from
    /\ p.from < tx[t].from
    /\ tx[t].from < p.until
    /\ p.days <= tx[t].days
    /\ p.act = tx[t].act

\* The new row inherits the end of the old one: until is the old row's.
CheckReplace(t) ==
    /\ CheckOf(t, "replace")
    /\ \/ \E p \in policies :
            /\ Replaceable(t, p)
            /\ tx' = [tx EXCEPT ![t].pc = "commit", ![t].until = p.until]
            /\ UNCHANGED <<clock, policies, subject, holds, legacy, decided, lock>>
       \/ Rollback(t)

\* A hold on one record reads the locked owner row: it must be current, and in
\* the category the hold names.
Holdable(t) ==
    tx[t].scope = "RECORD" =>
        /\ subject[tx[t].rec].life = "current"
        /\ tx[t].cat \in {NoCategory, subject[tx[t].rec].cat}

CheckPlace(t) ==
    /\ CheckOf(t, "place")
    /\ IF Holdable(t) /\ (\E h \in HoldIds : holds[h].state = "free") THEN Checked(t) ELSE Rollback(t)

CheckRelease(t) ==
    /\ CheckOf(t, "release")
    /\ IF holds[tx[t].id].state = "active" THEN Checked(t) ELSE Rollback(t)

\* Mutant of LegacyHoldable: The decisions are not looked up
LegacyHoldableAlways(t) == TRUE

\* A legacy hold that names a record is refused once the record is destroyed
LegacyHoldable(t) == tx[t].form \in {"uuid", "hex"} => ~Destroyed(tx[t].rec)

CheckLegacyPlace(t) ==
    /\ CheckOf(t, "legacyPlace")
    /\ IF LegacyHoldable(t) /\ (\E h \in LegacyIds : legacy[h].state = "free") THEN Checked(t) ELSE Rollback(t)

CheckLegacyRelease(t) ==
    /\ CheckOf(t, "legacyRelease")
    /\ IF legacy[tx[t].id].state = "active" THEN Checked(t) ELSE Rollback(t)

CheckOwn(t) ==
    /\ CheckOf(t, "own")
    /\ IF subject[tx[t].rec].life = "current" THEN Checked(t) ELSE Rollback(t)

\* execute: the locked facts, read twice inside the same locks, name the
\* category whose policies are locked next.
ReadFacts(t) ==
    /\ tx[t].pc = "facts"
    /\ IF subject[tx[t].rec].life = "current"
       THEN /\ tx' = [tx EXCEPT ![t].pc = "policy", ![t].cat = subject[tx[t].rec].cat,
                                ![t].anchor = subject[tx[t].rec].anchor]
            /\ UNCHANGED <<clock, policies, subject, holds, legacy, decided, lock>>
       ELSE Rollback(t)

\* Exactly one effective policy, for this action, whose period has elapsed
Authorizes(p, c, i, a, anchor) ==
    /\ Effective(policies, c, i) = {p}
    /\ p.act = a
    /\ anchor + p.days <= i

CheckExecute(t) ==
    /\ CheckOf(t, "execute")
    /\ IF \E p \in policies : Authorizes(p, tx[t].cat, clock, tx[t].act, tx[t].anchor)
       THEN /\ tx' = [tx EXCEPT ![t].pc = "holds", ![t].from = clock]
            /\ UNCHANGED <<clock, policies, subject, holds, legacy, decided, lock>>
       ELSE Rollback(t)

\* Which holds protect a record of category c
Covers(h, r, c) ==
    /\ h.state = "active"
    /\ \/ h.scope = "ALL"
       \/ h.scope = "CATEGORY" /\ h.cat = c
       \/ h.scope = "RECORD" /\ h.rec = r
    /\ h.cat \in {NoCategory, c}

\* An entity_id that is not a UUID in the usual spelling protects everything
LegacyCovers(h, r) == h.state = "active" /\ (h.form = "uuid" => h.rec = r)

CheckHolds(t) ==
    /\ tx[t].pc = "holds"
    /\ IF \/ \E h \in HoldIds : Covers(holds[h], tx[t].rec, tx[t].cat)
          \/ \E h \in LegacyIds : LegacyCovers(legacy[h], tx[t].rec)
       THEN Rollback(t)
       ELSE Checked(t)

-----------------------------------------------------------------------------
(* Commits *)

CommitOf(t, op) ==
    /\ tx[t].op = op
    /\ tx[t].pc = "commit"
    /\ lock' = Released(t)
    /\ tx' = [tx EXCEPT ![t] = Idle]
    /\ UNCHANGED clock

CommitSet(t) ==
    /\ CommitOf(t, "set")
    /\ policies' = policies \cup {Draft(t)}
    /\ UNCHANGED <<subject, holds, legacy, decided>>

\* The old row ends where the new one begins
CommitReplace(t) ==
    /\ CommitOf(t, "replace")
    /\ policies' = {IF p.cat = tx[t].cat /\ p.from < tx[t].from /\ tx[t].from < p.until
                    THEN [p EXCEPT !.until = tx[t].from] ELSE p : p \in policies} \cup {Draft(t)}
    /\ UNCHANGED <<subject, holds, legacy, decided>>

CommitPlace(t) ==
    /\ CommitOf(t, "place")
    /\ \E h \in HoldIds :
        /\ holds[h].state = "free"
        /\ \A k \in HoldIds : k < h => holds[k].state # "free"
        /\ holds' = [holds EXCEPT ![h] = [state |-> "active", scope |-> tx[t].scope,
                                          rec |-> tx[t].rec, cat |-> tx[t].cat]]
    /\ UNCHANGED <<policies, subject, legacy, decided>>

CommitRelease(t) ==
    /\ CommitOf(t, "release")
    /\ holds' = [holds EXCEPT ![tx[t].id].state = "released"]
    /\ UNCHANGED <<policies, subject, legacy, decided>>

\* The owner's row, the decision and the audit evidence in one transaction
CommitExecute(t) ==
    /\ CommitOf(t, "execute")
    /\ subject' = [subject EXCEPT ![tx[t].rec].life = tx[t].act]
    /\ decided' = [decided EXCEPT ![tx[t].rec] =
            [at |-> tx[t].from, act |-> tx[t].act, cat |-> tx[t].cat, anchor |-> tx[t].anchor]]
    /\ UNCHANGED <<policies, holds, legacy>>

CommitLegacyPlace(t) ==
    /\ CommitOf(t, "legacyPlace")
    /\ \E h \in LegacyIds :
        /\ legacy[h].state = "free"
        /\ \A k \in LegacyIds : k < h => legacy[k].state # "free"
        /\ legacy' = [legacy EXCEPT ![h] = [state |-> "active", form |-> tx[t].form, rec |-> tx[t].rec]]
    /\ UNCHANGED <<policies, subject, holds, decided>>

CommitLegacyRelease(t) ==
    /\ CommitOf(t, "legacyRelease")
    /\ legacy' = [legacy EXCEPT ![tx[t].id].state = "released"]
    /\ UNCHANGED <<policies, subject, holds, decided>>

CommitOwn(t) ==
    /\ CommitOf(t, "own")
    /\ subject' = [subject EXCEPT ![tx[t].rec].cat = tx[t].cat, ![tx[t].rec].anchor = tx[t].anchor]
    /\ UNCHANGED <<policies, holds, legacy, decided>>

-----------------------------------------------------------------------------
Begins(t) ==
    \/ BeginSet(t) \/ BeginReplace(t) \/ BeginPlace(t) \/ BeginRelease(t)
    \/ BeginExecute(t) \/ BeginLegacyPlace(t) \/ BeginLegacyRelease(t) \/ BeginOwn(t)

Checks(t) ==
    \/ CheckSet(t) \/ CheckReplace(t) \/ CheckPlace(t) \/ CheckRelease(t) \/ CheckLegacyPlace(t)
    \/ CheckLegacyRelease(t) \/ CheckOwn(t) \/ ReadFacts(t) \/ CheckExecute(t) \/ CheckHolds(t)

Commits(t) ==
    \/ CommitSet(t) \/ CommitReplace(t) \/ CommitPlace(t) \/ CommitRelease(t)
    \/ CommitExecute(t) \/ CommitLegacyPlace(t) \/ CommitLegacyRelease(t) \/ CommitOwn(t)

Next ==
    \/ Tick
    \/ \E t \in Tx : Begins(t) \/ Acquire(t) \/ TimesOut(t) \/ Dies(t) \/ Checks(t) \/ Commits(t)

Spec == Init /\ [][Next]_vars

-----------------------------------------------------------------------------
(* Properties *)

\* Every variable keeps its type.
TypeOK ==
    /\ clock \in Time
    /\ policies \subseteq Policy
    /\ subject \in [Records -> Subject]
    /\ holds \in [HoldIds -> Hold]
    /\ legacy \in [LegacyIds -> Legacy]
    /\ decided \in [Records -> Decision]
    /\ lock \in [Keys -> Tx \cup {NoTx}]
    /\ tx \in [Tx -> Command]

\* A hold that names a record, of the new or of the old table, never stands
\* over a record that is already destroyed: hold first makes the destruction
\* fail, destruction first makes the hold fail, in every interleaving of
\* place_hold, _place_legal_hold and execute.
RecordHoldsProtect ==
    /\ \A h \in HoldIds :
        holds[h].scope = "RECORD" /\ Covers(holds[h], holds[h].rec, subject[holds[h].rec].cat)
            => ~Destroyed(holds[h].rec)
    /\ \A h \in LegacyIds :
        legacy[h].state = "active" /\ legacy[h].form \in {"uuid", "hex"} => ~Destroyed(legacy[h].rec)

\* execute never commits a destruction while a committed hold covers the
\* record: not a hold on all records, not one on its category, not one on the
\* record, not a legacy hold, however they are interleaved.
NoDestructionUnderHold ==
    [][\A r \in Records :
        subject[r].life = "current" /\ subject'[r].life # "current" =>
            /\ \A h \in HoldIds : ~Covers(holds[h], r, subject[r].cat)
            /\ \A h \in LegacyIds : legacy[h].state = "active" /\ legacy[h].form = "uuid" => legacy[h].rec # r
            /\ \A h \in LegacyIds : legacy[h].state = "active" => legacy[h].form = "uuid"]_vars

\* At no instant are two policies of a category in force, whatever set_policy
\* and replace_policy do at once.
PoliciesDisjoint ==
    \A c \in Categories, i \in Time : Cardinality(Effective(policies, c, i)) <= 1

\* A decision can be justified from the tables at any later time: the policy in
\* force at decided_at is still the only one, still names the action that was
\* taken, and its period had elapsed.  Later commands do not rewrite the past
\* a decision rests on.
DecisionsStayJustified ==
    \A r \in Records : Destroyed(r) =>
        \E p \in policies : Authorizes(p, decided[r].cat, decided[r].at, decided[r].act, decided[r].anchor)

\* Where a policy is in force, a command leaves a policy in force that keeps
\* records at least as long and ends in the same action.
OnlyStrengthened ==
    [][\A c \in Categories, i \in Time :
        \A p \in Effective(policies, c, i) :
            \E q \in Effective(policies', c, i) : p.days <= q.days /\ p.act = q.act]_vars

\* The order of the locks leaves no circle of commands that wait for each
\* other: the deadline is for a slow holder, never for a deadlock.
NoCircularWait ==
    \A S \in SUBSET Tx :
        S # {} => \E t \in S : tx[t].pc \in LockPcs => lock[Wanted(t)] \notin S

\* The tables justify every decision for ever, at most one policy is in force,
\* and the locks that ensure it never block each other.
PoliciesSound ==
    /\ TypeOK
    /\ PoliciesDisjoint
    /\ DecisionsStayJustified
    /\ NoCircularWait

=============================================================================
