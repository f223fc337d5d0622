---------------------- MODULE RetentionGovernanceProofs ----------------------
(***************************************************************************)
(* For every number of transactions, records, categories and holds: a      *)
(* destruction never commits under a hold, a hold that names a record      *)
(* never stands over one that is destroyed, policies never overlap and are *)
(* only ever strengthened, the tables justify every decision for ever, and *)
(* the locks never make a circle.                                          *)
(*                                                                         *)
(* The argument is about who holds the two gates.  A command that has      *)
(* passed the gate of the entity type still holds it when it commits, so   *)
(* what place_hold and execute read about holds and about the record stays *)
(* true until their commits; the gate of the legacy holds does the same    *)
(* for the older table, and the lock of a category for its policies: a     *)
(* replacement takes effect later than every decision of its category, and *)
(* no decision is taken between its check and its commit.                  *)
(***************************************************************************)
EXTENDS RetentionGovernance, FiniteSetTheorems, TLAPS

\* Which steps a command goes through, and which inputs it carries
Shape(t) ==
    /\ tx[t].op = "idle" <=> tx[t].pc = "idle"
    /\ tx[t].op \in {"set", "replace"} => tx[t].pc \in {"policy", "check", "commit"} /\ tx[t].cat \in Categories
    /\ tx[t].op \in {"legacyPlace", "legacyRelease"} => tx[t].pc \in {"legacy", "check", "commit"}
    /\ tx[t].op \in {"place", "release"} => tx[t].pc \in {"entity", "subject", "check", "commit"}
    /\ tx[t].op = "own" => tx[t].pc \in {"entity", "subject", "legacy", "check", "commit"}
    /\ tx[t].op = "execute" =>
        tx[t].pc \in {"entity", "subject", "legacy", "facts", "policy", "check", "holds", "commit"}
    /\ tx[t].pc \in {"facts", "holds"} => tx[t].op = "execute"

Inputs(t) ==
    /\ tx[t].op \in {"execute", "own"} => tx[t].rec \in Records
    /\ tx[t].op \in {"place", "release"} /\ tx[t].scope = "RECORD" => tx[t].rec \in Records
    /\ tx[t].op \in {"place", "release"} /\ tx[t].pc = "subject" => tx[t].scope = "RECORD"
    /\ tx[t].op = "legacyPlace" /\ tx[t].form \in {"uuid", "hex"} => tx[t].rec \in Records
    /\ tx[t].op = "own" => tx[t].cat \in Categories
    /\ tx[t].op = "execute" => tx[t].act \in Actions
    /\ tx[t].op = "execute" /\ tx[t].pc \in {"policy", "check", "holds", "commit"} => tx[t].cat \in Categories
    /\ tx[t].op = "release" => tx[t].id \in HoldIds
    /\ tx[t].op = "legacyRelease" => tx[t].id \in LegacyIds
    /\ tx[t].op \in {"set", "replace"} => tx[t].days \in 1 .. MaxDays /\ tx[t].act \in Actions
    /\ tx[t].op = "set" => tx[t].until \in 1 .. Forever
    /\ tx[t].op = "replace" /\ tx[t].pc = "commit" => tx[t].until \in 1 .. Forever

\* A hold or a legacy hold that names a record names one
HoldRows ==
    /\ \A h \in HoldIds : holds[h].scope = "RECORD" => holds[h].rec \in Records
    /\ \A h \in LegacyIds : legacy[h].form \in {"uuid", "hex"} => legacy[h].rec \in Records

\* Who holds the gates
InsideEntity(t) ==
    /\ tx[t].op \in {"execute", "own", "place", "release"}
    /\ tx[t].pc # "entity"

InsideLegacy(t) ==
    \/ tx[t].op \in {"execute", "own"} /\ tx[t].pc \notin {"entity", "subject", "legacy"}
    \/ tx[t].op \in {"legacyPlace", "legacyRelease"} /\ tx[t].pc # "legacy"

Gates(t) ==
    /\ InsideEntity(t) => lock[Entity] = t
    /\ InsideLegacy(t) => lock[LegacyGate] = t

\* The decision and the lifecycle of a record are written together
DecidedIsGone == \A r \in Records : Destroyed(r) <=> subject[r].life # "current"

\* What a command has read is still so
Facts(t) ==
    /\ tx[t].op = "execute" /\ tx[t].pc \in {"policy", "check", "holds", "commit"} =>
        subject[tx[t].rec].life = "current" /\ subject[tx[t].rec].cat = tx[t].cat
    /\ tx[t].op = "execute" /\ tx[t].pc = "commit" =>
        /\ \A h \in HoldIds : ~Covers(holds[h], tx[t].rec, tx[t].cat)
        /\ \A h \in LegacyIds : ~LegacyCovers(legacy[h], tx[t].rec)
    /\ tx[t].op = "place" /\ tx[t].pc = "commit" /\ tx[t].scope = "RECORD" => subject[tx[t].rec].life = "current"
    /\ tx[t].op = "legacyPlace" /\ tx[t].pc = "commit" /\ tx[t].form \in {"uuid", "hex"} =>
        subject[tx[t].rec].life = "current"
    /\ tx[t].op = "own" /\ tx[t].pc = "commit" => subject[tx[t].rec].life = "current"

ControlInv == \A t \in Tx : Shape(t) /\ Inputs(t) /\ Gates(t)

GovernanceInv == TypeOK /\ ControlInv /\ HoldRows

HoldInv == DecidedIsGone /\ (\A t \in Tx : Facts(t)) /\ RecordHoldsProtect

-----------------------------------------------------------------------------
(* The effect of the shared steps *)

\* The gates and the other locks are different keys.
LEMMA KeysDiffer ==
    /\ Entity \in Keys /\ LegacyGate \in Keys
    /\ \A r \in Records : SubjectOf(r) \in Keys
    /\ \A c \in Categories : PolicyOf(c) \in Keys
    /\ Entity # LegacyGate
    /\ \A x : SubjectOf(x) # Entity /\ SubjectOf(x) # LegacyGate
    /\ \A x : PolicyOf(x) # Entity /\ PolicyOf(x) # LegacyGate
  BY DEF Keys, Entity, LegacyGate, SubjectOf, PolicyOf

\* A closed command is a command.
LEMMA IdleIsCommand == Idle \in Command
  BY BoundsArePositive DEF Idle, Command, Scopes, Forms, Time, Forever

\* A command that ends leaves the others alone and gives back only its locks.
LEMMA EndFacts ==
    ASSUME TypeOK, NEW t \in Tx, lock' = Released(t), tx' = [tx EXCEPT ![t] = Idle]
    PROVE  /\ tx' \in [Tx -> Command]
           /\ lock' \in [Keys -> Tx \cup {NoTx}]
           /\ tx'[t] = Idle
           /\ \A u \in Tx : u # t => tx'[u] = tx[u]
           /\ \A k \in Keys : lock[k] # t => lock'[k] = lock[k]
  BY IdleIsCommand DEF TypeOK, Released

\* A check that succeeds moves the command to its commit and changes nothing else.
LEMMA CheckedFacts ==
    ASSUME TypeOK, NEW t \in Tx, Checked(t)
    PROVE  /\ tx' \in [Tx -> Command]
           /\ tx'[t] = [tx[t] EXCEPT !.pc = "commit"]
           /\ \A u \in Tx : u # t => tx'[u] = tx[u]
           /\ UNCHANGED <<clock, policies, subject, holds, legacy, decided, lock>>
  <1>1. tx[t] \in Command  BY DEF TypeOK
  <1>2. [tx[t] EXCEPT !.pc = "commit"] \in Command  BY <1>1 DEF Command
  <1>3. tx' = [tx EXCEPT ![t] = [tx[t] EXCEPT !.pc = "commit"]]  BY DEF Checked, TypeOK
  <1>. QED BY <1>2, <1>3 DEF Checked, TypeOK

\* If one command keeps the control invariant for itself and takes no lock of
\* another, everybody keeps it.
LEMMA OthersKeepControl ==
    ASSUME TypeOK, ControlInv, NEW t \in Tx,
           \A u \in Tx : u # t => tx'[u] = tx[u],
           \A k \in Keys : lock[k] \in Tx /\ lock[k] # t => lock'[k] = lock[k],
           Shape(t)', Inputs(t)', Gates(t)'
    PROVE  ControlInv'
  <1>1. SUFFICES ASSUME NEW u \in Tx, u # t
                 PROVE  Shape(u)' /\ Inputs(u)' /\ Gates(u)'
    BY DEF ControlInv
  <1>2. tx'[u] = tx[u]  BY <1>1
  <1>3. Shape(u) /\ Inputs(u) /\ Gates(u)  BY DEF ControlInv
  <1>4. Shape(u)'  BY <1>2, <1>3 DEF Shape
  <1>5. Inputs(u)'  BY <1>2, <1>3 DEF Inputs
  <1>6. Gates(u)'  BY <1>1, <1>2, <1>3, KeysDiffer DEF Gates, InsideEntity, InsideLegacy
  <1>. QED BY <1>4, <1>5, <1>6

\* A closed command has no obligations.
LEMMA EndKeepsControl ==
    ASSUME TypeOK, ControlInv, NEW t \in Tx, lock' = Released(t), tx' = [tx EXCEPT ![t] = Idle]
    PROVE  ControlInv'
  <1>1. tx'[t] = Idle /\ (\A u \in Tx : u # t => tx'[u] = tx[u]) /\ (\A k \in Keys : lock[k] # t => lock'[k] = lock[k])
    BY EndFacts
  <1>2. tx'[t].op = "idle" /\ tx'[t].pc = "idle"  BY <1>1 DEF Idle
  <1>3. Shape(t)' /\ Inputs(t)' /\ Gates(t)'
    BY <1>2 DEF Shape, Inputs, Gates, InsideEntity, InsideLegacy
  <1>. QED BY <1>1, <1>3, OthersKeepControl

\* Passing a check changes no input and no lock.
LEMMA CheckedKeepsControl ==
    ASSUME TypeOK, ControlInv, NEW t \in Tx, Checked(t),
           (tx[t].pc = "check" /\ tx[t].op # "replace") \/ tx[t].pc = "holds"
    PROVE  ControlInv'
  <1>1. /\ tx'[t] = [tx[t] EXCEPT !.pc = "commit"]
        /\ \A u \in Tx : u # t => tx'[u] = tx[u]
        /\ lock' = lock
    BY CheckedFacts
  <1>2. tx[t] \in Command  BY DEF TypeOK
  <1>3. Shape(t) /\ Inputs(t) /\ Gates(t)  BY DEF ControlInv
  <1>4. /\ tx'[t].pc = "commit" /\ tx'[t].op = tx[t].op /\ tx'[t].cat = tx[t].cat /\ tx'[t].rec = tx[t].rec
        /\ tx'[t].scope = tx[t].scope /\ tx'[t].form = tx[t].form /\ tx'[t].act = tx[t].act
        /\ tx'[t].id = tx[t].id /\ tx'[t].days = tx[t].days /\ tx'[t].until = tx[t].until
    BY <1>1, <1>2 DEF Command
  <1>5. Shape(t)'  BY <1>3, <1>4 DEF Shape
  <1>6. Inputs(t)'  BY <1>3, <1>4 DEF Inputs, Shape
  <1>7. Gates(t)'  BY <1>1, <1>3, <1>4 DEF Gates, InsideEntity, InsideLegacy, Shape
  <1>. QED BY <1>1, <1>5, <1>6, <1>7, OthersKeepControl

-----------------------------------------------------------------------------
(* Types, control and gates *)

\* A command begins with inputs of its kind.
LEMMA BeginRequest ==
    ASSUME GovernanceInv, NEW t \in Tx, Begins(t)
    PROVE  \E q \in Command :
           /\ Begin(t, q)
           /\ q.op \in AllOps
           /\ q.op \in {"set", "replace"} => q.cat \in Categories /\ q.days \in 1 .. MaxDays /\ q.act \in Actions
           /\ q.op = "set" => q.until \in 1 .. Forever /\ q.from < q.until
           /\ q.op \in {"execute", "own"} => q.rec \in Records
           /\ q.op \in {"place", "release"} /\ q.scope = "RECORD" => q.rec \in Records
           /\ q.op = "legacyPlace" /\ q.form \in {"uuid", "hex"} => q.rec \in Records
           /\ q.op = "own" => q.cat \in Categories
           /\ q.op = "execute" => q.act \in Actions
           /\ q.op = "release" => q.id \in HoldIds
           /\ q.op = "legacyRelease" => q.id \in LegacyIds
  <1>. USE DEF GovernanceInv
  <1>. USE IdleIsCommand, BoundsArePositive DEF AllOps
  <1>1. CASE BeginSet(t)
    <2>1. PICK c \in Categories, d \in 1 .. MaxDays, a \in Actions, f \in Time, u \in 1 .. Forever :
              f < u /\ Begin(t, [Idle EXCEPT !.op = "set", !.cat = c, !.days = d, !.act = a, !.from = f, !.until = u])
      BY <1>1 DEF BeginSet
    <2>. DEFINE q == [Idle EXCEPT !.op = "set", !.cat = c, !.days = d, !.act = a, !.from = f, !.until = u]
    <2>4. d \in 0 .. MaxDays /\ u \in 0 .. Forever  BY DEF Forever
    <2>2. q \in Command  BY <2>4 DEF Command, Idle
    <2>3. q.op = "set" /\ q.cat = c /\ q.days = d /\ q.act = a /\ q.until = u /\ q.from = f
      BY DEF Idle
    <2>. HIDE DEF q
    <2>. QED BY <2>1, <2>2, <2>3 DEF q
  <1>2. CASE BeginReplace(t)
    <2>1. PICK c \in Categories, d \in 1 .. MaxDays, a \in Actions, f \in Time :
              Begin(t, [Idle EXCEPT !.op = "replace", !.cat = c, !.days = d, !.act = a, !.from = f])
      BY <1>2 DEF BeginReplace
    <2>2. d \in 0 .. MaxDays  OBVIOUS
    <2>3. [Idle EXCEPT !.op = "replace", !.cat = c, !.days = d, !.act = a, !.from = f] \in Command
      BY <2>2 DEF Command, Idle
    <2>. QED BY <2>1, <2>3 DEF Idle
  <1>3. CASE BeginPlace(t)
    <2>1. PICK s \in Scopes, r \in Records, c \in Categories \cup {NoCategory} :
              Begin(t, [Idle EXCEPT !.op = "place", !.scope = s, !.cat = c,
                                    !.rec = IF s = "RECORD" THEN r ELSE NoRecord])
      BY <1>3 DEF BeginPlace
    <2>2. [Idle EXCEPT !.op = "place", !.scope = s, !.cat = c, !.rec = IF s = "RECORD" THEN r ELSE NoRecord] \in Command
      BY DEF Command, Idle
    <2>. QED BY <2>1, <2>2 DEF Idle
  <1>4. CASE BeginRelease(t)
    <2>1. PICK h \in HoldIds :
              Begin(t, [Idle EXCEPT !.op = "release", !.id = h, !.scope = holds[h].scope, !.rec = holds[h].rec])
      BY <1>4 DEF BeginRelease
    <2>2. holds[h] \in Hold  BY DEF TypeOK
    <2>3. holds[h].scope \in Scopes /\ holds[h].rec \in Records \cup {NoRecord}
      BY <2>2 DEF Hold
    <2>4. [Idle EXCEPT !.op = "release", !.id = h, !.scope = holds[h].scope, !.rec = holds[h].rec] \in Command
      BY <2>3 DEF Command, Idle
    <2>. QED BY <2>1, <2>4 DEF Idle, HoldRows
  <1>5. CASE BeginExecute(t)
    <2>1. PICK r \in Records, a \in Actions : Begin(t, [Idle EXCEPT !.op = "execute", !.rec = r, !.act = a])
      BY <1>5 DEF BeginExecute
    <2>2. [Idle EXCEPT !.op = "execute", !.rec = r, !.act = a] \in Command
      BY DEF Command, Idle
    <2>. QED BY <2>1, <2>2 DEF Idle
  <1>6. CASE BeginLegacyPlace(t)
    <2>1. PICK f \in Forms, r \in Records :
              Begin(t, [Idle EXCEPT !.op = "legacyPlace", !.form = f,
                                    !.rec = IF f \in {"uuid", "hex"} THEN r ELSE NoRecord])
      BY <1>6 DEF BeginLegacyPlace
    <2>2. [Idle EXCEPT !.op = "legacyPlace", !.form = f, !.rec = IF f \in {"uuid", "hex"} THEN r ELSE NoRecord] \in Command
      BY DEF Command, Idle
    <2>. QED BY <2>1, <2>2 DEF Idle
  <1>7. CASE BeginLegacyRelease(t)
    <2>1. PICK h \in LegacyIds : Begin(t, [Idle EXCEPT !.op = "legacyRelease", !.id = h])
      BY <1>7 DEF BeginLegacyRelease
    <2>2. [Idle EXCEPT !.op = "legacyRelease", !.id = h] \in Command  BY DEF Command, Idle
    <2>. QED BY <2>1, <2>2 DEF Idle
  <1>8. CASE BeginOwn(t)
    <2>1. PICK r \in Records, c \in Categories, i \in Time :
              Begin(t, [Idle EXCEPT !.op = "own", !.rec = r, !.cat = c, !.anchor = i])
      BY <1>8 DEF BeginOwn
    <2>2. [Idle EXCEPT !.op = "own", !.rec = r, !.cat = c, !.anchor = i] \in Command
      BY DEF Command, Idle
    <2>. QED BY <2>1, <2>2 DEF Idle
  <1>. QED BY <1>1, <1>2, <1>3, <1>4, <1>5, <1>6, <1>7, <1>8 DEF Begins

\* A command begins with its first lock.
LEMMA BeginKeeps ==
    ASSUME GovernanceInv, NEW t \in Tx, Begins(t)
    PROVE  GovernanceInv'
  <1>. USE DEF GovernanceInv
  <1>2. PICK q \in Command :
            /\ Begin(t, q)
            /\ q.op \in AllOps
            /\ q.op \in {"set", "replace"} => q.cat \in Categories /\ q.days \in 1 .. MaxDays /\ q.act \in Actions
            /\ q.op = "set" => q.until \in 1 .. Forever /\ q.from < q.until
            /\ q.op \in {"execute", "own"} => q.rec \in Records
            /\ q.op \in {"place", "release"} /\ q.scope = "RECORD" => q.rec \in Records
            /\ q.op = "legacyPlace" /\ q.form \in {"uuid", "hex"} => q.rec \in Records
            /\ q.op = "own" => q.cat \in Categories
            /\ q.op = "execute" => q.act \in Actions
            /\ q.op = "release" => q.id \in HoldIds
            /\ q.op = "legacyRelease" => q.id \in LegacyIds
    BY BeginRequest
  <1>3. tx' = [tx EXCEPT ![t] = [q EXCEPT !.pc = FirstLock(q.op)]] /\ lock' = lock
    BY <1>2 DEF Begin
  <1>4. FirstLock(q.op) \in {"policy", "legacy", "entity"}  BY <1>2 DEF FirstLock, AllOps
  <1>5. [q EXCEPT !.pc = FirstLock(q.op)] \in Command  BY <1>4 DEF Command
  <1>6. tx' \in [Tx -> Command] /\ tx'[t] = [q EXCEPT !.pc = FirstLock(q.op)] /\ \A u \in Tx : u # t => tx'[u] = tx[u]
    BY <1>3, <1>5 DEF TypeOK
  <1>7. /\ tx'[t].pc = FirstLock(q.op) /\ tx'[t].op = q.op /\ tx'[t].cat = q.cat /\ tx'[t].rec = q.rec
        /\ tx'[t].scope = q.scope /\ tx'[t].form = q.form /\ tx'[t].act = q.act
        /\ tx'[t].id = q.id /\ tx'[t].days = q.days /\ tx'[t].until = q.until
    BY <1>6 DEF Command
  <1>8. /\ q.op \in {"set", "replace"} => FirstLock(q.op) = "policy"
        /\ q.op \in {"legacyPlace", "legacyRelease"} => FirstLock(q.op) = "legacy"
        /\ q.op \in {"place", "release", "execute", "own"} => FirstLock(q.op) = "entity"
    BY DEF FirstLock
  <1>9. Shape(t)'  BY <1>2, <1>7, <1>8 DEF Shape, AllOps
  <1>10. Inputs(t)'  BY <1>2, <1>7, <1>8 DEF Inputs, AllOps
  <1>11. Gates(t)'  BY <1>2, <1>7, <1>8 DEF Gates, InsideEntity, InsideLegacy, AllOps
  <1>12. ControlInv'  BY <1>3, <1>6, <1>9, <1>10, <1>11, OthersKeepControl
  <1>13. TypeOK' /\ HoldRows'  BY <1>2, <1>6 DEF Begin, TypeOK, HoldRows
  <1>. QED BY <1>12, <1>13

\* A lock that is had is held from then on.
LEMMA AcquireKeeps ==
    ASSUME GovernanceInv, NEW t \in Tx, Acquire(t)
    PROVE  GovernanceInv'
  <1>. USE DEF GovernanceInv
  <1>1. tx[t] \in Command /\ Shape(t) /\ Inputs(t) /\ Gates(t)  BY DEF TypeOK, ControlInv
  <1>2. Wanted(t) \in Keys
    BY <1>1, KeysDiffer DEF Acquire, Wanted, LockPcs, Shape, Inputs, AllOps, Command
  <1>3. AfterLock(t) \in {"check", "subject", "legacy", "facts"}
    BY <1>1 DEF Acquire, AfterLock, LockPcs, Shape, Command
  <1>4. tx' = [tx EXCEPT ![t] = [tx[t] EXCEPT !.pc = AfterLock(t)]]  BY DEF Acquire, TypeOK
  <1>5. [tx[t] EXCEPT !.pc = AfterLock(t)] \in Command  BY <1>1, <1>3 DEF Command
  <1>6. tx' \in [Tx -> Command] /\ tx'[t] = [tx[t] EXCEPT !.pc = AfterLock(t)] /\ \A u \in Tx : u # t => tx'[u] = tx[u]
    BY <1>4, <1>5 DEF TypeOK
  <1>7. /\ tx'[t].pc = AfterLock(t) /\ tx'[t].op = tx[t].op /\ tx'[t].cat = tx[t].cat /\ tx'[t].rec = tx[t].rec
        /\ tx'[t].scope = tx[t].scope /\ tx'[t].form = tx[t].form /\ tx'[t].act = tx[t].act
        /\ tx'[t].id = tx[t].id /\ tx'[t].days = tx[t].days /\ tx'[t].until = tx[t].until
    BY <1>1, <1>6 DEF Command
  <1>8. lock' = [lock EXCEPT ![Wanted(t)] = t] /\ lock[Wanted(t)] = NoTx  BY DEF Acquire
  <1>9. lock' \in [Keys -> Tx \cup {NoTx}]  BY <1>2, <1>8 DEF TypeOK
  <1>10. \A k \in Keys : lock[k] \in Tx /\ lock[k] # t => lock'[k] = lock[k]
    BY <1>8, NothingIsSomething DEF TypeOK
  <1>11. \A k \in Keys : lock[k] = t => lock'[k] = t  BY <1>8 DEF TypeOK
  <1>12. lock'[Wanted(t)] = t  BY <1>2, <1>8 DEF TypeOK
  <1>13. CASE tx[t].pc = "entity"
    <2>1. Wanted(t) = Entity  BY <1>13 DEF Wanted
    <2>2. AfterLock(t) = IF tx[t].op \in {"place", "release"} /\ tx[t].scope # "RECORD" THEN "check" ELSE "subject"
      BY <1>13 DEF AfterLock
    <2>3. Shape(t)'  BY <1>1, <1>7, <1>13, <2>2 DEF Shape
    <2>4. Inputs(t)'  BY <1>1, <1>7, <1>13, <2>2 DEF Inputs, Shape
    <2>5. Gates(t)'
      BY <1>1, <1>7, <1>12, <1>13, <2>1, <2>2 DEF Gates, InsideEntity, InsideLegacy, Shape
    <2>. QED
      BY <2>3, <2>4, <2>5, <1>6, <1>9, <1>10, OthersKeepControl DEF Acquire, TypeOK, HoldRows
  <1>14. CASE tx[t].pc = "subject"
    <2>2. AfterLock(t) = IF tx[t].op \in {"place", "release"} THEN "check" ELSE "legacy"
      BY <1>14 DEF AfterLock
    <2>3. Shape(t)'  BY <1>1, <1>7, <1>14, <2>2 DEF Shape
    <2>4. Inputs(t)'  BY <1>1, <1>7, <1>14, <2>2 DEF Inputs, Shape
    <2>5. Gates(t)'
      BY <1>1, <1>7, <1>11, <1>14, <2>2, KeysDiffer DEF Gates, InsideEntity, InsideLegacy, Shape
    <2>. QED
      BY <2>3, <2>4, <2>5, <1>6, <1>9, <1>10, OthersKeepControl DEF Acquire, TypeOK, HoldRows
  <1>15. CASE tx[t].pc = "legacy"
    <2>1. Wanted(t) = LegacyGate  BY <1>15 DEF Wanted
    <2>2. AfterLock(t) = IF tx[t].op = "execute" THEN "facts" ELSE "check"
      BY <1>15 DEF AfterLock
    <2>3. Shape(t)'  BY <1>1, <1>7, <1>15, <2>2 DEF Shape
    <2>4. Inputs(t)'  BY <1>1, <1>7, <1>15, <2>2 DEF Inputs, Shape
    <2>5. Gates(t)'
      BY <1>1, <1>7, <1>11, <1>12, <1>15, <2>1, <2>2, KeysDiffer DEF Gates, InsideEntity, InsideLegacy, Shape
    <2>. QED
      BY <2>3, <2>4, <2>5, <1>6, <1>9, <1>10, OthersKeepControl DEF Acquire, TypeOK, HoldRows
  <1>16. CASE tx[t].pc = "policy"
    <2>2. AfterLock(t) = "check"  BY <1>16 DEF AfterLock
    <2>3. Shape(t)'  BY <1>1, <1>7, <1>16, <2>2 DEF Shape
    <2>4. Inputs(t)'  BY <1>1, <1>7, <1>16, <2>2 DEF Inputs, Shape
    <2>5. Gates(t)'
      BY <1>1, <1>7, <1>11, <1>16, <2>2, KeysDiffer DEF Gates, InsideEntity, InsideLegacy, Shape
    <2>. QED
      BY <2>3, <2>4, <2>5, <1>6, <1>9, <1>10, OthersKeepControl DEF Acquire, TypeOK, HoldRows
  <1>. QED BY <1>13, <1>14, <1>15, <1>16 DEF Acquire, LockPcs

\* A failed command leaves the tables as they were.
LEMMA RollbackKeeps ==
    ASSUME GovernanceInv, NEW t \in Tx, Rollback(t)
    PROVE  GovernanceInv'
  <1>1. TypeOK /\ ControlInv /\ HoldRows  BY DEF GovernanceInv
  <1>2. lock' = Released(t) /\ tx' = [tx EXCEPT ![t] = Idle]  BY DEF Rollback
  <1>3. ControlInv'  BY <1>1, <1>2, EndKeepsControl
  <1>4. tx' \in [Tx -> Command] /\ lock' \in [Keys -> Tx \cup {NoTx}]  BY <1>1, <1>2, EndFacts
  <1>5. TypeOK' /\ HoldRows'  BY <1>1, <1>4 DEF Rollback, TypeOK, HoldRows
  <1>. QED BY <1>3, <1>5 DEF GovernanceInv

\* A check that succeeds keeps everything.
LEMMA CheckedKeeps ==
    ASSUME GovernanceInv, NEW t \in Tx, Checked(t),
           (tx[t].pc = "check" /\ tx[t].op # "replace") \/ tx[t].pc = "holds"
    PROVE  GovernanceInv'
  <1>1. TypeOK /\ ControlInv /\ HoldRows  BY DEF GovernanceInv
  <1>2. ControlInv'  BY <1>1, CheckedKeepsControl
  <1>3. tx' \in [Tx -> Command] /\ UNCHANGED <<clock, policies, subject, holds, legacy, decided, lock>>
    BY <1>1, CheckedFacts
  <1>4. TypeOK' /\ HoldRows'  BY <1>1, <1>3 DEF TypeOK, HoldRows
  <1>. QED BY <1>2, <1>4 DEF GovernanceInv

\* A step that moves one command and changes only its step, category, anchor,
\* from and until.
LEMMA MoveKeeps ==
    ASSUME GovernanceInv, NEW t \in Tx, NEW q \in Command,
           tx' = [tx EXCEPT ![t] = q],
           UNCHANGED <<clock, policies, subject, holds, legacy, decided, lock>>,
           Shape(t)', Inputs(t)', Gates(t)'
    PROVE  GovernanceInv'
  <1>1. TypeOK /\ ControlInv /\ HoldRows  BY DEF GovernanceInv
  <1>2. tx' \in [Tx -> Command] /\ \A u \in Tx : u # t => tx'[u] = tx[u]  BY <1>1 DEF TypeOK
  <1>3. ControlInv'  BY <1>1, <1>2, OthersKeepControl
  <1>4. TypeOK' /\ HoldRows'  BY <1>1, <1>2 DEF TypeOK, HoldRows
  <1>. QED BY <1>3, <1>4 DEF GovernanceInv

\* Every check, successful or not.
LEMMA ChecksKeep ==
    ASSUME GovernanceInv, NEW t \in Tx, Checks(t)
    PROVE  GovernanceInv'
  <1>1. TypeOK /\ ControlInv /\ HoldRows /\ tx[t] \in Command /\ Shape(t) /\ Inputs(t) /\ Gates(t)
    BY DEF GovernanceInv, ControlInv, TypeOK
  <1>2. CASE CheckSet(t) \/ CheckPlace(t) \/ CheckRelease(t)
    BY <1>2, CheckedKeeps, RollbackKeeps DEF CheckSet, CheckPlace, CheckRelease, CheckOf
  <1>3. CASE CheckLegacyPlace(t) \/ CheckLegacyRelease(t) \/ CheckOwn(t)
    BY <1>3, CheckedKeeps, RollbackKeeps DEF CheckLegacyPlace, CheckLegacyRelease, CheckOwn, CheckOf
  <1>4. CASE CheckHolds(t)  BY <1>4, CheckedKeeps, RollbackKeeps DEF CheckHolds
  <1>5. CASE CheckReplace(t)
    <2>1. CASE Rollback(t)  BY <2>1, RollbackKeeps
    <2>2. CASE \E p \in policies :
                /\ tx' = [tx EXCEPT ![t].pc = "commit", ![t].until = p.until]
                /\ UNCHANGED <<clock, policies, subject, holds, legacy, decided, lock>>
      <3>1. PICK p \in policies :
                /\ tx' = [tx EXCEPT ![t].pc = "commit", ![t].until = p.until]
                /\ UNCHANGED <<clock, policies, subject, holds, legacy, decided, lock>>
        BY <2>2
      <3>. DEFINE q == [tx[t] EXCEPT !.pc = "commit", !.until = p.until]
      <3>2. p.until \in 1 .. Forever  BY <1>1 DEF TypeOK, Policy
      <3>3. p.until \in 0 .. Forever  BY <3>2, BoundsArePositive DEF Forever
      <3>4. q \in Command  BY <1>1, <3>3 DEF Command
      <3>5. tx' = [tx EXCEPT ![t] = q]  BY <1>1, <3>1 DEF TypeOK
      <3>6. tx'[t] = q  BY <1>1, <3>5 DEF TypeOK
      <3>7. /\ tx'[t].pc = "commit" /\ tx'[t].until = p.until /\ tx'[t].op = tx[t].op /\ tx'[t].cat = tx[t].cat
            /\ tx'[t].days = tx[t].days /\ tx'[t].act = tx[t].act
        BY <1>1, <3>6 DEF Command
      <3>8. tx[t].op = "replace"  BY <1>5 DEF CheckReplace, CheckOf
      <3>9. Shape(t)' /\ Inputs(t)'  BY <1>1, <3>2, <3>7, <3>8 DEF Shape, Inputs
      <3>10. Gates(t)'  BY <3>7, <3>8 DEF Gates, InsideEntity, InsideLegacy
      <3>. HIDE DEF q
      <3>. QED BY <3>1, <3>4, <3>5, <3>9, <3>10, MoveKeeps
    <2>. QED BY <1>5, <2>1, <2>2 DEF CheckReplace
  <1>6. CASE ReadFacts(t)
    <2>1. CASE Rollback(t)  BY <2>1, RollbackKeeps
    <2>2. CASE /\ tx' = [tx EXCEPT ![t].pc = "policy", ![t].cat = subject[tx[t].rec].cat,
                                   ![t].anchor = subject[tx[t].rec].anchor]
               /\ UNCHANGED <<clock, policies, subject, holds, legacy, decided, lock>>
      <3>. DEFINE q == [tx[t] EXCEPT !.pc = "policy", !.cat = subject[tx[t].rec].cat, !.anchor = subject[tx[t].rec].anchor]
      <3>1. tx[t].pc = "facts" /\ tx[t].op = "execute" /\ tx[t].rec \in Records
        BY <1>1, <1>6 DEF ReadFacts, Shape, Inputs
      <3>2. subject[tx[t].rec] \in Subject  BY <1>1, <3>1 DEF TypeOK
      <3>3. subject[tx[t].rec].cat \in Categories /\ subject[tx[t].rec].anchor \in Time
        BY <3>2 DEF Subject
      <3>4. q \in Command  BY <1>1, <3>3 DEF Command
      <3>5. tx' = [tx EXCEPT ![t] = q]  BY <1>1, <2>2 DEF TypeOK
      <3>6. tx'[t] = q  BY <1>1, <3>5 DEF TypeOK
      <3>7. /\ tx'[t].pc = "policy" /\ tx'[t].cat = subject[tx[t].rec].cat /\ tx'[t].op = tx[t].op
            /\ tx'[t].rec = tx[t].rec /\ tx'[t].act = tx[t].act
        BY <1>1, <3>6 DEF Command
      <3>8. Shape(t)' /\ Inputs(t)'  BY <1>1, <3>1, <3>3, <3>7 DEF Shape, Inputs
      <3>9. Gates(t)'  BY <1>1, <2>2, <3>1, <3>7 DEF Gates, InsideEntity, InsideLegacy
      <3>. HIDE DEF q
      <3>. QED BY <2>2, <3>4, <3>5, <3>8, <3>9, MoveKeeps
    <2>. QED BY <1>6, <2>1, <2>2 DEF ReadFacts
  <1>7. CASE CheckExecute(t)
    <2>1. CASE Rollback(t)  BY <2>1, RollbackKeeps
    <2>2. CASE /\ tx' = [tx EXCEPT ![t].pc = "holds", ![t].from = clock]
               /\ UNCHANGED <<clock, policies, subject, holds, legacy, decided, lock>>
      <3>. DEFINE q == [tx[t] EXCEPT !.pc = "holds", !.from = clock]
      <3>1. tx[t].pc = "check" /\ tx[t].op = "execute"  BY <1>7 DEF CheckExecute, CheckOf
      <3>2. clock \in Time  BY <1>1 DEF TypeOK
      <3>4. q \in Command  BY <1>1, <3>2 DEF Command
      <3>5. tx' = [tx EXCEPT ![t] = q]  BY <1>1, <2>2 DEF TypeOK
      <3>6. tx'[t] = q  BY <1>1, <3>5 DEF TypeOK
      <3>7. /\ tx'[t].pc = "holds" /\ tx'[t].cat = tx[t].cat /\ tx'[t].op = tx[t].op
            /\ tx'[t].rec = tx[t].rec /\ tx'[t].act = tx[t].act
        BY <1>1, <3>6 DEF Command
      <3>8. Shape(t)' /\ Inputs(t)'  BY <1>1, <3>1, <3>7 DEF Shape, Inputs
      <3>9. Gates(t)'  BY <1>1, <2>2, <3>1, <3>7 DEF Gates, InsideEntity, InsideLegacy
      <3>. HIDE DEF q
      <3>. QED BY <2>2, <3>4, <3>5, <3>8, <3>9, MoveKeeps
    <2>. QED BY <1>7, <2>1, <2>2 DEF CheckExecute
  <1>. QED BY <1>2, <1>3, <1>4, <1>5, <1>6, <1>7 DEF Checks

\* Every commit closes its command and writes well-formed rows.
LEMMA CommitsKeep ==
    ASSUME GovernanceInv, NEW t \in Tx, Commits(t)
    PROVE  GovernanceInv'
  <1>1. TypeOK /\ ControlInv /\ HoldRows /\ tx[t] \in Command /\ Shape(t) /\ Inputs(t)
    BY DEF GovernanceInv, ControlInv, TypeOK
  <1>2. lock' = Released(t) /\ tx' = [tx EXCEPT ![t] = Idle] /\ UNCHANGED clock /\ tx[t].pc = "commit"
    BY DEF Commits, CommitOf, CommitSet, CommitReplace, CommitPlace, CommitRelease, CommitExecute,
           CommitLegacyPlace, CommitLegacyRelease, CommitOwn
  <1>3. ControlInv'  BY <1>1, <1>2, EndKeepsControl
  <1>4. tx' \in [Tx -> Command] /\ lock' \in [Keys -> Tx \cup {NoTx}] /\ clock' \in Time
    BY <1>1, <1>2, EndFacts DEF TypeOK
  <1>5. tx[t].from \in Time /\ tx[t].anchor \in Time /\ tx[t].scope \in Scopes /\ tx[t].form \in Forms
        /\ tx[t].rec \in Records \cup {NoRecord} /\ tx[t].cat \in Categories \cup {NoCategory}
    BY <1>1 DEF Command
  <1>6. policies' \subseteq Policy
    <2>1. CASE CommitSet(t)
      <3>1. Draft(t) \in Policy
        BY <1>1, <1>5, <2>1 DEF CommitSet, CommitOf, Draft, Policy, Shape, Inputs
      <3>. QED BY <1>1, <2>1, <3>1 DEF CommitSet, TypeOK
    <2>2. CASE CommitReplace(t)
      <3>1. Draft(t) \in Policy
        BY <1>1, <1>5, <2>2 DEF CommitReplace, CommitOf, Draft, Policy, Shape, Inputs
      <3>2. \A p \in policies : p.from < tx[t].from => [p EXCEPT !.until = tx[t].from] \in Policy
        <4>1. SUFFICES ASSUME NEW p \in policies, p.from < tx[t].from
                       PROVE  [p EXCEPT !.until = tx[t].from] \in Policy
          OBVIOUS
        <4>2. p \in Policy /\ p.from \in Time  BY <1>1 DEF TypeOK, Policy
        <4>3. tx[t].from \in 1 .. Forever
          BY <1>5, <4>1, <4>2, BoundsArePositive DEF Time, Forever
        <4>. QED BY <4>2, <4>3 DEF Policy
      <3>. QED BY <1>1, <2>2, <3>1, <3>2 DEF CommitReplace, TypeOK
    <2>3. CASE ~CommitSet(t) /\ ~CommitReplace(t)
      BY <1>1, <2>3 DEF Commits, CommitPlace, CommitRelease, CommitExecute, CommitLegacyPlace,
                        CommitLegacyRelease, CommitOwn, TypeOK
    <2>. QED BY <2>1, <2>2, <2>3
  <1>7. subject' \in [Records -> Subject] /\ decided' \in [Records -> Decision]
    <2>1. CASE CommitExecute(t)
      <3>1. tx[t].op = "execute" /\ tx[t].rec \in Records /\ tx[t].act \in Actions /\ tx[t].cat \in Categories
        BY <1>1, <1>2, <2>1 DEF CommitExecute, CommitOf, Inputs
      <3>2. subject[tx[t].rec] \in Subject  BY <1>1, <3>1 DEF TypeOK
      <3>3. [subject[tx[t].rec] EXCEPT !.life = tx[t].act] \in Subject
        BY <3>1, <3>2 DEF Subject, Lifecycles
      <3>4. subject' = [subject EXCEPT ![tx[t].rec] = [subject[tx[t].rec] EXCEPT !.life = tx[t].act]]
        BY <1>1, <2>1, <3>1 DEF CommitExecute, TypeOK
      <3>5. [at |-> tx[t].from, act |-> tx[t].act, cat |-> tx[t].cat, anchor |-> tx[t].anchor] \in Decision
        BY <1>5, <3>1 DEF Decision
      <3>. QED BY <1>1, <2>1, <3>1, <3>3, <3>4, <3>5 DEF CommitExecute, TypeOK
    <2>2. CASE CommitOwn(t)
      <3>1. tx[t].op = "own" /\ tx[t].rec \in Records /\ tx[t].cat \in Categories
        BY <1>1, <2>2 DEF CommitOwn, CommitOf, Inputs
      <3>2. subject[tx[t].rec] \in Subject  BY <1>1, <3>1 DEF TypeOK
      <3>3. [subject[tx[t].rec] EXCEPT !.cat = tx[t].cat, !.anchor = tx[t].anchor] \in Subject
        BY <1>5, <3>1, <3>2 DEF Subject
      <3>4. subject' = [subject EXCEPT ![tx[t].rec] = [subject[tx[t].rec] EXCEPT !.cat = tx[t].cat, !.anchor = tx[t].anchor]]
        BY <1>1, <2>2, <3>1 DEF CommitOwn, TypeOK
      <3>. QED BY <1>1, <2>2, <3>1, <3>3, <3>4 DEF CommitOwn, TypeOK
    <2>3. CASE ~CommitExecute(t) /\ ~CommitOwn(t)
      BY <1>1, <2>3 DEF Commits, CommitPlace, CommitRelease, CommitSet, CommitReplace, CommitLegacyPlace,
                        CommitLegacyRelease, TypeOK
    <2>. QED BY <2>1, <2>2, <2>3
  <1>8. holds' \in [HoldIds -> Hold] /\ \A h \in HoldIds : holds'[h].scope = "RECORD" => holds'[h].rec \in Records
    <2>1. CASE CommitPlace(t)
      <3>1. tx[t].op = "place"  BY <2>1 DEF CommitPlace, CommitOf
      <3>2. PICK h \in HoldIds : holds' = [holds EXCEPT ![h] = [state |-> "active", scope |-> tx[t].scope,
                                                               rec |-> tx[t].rec, cat |-> tx[t].cat]]
        BY <2>1 DEF CommitPlace
      <3>3. [state |-> "active", scope |-> tx[t].scope, rec |-> tx[t].rec, cat |-> tx[t].cat] \in Hold
        BY <1>5 DEF Hold
      <3>4. tx[t].scope = "RECORD" => tx[t].rec \in Records  BY <1>1, <3>1 DEF Inputs
      <3>. QED BY <1>1, <3>2, <3>3, <3>4 DEF TypeOK, HoldRows
    <2>2. CASE CommitRelease(t)
      <3>1. tx[t].id \in HoldIds  BY <1>1, <2>2 DEF CommitRelease, CommitOf, Inputs
      <3>2. holds[tx[t].id] \in Hold  BY <1>1, <3>1 DEF TypeOK
      <3>3. [holds[tx[t].id] EXCEPT !.state = "released"] \in Hold  BY <3>2 DEF Hold
      <3>4. holds' = [holds EXCEPT ![tx[t].id] = [holds[tx[t].id] EXCEPT !.state = "released"]]
        BY <1>1, <2>2, <3>1 DEF CommitRelease, TypeOK
      <3>5. [holds[tx[t].id] EXCEPT !.state = "released"].scope = holds[tx[t].id].scope
            /\ [holds[tx[t].id] EXCEPT !.state = "released"].rec = holds[tx[t].id].rec
        BY <3>2 DEF Hold
      <3>. QED BY <1>1, <3>1, <3>3, <3>4, <3>5 DEF TypeOK, HoldRows
    <2>3. CASE ~CommitPlace(t) /\ ~CommitRelease(t)
      BY <1>1, <2>3 DEF Commits, CommitSet, CommitReplace, CommitExecute, CommitLegacyPlace,
                        CommitLegacyRelease, CommitOwn, TypeOK, HoldRows
    <2>. QED BY <2>1, <2>2, <2>3
  <1>9. legacy' \in [LegacyIds -> Legacy] /\ \A h \in LegacyIds : legacy'[h].form \in {"uuid", "hex"} => legacy'[h].rec \in Records
    <2>1. CASE CommitLegacyPlace(t)
      <3>1. tx[t].op = "legacyPlace"  BY <2>1 DEF CommitLegacyPlace, CommitOf
      <3>2. PICK h \in LegacyIds : legacy' = [legacy EXCEPT ![h] = [state |-> "active", form |-> tx[t].form, rec |-> tx[t].rec]]
        BY <2>1 DEF CommitLegacyPlace
      <3>3. [state |-> "active", form |-> tx[t].form, rec |-> tx[t].rec] \in Legacy
        BY <1>5 DEF Legacy
      <3>4. tx[t].form \in {"uuid", "hex"} => tx[t].rec \in Records  BY <1>1, <3>1 DEF Inputs
      <3>. QED BY <1>1, <3>2, <3>3, <3>4 DEF TypeOK, HoldRows
    <2>2. CASE CommitLegacyRelease(t)
      <3>1. tx[t].id \in LegacyIds  BY <1>1, <2>2 DEF CommitLegacyRelease, CommitOf, Inputs
      <3>2. legacy[tx[t].id] \in Legacy  BY <1>1, <3>1 DEF TypeOK
      <3>3. [legacy[tx[t].id] EXCEPT !.state = "released"] \in Legacy  BY <3>2 DEF Legacy
      <3>4. legacy' = [legacy EXCEPT ![tx[t].id] = [legacy[tx[t].id] EXCEPT !.state = "released"]]
        BY <1>1, <2>2, <3>1 DEF CommitLegacyRelease, TypeOK
      <3>5. [legacy[tx[t].id] EXCEPT !.state = "released"].form = legacy[tx[t].id].form
            /\ [legacy[tx[t].id] EXCEPT !.state = "released"].rec = legacy[tx[t].id].rec
        BY <3>2 DEF Legacy
      <3>. QED BY <1>1, <3>1, <3>3, <3>4, <3>5 DEF TypeOK, HoldRows
    <2>3. CASE ~CommitLegacyPlace(t) /\ ~CommitLegacyRelease(t)
      BY <1>1, <2>3 DEF Commits, CommitSet, CommitReplace, CommitExecute, CommitPlace,
                        CommitRelease, CommitOwn, TypeOK, HoldRows
    <2>. QED BY <2>1, <2>2, <2>3
  <1>. QED BY <1>3, <1>4, <1>6, <1>7, <1>8, <1>9 DEF GovernanceInv, TypeOK, HoldRows

\* The beginning: the old policies, no hold, every lock free.
LEMMA InitControl == Init => GovernanceInv
  <1>1. SUFFICES ASSUME Init PROVE GovernanceInv  OBVIOUS
  <1>2. tx \in [Tx -> Command] /\ \A t \in Tx : tx[t].op = "idle" /\ tx[t].pc = "idle"
    BY <1>1, IdleIsCommand DEF Init, Idle
  <1>3. FreeHold \in Hold /\ FreeHold.scope = "ALL" /\ FreeLegacy \in Legacy /\ FreeLegacy.form = "null"
    BY DEF FreeHold, Hold, FreeLegacy, Legacy, Scopes, Forms
  <1>4. Undecided \in Decision  BY BoundsArePositive DEF Undecided, Decision, Time
  <1>5. clock \in Time /\ policies \subseteq Policy /\ subject \in [Records -> Subject]
    BY <1>1, OldPoliciesAreRows, BoundsArePositive DEF Init, Time
  <1>6. TypeOK /\ HoldRows  BY <1>1, <1>2, <1>3, <1>4, <1>5 DEF Init, TypeOK, HoldRows
  <1>7. \A t \in Tx : Shape(t) /\ Inputs(t) /\ Gates(t)
    BY <1>2 DEF Shape, Inputs, Gates, InsideEntity, InsideLegacy
  <1>. QED BY <1>6, <1>7 DEF GovernanceInv, ControlInv

\* Every step keeps types, control and gates.
LEMMA NextControl == GovernanceInv /\ [Next]_vars => GovernanceInv'
  <1>1. SUFFICES ASSUME GovernanceInv, [Next]_vars PROVE GovernanceInv'  OBVIOUS
  <1>2. CASE UNCHANGED vars
    BY <1>1, <1>2 DEF vars, GovernanceInv, TypeOK, ControlInv, HoldRows, Shape, Inputs, Gates, InsideEntity, InsideLegacy
  <1>3. CASE Tick
    <2>1. clock' \in Time
      BY <1>1, <1>3, BoundsArePositive DEF Tick, GovernanceInv, TypeOK, Time
    <2>. QED
      BY <1>1, <1>3, <2>1 DEF Tick, GovernanceInv, TypeOK, ControlInv, HoldRows, Shape, Inputs, Gates, InsideEntity, InsideLegacy
  <1>4. ASSUME NEW t \in Tx, Begins(t) \/ Acquire(t) \/ TimesOut(t) \/ Dies(t) \/ Checks(t) \/ Commits(t)
        PROVE  GovernanceInv'
    BY <1>1, <1>4, BeginKeeps, AcquireKeeps, RollbackKeeps, ChecksKeep, CommitsKeep DEF TimesOut, Dies
  <1>. QED BY <1>1, <1>2, <1>3, <1>4 DEF Next

\* Every reachable state is well typed, and a command that is past a gate holds
\* it until it ends.
THEOREM TypeCorrect == Spec => []TypeOK
  <1>1. GovernanceInv => TypeOK  BY DEF GovernanceInv
  <1>. QED BY InitControl, NextControl, <1>1, PTL DEF Spec

-----------------------------------------------------------------------------
(* Holds and destruction *)

\* At most one command is inside a gate.
LEMMA OneInside ==
    ASSUME GovernanceInv, NEW t \in Tx, NEW u \in Tx
    PROVE  /\ InsideEntity(t) /\ InsideEntity(u) => t = u
           /\ InsideLegacy(t) /\ InsideLegacy(u) => t = u
  BY DEF GovernanceInv, ControlInv, Gates

\* As long as the tables stand still, what the others have read stays so.
LEMMA QuietKeeps ==
    ASSUME GovernanceInv, HoldInv, NEW t \in Tx,
           \A u \in Tx : u # t => tx'[u] = tx[u],
           UNCHANGED <<subject, holds, legacy, decided>>,
           Facts(t)'
    PROVE  HoldInv'
  <1>1. \A u \in Tx : Facts(u)'
    <2>1. SUFFICES ASSUME NEW u \in Tx, u # t PROVE Facts(u)'  OBVIOUS
    <2>2. tx'[u] = tx[u] /\ Facts(u)  BY <2>1 DEF HoldInv
    <2>. QED BY <2>2 DEF Facts, Covers, LegacyCovers
  <1>2. DecidedIsGone' /\ RecordHoldsProtect'
    BY DEF HoldInv, DecidedIsGone, Destroyed, RecordHoldsProtect, Covers
  <1>. QED BY <1>1, <1>2 DEF HoldInv

\* A command that is closed, or that is not yet at what Facts speaks of.
LEMMA EarlyHasNoFacts ==
    ASSUME NEW t \in Tx,
           \/ tx'[t].pc \in {"idle", "entity", "subject", "legacy", "facts"}
           \/ tx'[t].op \in {"idle", "set", "replace", "release", "legacyRelease"}
           \/ tx'[t].op # "execute" /\ tx'[t].pc # "commit"
    PROVE  Facts(t)'
  BY DEF Facts

\* Beginning, polling and failing change no table.
LEMMA QuietSteps ==
    ASSUME GovernanceInv, GovernanceInv', HoldInv, NEW t \in Tx,
           Begins(t) \/ Acquire(t) \/ Rollback(t)
    PROVE  HoldInv'
  <1>1. TypeOK /\ tx[t] \in Command /\ Shape(t) /\ Facts(t)
    BY DEF GovernanceInv, TypeOK, ControlInv, HoldInv
  <1>2. CASE Begins(t)
    <2>1. PICK q \in Command : Begin(t, q) /\ q.op \in AllOps  BY <1>2, BeginRequest
    <2>2. tx' = [tx EXCEPT ![t] = [q EXCEPT !.pc = FirstLock(q.op)]] /\ UNCHANGED <<subject, holds, legacy, decided>>
      BY <2>1 DEF Begin
    <2>3. FirstLock(q.op) \in {"legacy", "entity"} \/ q.op \in {"set", "replace"}
      BY <2>1 DEF FirstLock, AllOps
    <2>4. tx'[t] = [q EXCEPT !.pc = FirstLock(q.op)] /\ \A u \in Tx : u # t => tx'[u] = tx[u]
      BY <1>1, <2>2 DEF TypeOK
    <2>5. tx'[t].pc = FirstLock(q.op) /\ tx'[t].op = q.op  BY <2>4 DEF Command
    <2>6. tx'[t].pc \in {"entity", "legacy"} \/ tx'[t].op \in {"set", "replace"}
      BY <2>3, <2>5
    <2>7. Facts(t)'  BY <2>6, EarlyHasNoFacts
    <2>. QED BY <2>2, <2>4, <2>7, QuietKeeps
  <1>3. CASE Acquire(t)
    <2>1. tx' = [tx EXCEPT ![t] = [tx[t] EXCEPT !.pc = AfterLock(t)]] /\ UNCHANGED <<subject, holds, legacy, decided>>
      BY <1>1, <1>3 DEF Acquire, TypeOK
    <2>2. tx'[t] = [tx[t] EXCEPT !.pc = AfterLock(t)] /\ \A u \in Tx : u # t => tx'[u] = tx[u]
      BY <1>1, <2>1 DEF TypeOK
    <2>3. /\ tx'[t].pc = AfterLock(t) /\ tx'[t].op = tx[t].op /\ tx'[t].cat = tx[t].cat /\ tx'[t].rec = tx[t].rec
      BY <1>1, <2>2 DEF Command
    <2>4. AfterLock(t) \in {"check", "subject", "legacy", "facts"}
          /\ (tx[t].op = "execute" /\ AfterLock(t) = "check" => tx[t].pc = "policy")
      BY <1>1, <1>3 DEF Acquire, AfterLock, LockPcs, Shape, Command
    <2>5. Facts(t)'  BY <1>1, <2>1, <2>3, <2>4 DEF Facts
    <2>. QED BY <2>1, <2>2, <2>5, QuietKeeps
  <1>4. CASE Rollback(t)
    <2>1. tx'[t] = Idle /\ \A u \in Tx : u # t => tx'[u] = tx[u]
      BY <1>1, <1>4, EndFacts DEF Rollback
    <2>2. Facts(t)'  BY <2>1, EarlyHasNoFacts DEF Idle
    <2>. QED BY <1>4, <2>1, <2>2, QuietKeeps DEF Rollback
  <1>. QED BY <1>2, <1>3, <1>4

\* A check adds to what a command knows only what the tables say.
LEMMA ChecksKeepHolds ==
    ASSUME GovernanceInv, GovernanceInv', HoldInv, NEW t \in Tx, Checks(t)
    PROVE  HoldInv'
  <1>1. TypeOK /\ tx[t] \in Command /\ Shape(t) /\ Inputs(t) /\ Facts(t)
    BY DEF GovernanceInv, TypeOK, ControlInv, HoldInv
  <1>2. CASE Rollback(t)  BY <1>2, QuietSteps
  <1>3. CASE ~Rollback(t)
    <2>1. UNCHANGED <<subject, holds, legacy, decided>> /\ \A u \in Tx : u # t => tx'[u] = tx[u]
      BY <1>1, <1>3 DEF Checks, CheckSet, CheckReplace, CheckPlace, CheckRelease, CheckLegacyPlace,
                        CheckLegacyRelease, CheckOwn, ReadFacts, CheckExecute, CheckHolds, Checked, TypeOK
    <2>2. ASSUME Checked(t)
          PROVE  /\ tx'[t].pc = "commit" /\ tx'[t].op = tx[t].op /\ tx'[t].cat = tx[t].cat /\ tx'[t].rec = tx[t].rec
                 /\ tx'[t].scope = tx[t].scope /\ tx'[t].form = tx[t].form
      BY <1>1, <2>2, CheckedFacts DEF Command
    <2>3. CASE CheckSet(t) \/ CheckRelease(t) \/ CheckLegacyRelease(t)
      <3>1. Checked(t) /\ tx[t].op \in {"set", "release", "legacyRelease"}
        BY <1>3, <2>3 DEF CheckSet, CheckRelease, CheckLegacyRelease, CheckOf
      <3>2. Facts(t)'  BY <2>2, <3>1, EarlyHasNoFacts
      <3>. QED BY <2>1, <3>2, QuietKeeps
    <2>4. CASE CheckReplace(t)
      <3>1. PICK p \in policies : tx' = [tx EXCEPT ![t].pc = "commit", ![t].until = p.until]
        BY <1>3, <2>4 DEF CheckReplace
      <3>2. tx[t].op = "replace"  BY <2>4 DEF CheckReplace, CheckOf
      <3>3. tx'[t].op = "replace"  BY <1>1, <3>1, <3>2 DEF TypeOK, Command
      <3>4. Facts(t)'  BY <3>3, EarlyHasNoFacts
      <3>. QED BY <2>1, <3>4, QuietKeeps
    <2>5. CASE CheckPlace(t)
      <3>1. Checked(t) /\ tx[t].op = "place" /\ Holdable(t)
        BY <1>3, <2>5 DEF CheckPlace, CheckOf
      <3>2. Facts(t)'  BY <2>1, <2>2, <3>1 DEF Facts, Holdable
      <3>. QED BY <2>1, <3>2, QuietKeeps
    <2>6. CASE CheckLegacyPlace(t)
      <3>1. Checked(t) /\ tx[t].op = "legacyPlace" /\ LegacyHoldable(t)
        BY <1>3, <2>6 DEF CheckLegacyPlace, CheckOf
      <3>2. tx[t].form \in {"uuid", "hex"} => tx[t].rec \in Records /\ subject[tx[t].rec].life = "current"
        BY <1>1, <3>1 DEF LegacyHoldable, Inputs, HoldInv, DecidedIsGone
      <3>3. Facts(t)'  BY <2>1, <2>2, <3>1, <3>2 DEF Facts
      <3>. QED BY <2>1, <3>3, QuietKeeps
    <2>7. CASE CheckOwn(t)
      <3>1. Checked(t) /\ tx[t].op = "own" /\ subject[tx[t].rec].life = "current"
        BY <1>3, <2>7 DEF CheckOwn, CheckOf
      <3>2. Facts(t)'  BY <2>1, <2>2, <3>1 DEF Facts
      <3>. QED BY <2>1, <3>2, QuietKeeps
    <2>8. CASE ReadFacts(t)
      <3>1. /\ tx[t].pc = "facts" /\ subject[tx[t].rec].life = "current"
            /\ tx' = [tx EXCEPT ![t].pc = "policy", ![t].cat = subject[tx[t].rec].cat,
                                ![t].anchor = subject[tx[t].rec].anchor]
        BY <1>3, <2>8 DEF ReadFacts
      <3>2. tx'[t].pc = "policy" /\ tx'[t].cat = subject[tx[t].rec].cat /\ tx'[t].rec = tx[t].rec /\ tx'[t].op = tx[t].op
        BY <1>1, <3>1 DEF TypeOK, Command
      <3>3. Facts(t)'  BY <2>1, <3>1, <3>2 DEF Facts
      <3>. QED BY <2>1, <3>3, QuietKeeps
    <2>9. CASE CheckExecute(t)
      <3>1. tx' = [tx EXCEPT ![t].pc = "holds", ![t].from = clock] /\ tx[t].op = "execute" /\ tx[t].pc = "check"
        BY <1>3, <2>9 DEF CheckExecute, CheckOf
      <3>2. tx'[t].pc = "holds" /\ tx'[t].cat = tx[t].cat /\ tx'[t].rec = tx[t].rec /\ tx'[t].op = tx[t].op
        BY <1>1, <3>1 DEF TypeOK, Command
      <3>3. Facts(t)'  BY <1>1, <2>1, <3>1, <3>2 DEF Facts
      <3>. QED BY <2>1, <3>3, QuietKeeps
    <2>10. CASE CheckHolds(t)
      <3>1. /\ Checked(t) /\ tx[t].pc = "holds"
            /\ \A h \in HoldIds : ~Covers(holds[h], tx[t].rec, tx[t].cat)
            /\ \A h \in LegacyIds : ~LegacyCovers(legacy[h], tx[t].rec)
        BY <1>3, <2>10 DEF CheckHolds
      <3>2. tx[t].op = "execute"  BY <1>1, <3>1 DEF Shape
      <3>3. Facts(t)'  BY <1>1, <2>1, <2>2, <3>1, <3>2 DEF Facts, Covers, LegacyCovers
      <3>. QED BY <2>1, <3>3, QuietKeeps
    <2>. QED BY <2>3, <2>4, <2>5, <2>6, <2>7, <2>8, <2>9, <2>10 DEF Checks
  <1>. QED BY <1>2, <1>3

\* A commit may change a table because nobody else is inside the gate that
\* protects what others have read of it.
LEMMA CommitsKeepHolds ==
    ASSUME GovernanceInv, GovernanceInv', HoldInv, NEW t \in Tx, Commits(t)
    PROVE  HoldInv'
  <1>1. TypeOK /\ tx[t] \in Command /\ Shape(t) /\ Inputs(t) /\ Facts(t) /\ DecidedIsGone /\ RecordHoldsProtect /\ HoldRows
    BY DEF GovernanceInv, TypeOK, ControlInv, HoldInv
  <1>2. tx[t].pc = "commit" /\ lock' = Released(t) /\ tx' = [tx EXCEPT ![t] = Idle]
    BY DEF Commits, CommitOf, CommitSet, CommitReplace, CommitPlace, CommitRelease, CommitExecute,
           CommitLegacyPlace, CommitLegacyRelease, CommitOwn
  <1>3. tx'[t] = Idle /\ \A u \in Tx : u # t => tx'[u] = tx[u]  BY <1>1, <1>2, EndFacts
  <1>4. Facts(t)'  BY <1>3, EarlyHasNoFacts DEF Idle
  <1>5. SUFFICES ASSUME ~UNCHANGED <<subject, holds, legacy, decided>>
                 PROVE  HoldInv'
    BY <1>3, <1>4, QuietKeeps
  <1>6. ASSUME NEW u \in Tx, u # t
        PROVE  tx'[u] = tx[u] /\ Facts(u) /\ Shape(u) /\ Inputs(u)
    BY <1>3, <1>6 DEF HoldInv, GovernanceInv, ControlInv
  <1>7. CASE CommitExecute(t)
    <2>1. tx[t].op = "execute" /\ tx[t].rec \in Records /\ tx[t].act \in Actions
      BY <1>1, <1>7 DEF CommitExecute, CommitOf, Inputs
    <2>2. InsideEntity(t) /\ InsideLegacy(t)  BY <1>2, <2>1 DEF InsideEntity, InsideLegacy
    <2>3. /\ \A r \in Records : r # tx[t].rec => subject'[r] = subject[r] /\ decided'[r] = decided[r]
          /\ subject'[tx[t].rec].life = tx[t].act /\ subject'[tx[t].rec].cat = subject[tx[t].rec].cat
          /\ decided'[tx[t].rec].act = tx[t].act
          /\ UNCHANGED <<holds, legacy>>
      <3>1. subject[tx[t].rec] \in Subject  BY <1>1, <2>1 DEF TypeOK
      <3>. QED BY <1>1, <1>7, <2>1, <3>1 DEF CommitExecute, TypeOK, Subject
    <2>4. ASSUME NEW u \in Tx, u # t
          PROVE  Facts(u)'
      <3>1. ~InsideEntity(u) /\ ~InsideLegacy(u)  BY <2>2, <2>4, OneInside
      <3>2. tx[u].op \in {"execute", "own", "place", "release"} => tx[u].pc = "entity"
        BY <3>1 DEF InsideEntity
      <3>3. tx[u].op \in {"legacyPlace", "legacyRelease"} => tx[u].pc = "legacy"
        BY <3>1 DEF InsideLegacy
      <3>. QED BY <1>6, <2>4, <3>2, <3>3 DEF Facts
    <2>5. DecidedIsGone'  BY <1>1, <2>1, <2>3, ActionsAreNamed DEF DecidedIsGone, Destroyed
    <2>6. RecordHoldsProtect'
      <3>1. /\ \A h \in HoldIds : ~Covers(holds[h], tx[t].rec, tx[t].cat)
            /\ \A h \in LegacyIds : ~LegacyCovers(legacy[h], tx[t].rec)
            /\ subject[tx[t].rec].cat = tx[t].cat
        BY <1>1, <1>2, <2>1 DEF Facts
      <3>2. ASSUME NEW h \in HoldIds, holds'[h].scope = "RECORD", Covers(holds[h], holds[h].rec, subject[holds[h].rec].cat)'
            PROVE  ~Destroyed(holds[h].rec)'
        <4>1. holds'[h] = holds[h] /\ holds[h].rec \in Records /\ subject'[holds[h].rec].cat = subject[holds[h].rec].cat
          BY <1>1, <2>1, <2>3, <3>2 DEF HoldRows
        <4>2. Covers(holds[h], holds[h].rec, subject[holds[h].rec].cat)
          BY <3>2, <4>1 DEF Covers
        <4>3. holds[h].rec # tx[t].rec  BY <3>1, <4>2
        <4>. QED BY <1>1, <2>3, <3>2, <4>1, <4>2, <4>3 DEF RecordHoldsProtect, Destroyed
      <3>3. ASSUME NEW h \in LegacyIds, legacy'[h].state = "active", legacy'[h].form \in {"uuid", "hex"}
            PROVE  ~Destroyed(legacy[h].rec)'
        <4>1. legacy'[h] = legacy[h] /\ legacy[h].rec \in Records
          BY <1>1, <2>3, <3>3 DEF HoldRows
        <4>2. legacy[h].rec # tx[t].rec  BY <3>1, <3>3, <4>1 DEF LegacyCovers
        <4>. QED BY <1>1, <2>3, <3>3, <4>1, <4>2 DEF RecordHoldsProtect, Destroyed
      <3>. QED BY <3>2, <3>3 DEF RecordHoldsProtect
    <2>. QED BY <1>4, <2>4, <2>5, <2>6 DEF HoldInv
  <1>8. CASE CommitOwn(t)
    <2>1. tx[t].op = "own" /\ tx[t].rec \in Records
      BY <1>1, <1>8 DEF CommitOwn, CommitOf, Inputs
    <2>2. InsideEntity(t)  BY <1>2, <2>1 DEF InsideEntity
    <2>3. /\ \A r \in Records : r # tx[t].rec => subject'[r] = subject[r]
          /\ subject'[tx[t].rec].life = subject[tx[t].rec].life
          /\ UNCHANGED <<holds, legacy, decided>>
      <3>1. subject[tx[t].rec] \in Subject  BY <1>1, <2>1 DEF TypeOK
      <3>. QED BY <1>1, <1>8, <2>1, <3>1 DEF CommitOwn, TypeOK, Subject
    <2>4. subject[tx[t].rec].life = "current" /\ ~Destroyed(tx[t].rec)
      BY <1>1, <1>2, <2>1 DEF Facts, DecidedIsGone
    <2>5. ASSUME NEW u \in Tx, u # t
          PROVE  Facts(u)'
      <3>1. ~InsideEntity(u)  BY <2>2, <2>5, OneInside
      <3>2. tx[u].op \in {"execute", "own", "place", "release"} => tx[u].pc = "entity"
        BY <3>1 DEF InsideEntity
      <3>3. tx[u].op = "legacyPlace" /\ tx[u].form \in {"uuid", "hex"} => tx[u].rec \in Records
        BY <1>6, <2>5 DEF Inputs
      <3>. QED BY <1>6, <2>3, <2>5, <3>2, <3>3 DEF Facts
    <2>6. DecidedIsGone'  BY <1>1, <2>1, <2>3 DEF DecidedIsGone, Destroyed
    <2>7. RecordHoldsProtect'
      <3>1. ASSUME NEW h \in HoldIds, holds'[h].scope = "RECORD", Covers(holds[h], holds[h].rec, subject[holds[h].rec].cat)'
            PROVE  ~Destroyed(holds[h].rec)'
        <4>1. holds'[h] = holds[h] /\ holds[h].rec \in Records
          BY <1>1, <2>3, <3>1 DEF HoldRows
        <4>2. CASE holds[h].rec = tx[t].rec  BY <2>3, <2>4, <4>1, <4>2 DEF Destroyed
        <4>3. CASE holds[h].rec # tx[t].rec
          BY <1>1, <2>3, <3>1, <4>1, <4>3 DEF RecordHoldsProtect, Destroyed, Covers
        <4>. QED BY <4>2, <4>3
      <3>. QED BY <1>1, <2>3, <3>1 DEF RecordHoldsProtect, Destroyed
    <2>. QED BY <1>4, <2>5, <2>6, <2>7 DEF HoldInv
  <1>9. CASE CommitPlace(t)
    <2>1. tx[t].op = "place"  BY <1>9 DEF CommitPlace, CommitOf
    <2>2. InsideEntity(t)  BY <1>2, <2>1 DEF InsideEntity
    <2>3. UNCHANGED <<subject, legacy, decided>>  BY <1>9 DEF CommitPlace
    <2>4. PICK h \in HoldIds : holds' = [holds EXCEPT ![h] = [state |-> "active", scope |-> tx[t].scope,
                                                             rec |-> tx[t].rec, cat |-> tx[t].cat]]
      BY <1>9 DEF CommitPlace
    <2>5. ASSUME NEW u \in Tx, u # t
          PROVE  Facts(u)'
      <3>1. ~InsideEntity(u)  BY <2>2, <2>5, OneInside
      <3>2. tx[u].op \in {"execute", "own", "place", "release"} => tx[u].pc = "entity"
        BY <3>1 DEF InsideEntity
      <3>. QED BY <1>6, <2>3, <2>5, <3>2 DEF Facts
    <2>6. DecidedIsGone'  BY <1>1, <2>3 DEF DecidedIsGone, Destroyed
    <2>7. RecordHoldsProtect'
      <3>1. tx[t].scope = "RECORD" => ~Destroyed(tx[t].rec)
        BY <1>1, <1>2, <2>1 DEF Facts, Inputs, DecidedIsGone
      <3>2. ASSUME NEW g \in HoldIds, holds'[g].scope = "RECORD", Covers(holds[g], holds[g].rec, subject[holds[g].rec].cat)'
            PROVE  ~Destroyed(holds[g].rec)'
        <4>1. CASE g = h  BY <1>1, <2>3, <2>4, <3>1, <3>2, <4>1 DEF TypeOK, Destroyed
        <4>2. CASE g # h
          BY <1>1, <2>3, <2>4, <3>2, <4>2 DEF TypeOK, Destroyed, RecordHoldsProtect, Covers
        <4>. QED BY <4>1, <4>2
      <3>. QED BY <1>1, <2>3, <3>2 DEF RecordHoldsProtect, Destroyed
    <2>. QED BY <1>4, <2>5, <2>6, <2>7 DEF HoldInv
  <1>10. CASE CommitRelease(t)
    <2>1. tx[t].id \in HoldIds /\ UNCHANGED <<subject, legacy, decided>>
      BY <1>1, <1>10 DEF CommitRelease, CommitOf, Inputs
    <2>2. holds[tx[t].id] \in Hold  BY <1>1, <2>1 DEF TypeOK
    <2>3. holds'[tx[t].id].state = "released" /\ \A h \in HoldIds : h # tx[t].id => holds'[h] = holds[h]
      BY <1>1, <1>10, <2>1, <2>2 DEF CommitRelease, TypeOK, Hold
    <2>4. \A h \in HoldIds : \A r, c : Covers(holds'[h], r, c) => Covers(holds[h], r, c) /\ holds'[h] = holds[h]
      BY <2>3 DEF Covers
    <2>5. ASSUME NEW u \in Tx, u # t
          PROVE  Facts(u)'
      BY <1>6, <2>1, <2>4, <2>5 DEF Facts, LegacyCovers
    <2>6. DecidedIsGone'  BY <1>1, <2>1 DEF DecidedIsGone, Destroyed
    <2>7. RecordHoldsProtect'  BY <1>1, <2>1, <2>4 DEF RecordHoldsProtect, Destroyed
    <2>. QED BY <1>4, <2>5, <2>6, <2>7 DEF HoldInv
  <1>11. CASE CommitLegacyPlace(t)
    <2>1. tx[t].op = "legacyPlace"  BY <1>11 DEF CommitLegacyPlace, CommitOf
    <2>2. InsideLegacy(t)  BY <1>2, <2>1 DEF InsideLegacy
    <2>3. UNCHANGED <<subject, holds, decided>>  BY <1>11 DEF CommitLegacyPlace
    <2>4. PICK h \in LegacyIds : legacy' = [legacy EXCEPT ![h] = [state |-> "active", form |-> tx[t].form, rec |-> tx[t].rec]]
      BY <1>11 DEF CommitLegacyPlace
    <2>5. ASSUME NEW u \in Tx, u # t
          PROVE  Facts(u)'
      <3>1. ~InsideLegacy(u)  BY <2>2, <2>5, OneInside
      <3>2. tx[u].op = "execute" => tx[u].pc # "commit"  BY <3>1 DEF InsideLegacy
      <3>. QED BY <1>6, <2>3, <2>5, <3>2 DEF Facts
    <2>6. DecidedIsGone'  BY <1>1, <2>3 DEF DecidedIsGone, Destroyed
    <2>7. RecordHoldsProtect'
      <3>1. tx[t].form \in {"uuid", "hex"} => ~Destroyed(tx[t].rec)
        BY <1>1, <1>2, <2>1 DEF Facts, Inputs, DecidedIsGone
      <3>2. ASSUME NEW g \in LegacyIds, legacy'[g].state = "active", legacy'[g].form \in {"uuid", "hex"}
            PROVE  ~Destroyed(legacy[g].rec)'
        <4>1. CASE g = h  BY <1>1, <2>3, <2>4, <3>1, <3>2, <4>1 DEF TypeOK, Destroyed
        <4>2. CASE g # h
          BY <1>1, <2>3, <2>4, <3>2, <4>2 DEF TypeOK, Destroyed, RecordHoldsProtect
        <4>. QED BY <4>1, <4>2
      <3>. QED BY <1>1, <2>3, <3>2 DEF RecordHoldsProtect, Destroyed, Covers
    <2>. QED BY <1>4, <2>5, <2>6, <2>7 DEF HoldInv
  <1>12. CASE CommitLegacyRelease(t)
    <2>1. tx[t].id \in LegacyIds /\ UNCHANGED <<subject, holds, decided>>
      BY <1>1, <1>12 DEF CommitLegacyRelease, CommitOf, Inputs
    <2>2. legacy[tx[t].id] \in Legacy  BY <1>1, <2>1 DEF TypeOK
    <2>3. legacy'[tx[t].id].state = "released" /\ \A h \in LegacyIds : h # tx[t].id => legacy'[h] = legacy[h]
      BY <1>1, <1>12, <2>1, <2>2 DEF CommitLegacyRelease, TypeOK, Legacy
    <2>4. \A h \in LegacyIds : legacy'[h].state = "active" => legacy'[h] = legacy[h]  BY <2>3
    <2>5. ASSUME NEW u \in Tx, u # t
          PROVE  Facts(u)'
      BY <1>6, <2>1, <2>4, <2>5 DEF Facts, LegacyCovers, Covers
    <2>6. DecidedIsGone'  BY <1>1, <2>1 DEF DecidedIsGone, Destroyed
    <2>7. RecordHoldsProtect'  BY <1>1, <2>1, <2>4 DEF RecordHoldsProtect, Destroyed, Covers
    <2>. QED BY <1>4, <2>5, <2>6, <2>7 DEF HoldInv
  <1>13. CASE CommitSet(t) \/ CommitReplace(t)  BY <1>5, <1>13 DEF CommitSet, CommitReplace
  <1>. QED BY <1>7, <1>8, <1>9, <1>10, <1>11, <1>12, <1>13 DEF Commits

\* The whole invariant of holds holds at the beginning.
LEMMA InitHolds == Init => HoldInv
  <1>1. SUFFICES ASSUME Init PROVE HoldInv  OBVIOUS
  <1>2. DecidedIsGone  BY <1>1 DEF Init, DecidedIsGone, Destroyed, Undecided
  <1>3. \A t \in Tx : tx[t].op = "idle"  BY <1>1 DEF Init, Idle
  <1>4. \A t \in Tx : Facts(t)  BY <1>3 DEF Facts
  <1>5. RecordHoldsProtect  BY <1>1 DEF Init, RecordHoldsProtect, FreeHold, FreeLegacy
  <1>. QED BY <1>2, <1>4, <1>5 DEF HoldInv

\* Every step keeps it.
LEMMA NextHolds == GovernanceInv /\ GovernanceInv' /\ HoldInv /\ [Next]_vars => HoldInv'
  <1>1. SUFFICES ASSUME GovernanceInv, GovernanceInv', HoldInv, [Next]_vars PROVE HoldInv'
    OBVIOUS
  <1>2. CASE UNCHANGED vars \/ Tick
    <2>1. UNCHANGED <<subject, holds, legacy, decided, tx>>  BY <1>2 DEF vars, Tick
    <2>2. \A t \in Tx : Facts(t)'  BY <1>1, <2>1 DEF HoldInv, Facts, Covers, LegacyCovers
    <2>3. DecidedIsGone' /\ RecordHoldsProtect'
      BY <1>1, <2>1 DEF HoldInv, DecidedIsGone, Destroyed, RecordHoldsProtect, Covers
    <2>. QED BY <2>2, <2>3 DEF HoldInv
  <1>3. ASSUME NEW t \in Tx, Begins(t) \/ Acquire(t) \/ TimesOut(t) \/ Dies(t) \/ Checks(t) \/ Commits(t)
        PROVE  HoldInv'
    BY <1>1, <1>3, QuietSteps, ChecksKeepHolds, CommitsKeepHolds DEF TimesOut, Dies
  <1>. QED BY <1>1, <1>2, <1>3 DEF Next

\* For every number of commands at once, a hold that names a record never
\* stands over a destroyed one.
THEOREM HoldsProtect == Spec => []RecordHoldsProtect
  <1>1. HoldInv => RecordHoldsProtect  BY DEF HoldInv
  <1>. QED BY InitControl, NextControl, InitHolds, NextHolds, <1>1, PTL DEF Spec

\* For every number of commands at once, no destruction commits while a
\* committed hold covers the record.
THEOREM NeverUnderHold == Spec => NoDestructionUnderHold
  <1>. DEFINE Step == \A r \in Records :
                subject[r].life = "current" /\ subject'[r].life # "current" =>
                    /\ \A h \in HoldIds : ~Covers(holds[h], r, subject[r].cat)
                    /\ \A h \in LegacyIds : legacy[h].state = "active" /\ legacy[h].form = "uuid" => legacy[h].rec # r
                    /\ \A h \in LegacyIds : legacy[h].state = "active" => legacy[h].form = "uuid"
  <1>1. GovernanceInv /\ HoldInv /\ [Next]_vars => [Step]_vars
    <2>1. SUFFICES ASSUME GovernanceInv, HoldInv, [Next]_vars,
                          NEW r \in Records, subject[r].life = "current", subject'[r].life # "current"
                   PROVE  /\ \A h \in HoldIds : ~Covers(holds[h], r, subject[r].cat)
                          /\ \A h \in LegacyIds : legacy[h].state = "active" /\ legacy[h].form = "uuid" => legacy[h].rec # r
                          /\ \A h \in LegacyIds : legacy[h].state = "active" => legacy[h].form = "uuid"
      OBVIOUS
    <2>2. TypeOK /\ HoldRows /\ \A t \in Tx : Inputs(t) /\ Facts(t)
      BY <2>1 DEF GovernanceInv, ControlInv, HoldInv
    <2>3. PICK t \in Tx : CommitExecute(t) \/ CommitOwn(t)
      <3>1. subject' # subject  BY <2>1
      <3>2. PICK t \in Tx : Begins(t) \/ Acquire(t) \/ TimesOut(t) \/ Dies(t) \/ Checks(t) \/ Commits(t)
        BY <2>1, <3>1 DEF Next, vars, Tick
      <3>3. ~Begins(t)  BY <2>1, <3>1, BeginRequest DEF Begin
      <3>4. ~Acquire(t) /\ ~TimesOut(t) /\ ~Dies(t)
        BY <3>1 DEF Acquire, TimesOut, Dies, Rollback
      <3>5. ~Checks(t)
        BY <3>1 DEF Checks, CheckSet, CheckReplace, CheckPlace, CheckRelease, CheckLegacyPlace, CheckLegacyRelease,
                    CheckOwn, ReadFacts, CheckExecute, CheckHolds, Checked, Rollback
      <3>. QED
        BY <3>1, <3>2, <3>3, <3>4, <3>5 DEF Commits, CommitSet, CommitReplace, CommitPlace, CommitRelease,
                    CommitLegacyPlace, CommitLegacyRelease
    <2>4. ~CommitOwn(t)
      <3>1. SUFFICES ASSUME CommitOwn(t) PROVE FALSE  OBVIOUS
      <3>2. tx[t].rec \in Records  BY <2>2, <3>1 DEF CommitOwn, CommitOf, Inputs
      <3>3. subject[tx[t].rec] \in Subject  BY <2>2, <3>2 DEF TypeOK
      <3>. QED BY <2>1, <2>2, <3>1, <3>2, <3>3 DEF CommitOwn, TypeOK, Subject
    <2>5. CommitExecute(t)  BY <2>3, <2>4
    <2>6. tx[t].op = "execute" /\ tx[t].pc = "commit" /\ tx[t].rec \in Records
      BY <2>2, <2>5 DEF CommitExecute, CommitOf, Inputs
    <2>7. r = tx[t].rec  BY <2>1, <2>2, <2>5, <2>6 DEF CommitExecute, TypeOK
    <2>8. /\ subject[r].cat = tx[t].cat
          /\ \A h \in HoldIds : ~Covers(holds[h], r, tx[t].cat)
          /\ \A h \in LegacyIds : ~LegacyCovers(legacy[h], r)
      BY <2>2, <2>6, <2>7 DEF Facts
    <2>. QED BY <2>8 DEF LegacyCovers
  <1>2. NoDestructionUnderHold <=> [][Step]_vars  BY DEF NoDestructionUnderHold
  <1>. HIDE DEF Step
  <1>. QED BY InitControl, NextControl, InitHolds, NextHolds, <1>1, <1>2, PTL DEF Spec

-----------------------------------------------------------------------------
(* The order of the locks and the gate of a category's policies *)

\* How far a command has come
Stage(pc) == CASE pc = "idle" -> 0
               [] pc = "entity" -> 1
               [] pc = "subject" -> 2
               [] pc = "legacy" -> 3
               [] pc = "facts" -> 4
               [] pc = "policy" -> 5
               [] pc = "check" -> 6
               [] pc = "holds" -> 7
               [] pc = "commit" -> 8

\* The stage at which a lock is taken
KeyStage(k) == CASE k[1] = "entity" -> 1
                 [] k[1] = "subject" -> 2
                 [] k[1] = "legacy-hold-entity" -> 3
                 [] k[1] = "policy" -> 5

\* A command holds only locks it has come past.
LockOrder == \A k \in Keys : lock[k] \in Tx => KeyStage(k) < Stage(tx[lock[k]].pc)

InsidePolicy(t) ==
    \/ tx[t].op \in {"set", "replace"} /\ tx[t].pc # "policy"
    \/ tx[t].op = "execute" /\ tx[t].pc \in {"check", "holds", "commit"}

PolicyGate(t) == InsidePolicy(t) => lock[PolicyOf(tx[t].cat)] = t

LockInv == LockOrder /\ \A t \in Tx : PolicyGate(t)

\* The rows: no interval is empty, and two rows of a category do not overlap.
RowsApart ==
    /\ \A p \in policies : p.from < p.until
    /\ \A p, q \in policies : p # q => ~Overlaps(p, q)

\* The row of policies that a replacement is about to cut
Replaced(t, p) ==
    /\ p.cat = tx[t].cat
    /\ p.from < tx[t].from
    /\ tx[t].from < p.until
    /\ p.until = tx[t].until
    /\ p.days <= tx[t].days
    /\ p.act = tx[t].act

\* Some row of ps authorizes an action at an instant.
Justified(ps, c, i, a, anchor) ==
    \E p \in ps : Effective(ps, c, i) = {p} /\ p.act = a /\ anchor + p.days <= i

\* What the check of a command found out about policies is still so.
PolicyFacts(t) ==
    /\ tx[t].op = "set" => tx[t].from < tx[t].until
    /\ tx[t].op = "set" /\ tx[t].pc = "commit" => Insertable(t)
    /\ tx[t].op = "replace" /\ tx[t].pc = "commit" =>
        /\ \E p \in policies : Replaced(t, p)
        /\ \A r \in Records : Destroyed(r) /\ decided[r].cat = tx[t].cat => decided[r].at < tx[t].from
    /\ tx[t].op = "execute" /\ tx[t].pc \in {"holds", "commit"} =>
        /\ tx[t].from <= clock
        /\ Justified(policies, tx[t].cat, tx[t].from, tx[t].act, tx[t].anchor)

DecidedBefore == \A r \in Records : decided[r].at <= clock

PolicyInv ==
    /\ RowsApart
    /\ DecidedBefore
    /\ DecisionsStayJustified
    /\ \A t \in Tx : PolicyFacts(t)

-----------------------------------------------------------------------------
(* The effect of a step, for the proofs about locks and policies *)

\* A beginning command was idle and waits for its first lock.
LEMMA BeginEffect ==
    ASSUME GovernanceInv, NEW t \in Tx, Begins(t)
    PROVE  /\ tx[t].op = "idle" /\ tx[t].pc = "idle"
           /\ tx'[t].pc \in {"policy", "legacy", "entity"}
           /\ tx'[t].op \in {"set", "replace"} => tx'[t].pc = "policy"
           /\ tx'[t].op = "set" => tx'[t].from < tx'[t].until
           /\ \A u \in Tx : u # t => tx'[u] = tx[u]
           /\ UNCHANGED <<clock, policies, subject, holds, legacy, decided, lock>>
  <1>1. PICK q \in Command : Begin(t, q) /\ q.op \in AllOps /\ (q.op = "set" => q.from < q.until)
    BY BeginRequest
  <1>2. tx' = [tx EXCEPT ![t] = [q EXCEPT !.pc = FirstLock(q.op)]]  BY <1>1 DEF Begin
  <1>3. tx'[t] = [q EXCEPT !.pc = FirstLock(q.op)] /\ \A u \in Tx : u # t => tx'[u] = tx[u]
    BY <1>2 DEF GovernanceInv, TypeOK
  <1>4. tx'[t].pc = FirstLock(q.op) /\ tx'[t].op = q.op /\ tx'[t].from = q.from /\ tx'[t].until = q.until
    BY <1>3 DEF Command
  <1>5. FirstLock(q.op) \in {"policy", "legacy", "entity"} /\ (q.op \in {"set", "replace"} => FirstLock(q.op) = "policy")
    BY <1>1 DEF FirstLock, AllOps
  <1>6. tx[t].op = "idle" /\ tx[t].pc = "idle"
    BY <1>1 DEF Begin, GovernanceInv, ControlInv, Shape
  <1>. QED BY <1>1, <1>3, <1>4, <1>5, <1>6 DEF Begin

\* A lock is taken: only the step of the command changes, and it goes up.
LEMMA AcquireEffect ==
    ASSUME GovernanceInv, NEW t \in Tx, Acquire(t)
    PROVE  /\ tx'[t] = [tx[t] EXCEPT !.pc = AfterLock(t)]
           /\ tx'[t].pc \in {"check", "subject", "legacy", "facts"}
           /\ Wanted(t) \in Keys
           /\ lock[Wanted(t)] = NoTx /\ lock'[Wanted(t)] = t
           /\ \A k \in Keys : k # Wanted(t) => lock'[k] = lock[k]
           /\ KeyStage(Wanted(t)) = Stage(tx[t].pc)
           /\ Stage(tx[t].pc) < Stage(tx'[t].pc)
           /\ \A u \in Tx : u # t => tx'[u] = tx[u]
           /\ UNCHANGED <<clock, policies, subject, holds, legacy, decided>>
  <1>1. tx[t] \in Command /\ Shape(t) /\ Inputs(t)  BY DEF GovernanceInv, TypeOK, ControlInv
  <1>2. Wanted(t) \in Keys
    BY <1>1, KeysDiffer DEF Acquire, Wanted, LockPcs, Shape, Inputs, AllOps, Command
  <1>3. AfterLock(t) \in {"check", "subject", "legacy", "facts"}
    BY <1>1 DEF Acquire, AfterLock, LockPcs, Shape, Command
  <1>4. tx'[t] = [tx[t] EXCEPT !.pc = AfterLock(t)] /\ \A u \in Tx : u # t => tx'[u] = tx[u]
    BY DEF Acquire, GovernanceInv, TypeOK
  <1>5. tx'[t].pc = AfterLock(t)  BY <1>1, <1>4 DEF Command
  <1>6. Stage(tx[t].pc) < Stage(AfterLock(t))
    <2>1. CASE tx[t].pc = "entity"
      <3>1. AfterLock(t) \in {"check", "subject"}  BY <2>1 DEF AfterLock
      <3>. QED BY <2>1, <3>1 DEF Stage
    <2>2. CASE tx[t].pc = "subject"
      <3>1. AfterLock(t) \in {"check", "legacy"}  BY <2>2 DEF AfterLock
      <3>. QED BY <2>2, <3>1 DEF Stage
    <2>3. CASE tx[t].pc = "legacy"
      <3>1. AfterLock(t) \in {"check", "facts"}  BY <2>3 DEF AfterLock
      <3>. QED BY <2>3, <3>1 DEF Stage
    <2>4. CASE tx[t].pc = "policy"
      <3>1. AfterLock(t) = "check"  BY <2>4 DEF AfterLock
      <3>. QED BY <2>4, <3>1 DEF Stage
    <2>. QED BY <2>1, <2>2, <2>3, <2>4 DEF Acquire, LockPcs
  <1>7. KeyStage(Wanted(t)) = Stage(tx[t].pc)
    <2>1. CASE tx[t].pc = "entity"  BY <2>1 DEF Wanted, Entity, KeyStage, Stage
    <2>2. CASE tx[t].pc = "subject"  BY <2>2 DEF Wanted, SubjectOf, KeyStage, Stage
    <2>3. CASE tx[t].pc = "legacy"  BY <2>3 DEF Wanted, LegacyGate, KeyStage, Stage
    <2>4. CASE tx[t].pc = "policy"  BY <2>4 DEF Wanted, PolicyOf, KeyStage, Stage
    <2>. QED BY <2>1, <2>2, <2>3, <2>4 DEF Acquire, LockPcs
  <1>8. lock' = [lock EXCEPT ![Wanted(t)] = t] /\ lock[Wanted(t)] = NoTx  BY DEF Acquire
  <1>9. lock'[Wanted(t)] = t /\ \A k \in Keys : k # Wanted(t) => lock'[k] = lock[k]
    BY <1>2, <1>8 DEF GovernanceInv, TypeOK
  <1>. QED BY <1>2, <1>3, <1>4, <1>5, <1>6, <1>7, <1>8, <1>9 DEF Acquire

\* The three ways in which a check that succeeds moves its command on.
Moves(t, q) ==
    \/ tx[t].pc = "facts" /\ q.pc = "policy" /\ tx[t].op = "execute"
    \/ /\ tx[t].pc = "check" /\ tx[t].op = "execute" /\ q = [tx[t] EXCEPT !.pc = "holds", !.from = clock]
       /\ \E p \in policies : Authorizes(p, tx[t].cat, clock, tx[t].act, tx[t].anchor)
    \/ /\ tx[t].pc = "check" /\ tx[t].op = "replace"
       /\ \E p \in policies : Replaceable(t, p) /\ q = [tx[t] EXCEPT !.pc = "commit", !.until = p.until]
    \/ /\ tx[t].pc = IF tx[t].op = "execute" THEN "holds" ELSE "check"
       /\ tx[t].op # "replace"
       /\ tx[t].op = "set" => Insertable(t)
       /\ q = [tx[t] EXCEPT !.pc = "commit"]

\* A check ends the command or moves it on, and writes nothing.
LEMMA ChecksEffect ==
    ASSUME GovernanceInv, NEW t \in Tx, Checks(t)
    PROVE  \/ Rollback(t)
           \/ /\ Moves(t, tx'[t]) /\ tx'[t].op = tx[t].op
              /\ \A u \in Tx : u # t => tx'[u] = tx[u]
              /\ UNCHANGED <<clock, policies, subject, holds, legacy, decided, lock>>
  <1>1. tx[t] \in Command /\ Shape(t) /\ tx \in [Tx -> Command]
    BY DEF GovernanceInv, TypeOK, ControlInv
  <1>2. SUFFICES ASSUME ~Rollback(t)
                 PROVE  /\ Moves(t, tx'[t]) /\ tx'[t].op = tx[t].op
                        /\ \A u \in Tx : u # t => tx'[u] = tx[u]
                        /\ UNCHANGED <<clock, policies, subject, holds, legacy, decided, lock>>
    OBVIOUS
  <1>3. ASSUME Checked(t), tx[t].pc = (IF tx[t].op = "execute" THEN "holds" ELSE "check"), tx[t].op # "replace",
               tx[t].op = "set" => Insertable(t)
        PROVE  /\ Moves(t, tx'[t]) /\ tx'[t].op = tx[t].op
               /\ \A u \in Tx : u # t => tx'[u] = tx[u]
               /\ UNCHANGED <<clock, policies, subject, holds, legacy, decided, lock>>
    <2>1. /\ tx'[t] = [tx[t] EXCEPT !.pc = "commit"] /\ \A u \in Tx : u # t => tx'[u] = tx[u]
          /\ UNCHANGED <<clock, policies, subject, holds, legacy, decided, lock>>
      BY <1>3, CheckedFacts DEF GovernanceInv
    <2>2. tx'[t].op = tx[t].op  BY <1>1, <2>1 DEF Command
    <2>3. Moves(t, tx'[t])  BY <1>3, <2>1 DEF Moves
    <2>. QED BY <2>1, <2>2, <2>3
  <1>4. CASE CheckSet(t)  BY <1>2, <1>3, <1>4 DEF CheckSet, CheckOf
  <1>5. CASE CheckPlace(t) \/ CheckRelease(t) \/ CheckLegacyPlace(t) \/ CheckLegacyRelease(t) \/ CheckOwn(t)
    BY <1>2, <1>3, <1>5 DEF CheckPlace, CheckRelease, CheckLegacyPlace, CheckLegacyRelease, CheckOwn, CheckOf
  <1>6. CASE CheckHolds(t)  BY <1>1, <1>2, <1>3, <1>6 DEF CheckHolds, Shape
  <1>7. CASE CheckReplace(t)
    <2>1. PICK p \in policies :
              /\ Replaceable(t, p)
              /\ tx' = [tx EXCEPT ![t].pc = "commit", ![t].until = p.until]
              /\ UNCHANGED <<clock, policies, subject, holds, legacy, decided, lock>>
      BY <1>2, <1>7 DEF CheckReplace
    <2>2. tx'[t] = [tx[t] EXCEPT !.pc = "commit", !.until = p.until] /\ \A u \in Tx : u # t => tx'[u] = tx[u]
      BY <1>1, <2>1
    <2>3. tx'[t].op = tx[t].op  BY <1>1, <2>2 DEF Command
    <2>4. Moves(t, tx'[t])  BY <1>7, <2>1, <2>2 DEF Moves, CheckReplace, CheckOf
    <2>. QED BY <2>1, <2>2, <2>3, <2>4
  <1>8. CASE ReadFacts(t)
    <2>1. /\ tx' = [tx EXCEPT ![t].pc = "policy", ![t].cat = subject[tx[t].rec].cat,
                              ![t].anchor = subject[tx[t].rec].anchor]
          /\ UNCHANGED <<clock, policies, subject, holds, legacy, decided, lock>>
      BY <1>2, <1>8 DEF ReadFacts
    <2>2. /\ tx'[t] = [tx[t] EXCEPT !.pc = "policy", !.cat = subject[tx[t].rec].cat, !.anchor = subject[tx[t].rec].anchor]
          /\ \A u \in Tx : u # t => tx'[u] = tx[u]
      BY <1>1, <2>1
    <2>3. tx'[t].op = tx[t].op /\ tx'[t].pc = "policy"  BY <1>1, <2>2 DEF Command
    <2>4. Moves(t, tx'[t])  BY <1>1, <1>8, <2>3 DEF Moves, ReadFacts, Shape
    <2>. QED BY <2>1, <2>2, <2>3, <2>4
  <1>9. CASE CheckExecute(t)
    <2>1. /\ tx' = [tx EXCEPT ![t].pc = "holds", ![t].from = clock]
          /\ UNCHANGED <<clock, policies, subject, holds, legacy, decided, lock>>
          /\ \E p \in policies : Authorizes(p, tx[t].cat, clock, tx[t].act, tx[t].anchor)
      BY <1>2, <1>9 DEF CheckExecute
    <2>2. tx'[t] = [tx[t] EXCEPT !.pc = "holds", !.from = clock] /\ \A u \in Tx : u # t => tx'[u] = tx[u]
      BY <1>1, <2>1
    <2>3. tx'[t].op = tx[t].op  BY <1>1, <2>2 DEF Command
    <2>4. Moves(t, tx'[t])  BY <1>9, <2>1, <2>2 DEF Moves, CheckExecute, CheckOf
    <2>. QED BY <2>1, <2>2, <2>3, <2>4
  <1>. QED BY <1>4, <1>5, <1>6, <1>7, <1>8, <1>9 DEF Checks

\* A command that ends, in a commit or without one, is idle and without locks.
LEMMA EndEffect ==
    ASSUME GovernanceInv, NEW t \in Tx, Rollback(t) \/ Commits(t)
    PROVE  /\ tx'[t] = Idle /\ lock' = Released(t)
           /\ \A u \in Tx : u # t => tx'[u] = tx[u]
           /\ \A k \in Keys : lock'[k] # t
           /\ \A k \in Keys : lock[k] # t => lock'[k] = lock[k]
           /\ clock' = clock
  <1>1. lock' = Released(t) /\ tx' = [tx EXCEPT ![t] = Idle] /\ clock' = clock
    BY DEF Rollback, Commits, CommitSet, CommitReplace, CommitPlace, CommitRelease,
           CommitExecute, CommitLegacyPlace, CommitLegacyRelease, CommitOwn, CommitOf
  <1>2. \A k \in Keys : lock'[k] # t  BY <1>1, NothingIsSomething DEF Released
  <1>. QED BY <1>1, <1>2, EndFacts DEF GovernanceInv

-----------------------------------------------------------------------------
(* Locks *)

\* The stages of the locks.
LEMMA KeyStages ==
    /\ \A k \in Keys : KeyStage(k) \in 1 .. 5
    /\ \A c : KeyStage(PolicyOf(c)) = 5
    /\ \A c, d : PolicyOf(c) = PolicyOf(d) => c = d
  BY DEF Keys, Entity, LegacyGate, SubjectOf, PolicyOf, KeyStage

\* Steps of one command keep the order of the locks and the policy gates when
\* it disturbs no lock of another, has come past those it holds and keeps its
\* own gate.
LEMMA OthersKeepLocks ==
    ASSUME GovernanceInv, LockInv, NEW t \in Tx,
           \A u \in Tx : u # t => tx'[u] = tx[u],
           \A k \in Keys : lock[k] \in Tx /\ lock[k] # t => lock'[k] = lock[k],
           \A k \in Keys : lock'[k] \in Tx /\ lock'[k] # t => lock'[k] = lock[k],
           \A k \in Keys : lock'[k] = t => KeyStage(k) < Stage(tx'[t].pc),
           PolicyGate(t)'
    PROVE  LockInv'
  <1>1. LockOrder'
    <2>1. SUFFICES ASSUME NEW k \in Keys, lock'[k] \in Tx
                   PROVE  KeyStage(k) < Stage(tx'[lock'[k]].pc)
      BY DEF LockOrder
    <2>2. CASE lock'[k] = t  BY <2>2
    <2>3. CASE lock'[k] # t
      <3>1. lock'[k] = lock[k] /\ tx'[lock'[k]] = tx[lock'[k]]  BY <2>1, <2>3
      <3>. QED BY <2>1, <3>1 DEF LockInv, LockOrder
    <2>. QED BY <2>2, <2>3
  <1>2. ASSUME NEW u \in Tx, u # t
        PROVE  PolicyGate(u)'
    <2>1. tx'[u] = tx[u] /\ tx[u] \in Command /\ Inputs(u) /\ PolicyGate(u)
      BY <1>2 DEF GovernanceInv, ControlInv, TypeOK, LockInv
    <2>2. SUFFICES ASSUME InsidePolicy(u) PROVE lock'[PolicyOf(tx[u].cat)] = u
      BY <2>1 DEF PolicyGate, InsidePolicy
    <2>3. tx[u].cat \in Categories
      BY <2>1, <2>2 DEF InsidePolicy, GovernanceInv, ControlInv, Shape, Inputs
    <2>4. lock[PolicyOf(tx[u].cat)] = u /\ PolicyOf(tx[u].cat) \in Keys
      BY <2>1, <2>2, <2>3, KeysDiffer DEF PolicyGate
    <2>. QED BY <1>2, <2>4
  <1>. QED BY <1>1, <1>2 DEF LockInv

\* An idle command holds no lock.
LEMMA IdleHasNoLock ==
    ASSUME GovernanceInv, LockInv, NEW t \in Tx, tx[t].pc = "idle", NEW k \in Keys
    PROVE  lock[k] # t
  BY KeyStages DEF LockInv, LockOrder, Stage

\* Every step of a command keeps the order of the locks.
LEMMA CommandsKeepLocks ==
    ASSUME GovernanceInv, LockInv, NEW t \in Tx,
           Begins(t) \/ Acquire(t) \/ TimesOut(t) \/ Dies(t) \/ Checks(t) \/ Commits(t)
    PROVE  LockInv'
  <1>1. tx[t] \in Command /\ Shape(t) /\ Inputs(t) /\ PolicyGate(t)
    BY DEF GovernanceInv, ControlInv, TypeOK, LockInv
  <1>2. CASE Begins(t)
    <2>1. PolicyGate(t)'  BY <1>2, BeginEffect DEF PolicyGate, InsidePolicy
    <2>2. \A k \in Keys : lock'[k] # t  BY <1>2, BeginEffect, IdleHasNoLock
    <2>. QED BY <1>2, <2>1, <2>2, BeginEffect, OthersKeepLocks
  <1>3. CASE Acquire(t)
    <2>1. /\ tx'[t] = [tx[t] EXCEPT !.pc = AfterLock(t)] /\ tx'[t].pc \in {"check", "subject", "legacy", "facts"}
          /\ Wanted(t) \in Keys /\ lock[Wanted(t)] = NoTx /\ lock'[Wanted(t)] = t
          /\ \A k \in Keys : k # Wanted(t) => lock'[k] = lock[k]
          /\ KeyStage(Wanted(t)) = Stage(tx[t].pc) /\ Stage(tx[t].pc) < Stage(tx'[t].pc)
          /\ \A u \in Tx : u # t => tx'[u] = tx[u]
      BY <1>3, AcquireEffect
    <2>2. tx'[t].op = tx[t].op /\ tx'[t].cat = tx[t].cat /\ tx'[t].pc = AfterLock(t)
      BY <1>1, <2>1 DEF Command
    <2>3. ASSUME NEW k \in Keys, lock'[k] = t
          PROVE  KeyStage(k) < Stage(tx'[t].pc)
      <3>1. CASE k = Wanted(t)  BY <2>1, <3>1
      <3>2. CASE k # Wanted(t)
        <4>1. lock[k] = t  BY <2>1, <2>3, <3>2
        <4>2. KeyStage(k) < Stage(tx[t].pc)  BY <4>1 DEF LockInv, LockOrder
        <4>3. Stage(tx[t].pc) \in Int /\ Stage(tx'[t].pc) \in Int /\ KeyStage(k) \in Int
          BY <1>1, <1>3, <2>1, KeyStages DEF Stage, Acquire, LockPcs
        <4>. QED BY <2>1, <4>2, <4>3
      <3>. QED BY <3>1, <3>2
    <2>4. PolicyGate(t)'
      <3>1. SUFFICES ASSUME InsidePolicy(t)' PROVE lock'[PolicyOf(tx[t].cat)] = t
        BY <2>2 DEF PolicyGate
      <3>2. tx[t].op \in {"set", "replace", "execute"} /\ tx[t].pc \in LockPcs
        BY <1>3, <2>2, <3>1 DEF InsidePolicy, Acquire
      <3>3. CASE tx[t].pc = "policy"  BY <2>1, <3>3 DEF Wanted
      <3>4. CASE tx[t].pc # "policy"
        <4>1. tx[t].op = "execute" /\ tx[t].pc \in {"entity", "subject", "legacy"}
          BY <1>1, <3>2, <3>4 DEF LockPcs, Shape
        <4>2. AfterLock(t) \in {"subject", "legacy", "facts"}  BY <4>1 DEF AfterLock
        <4>. QED BY <2>2, <3>1, <4>1, <4>2 DEF InsidePolicy
      <3>. QED BY <3>3, <3>4
    <2>5. \A k \in Keys : lock[k] \in Tx => k # Wanted(t)  BY <2>1, NothingIsSomething
    <2>6. \A k \in Keys : lock[k] \in Tx /\ lock[k] # t => lock'[k] = lock[k]  BY <2>1, <2>5
    <2>7. \A k \in Keys : lock'[k] \in Tx /\ lock'[k] # t => lock'[k] = lock[k]  BY <2>1
    <2>. QED BY <2>1, <2>3, <2>4, <2>6, <2>7, OthersKeepLocks
  <1>4. CASE Rollback(t) \/ Commits(t)
    <2>1. /\ tx'[t] = Idle /\ \A u \in Tx : u # t => tx'[u] = tx[u]
          /\ lock' = Released(t)
          /\ \A k \in Keys : lock'[k] # t
          /\ \A k \in Keys : lock[k] # t => lock'[k] = lock[k]
      BY <1>4, EndEffect
    <2>2. \A k \in Keys : lock'[k] \in Tx => lock'[k] = lock[k]
      BY <2>1, NothingIsSomething DEF Released
    <2>3. PolicyGate(t)'  BY <2>1 DEF PolicyGate, InsidePolicy, Idle
    <2>. QED BY <2>1, <2>2, <2>3, OthersKeepLocks
  <1>5. CASE Checks(t) /\ ~Rollback(t)
    <2>1. /\ Moves(t, tx'[t]) /\ tx'[t].op = tx[t].op /\ (\A u \in Tx : u # t => tx'[u] = tx[u]) /\ lock' = lock
      BY <1>5, ChecksEffect
    <2>2. \/ tx[t].pc = "facts" /\ tx'[t].pc = "policy" /\ tx[t].op = "execute"
          \/ tx[t].pc = "check" /\ tx'[t].pc = "holds" /\ tx[t].op = "execute" /\ tx'[t].cat = tx[t].cat
          \/ tx[t].pc = "check" /\ tx'[t].pc = "commit" /\ tx[t].op # "execute" /\ tx'[t].cat = tx[t].cat
          \/ tx[t].pc = "holds" /\ tx'[t].pc = "commit" /\ tx[t].op = "execute" /\ tx'[t].cat = tx[t].cat
      BY <1>1, <2>1 DEF Moves, Command
    <2>3. Stage(tx[t].pc) \in Int /\ Stage(tx'[t].pc) \in Int /\ Stage(tx[t].pc) < Stage(tx'[t].pc)
      BY <2>2 DEF Stage
    <2>4. \A k \in Keys : lock'[k] = t => KeyStage(k) < Stage(tx'[t].pc)
      BY <2>1, <2>3, KeyStages DEF LockInv, LockOrder
    <2>5. PolicyGate(t)'  BY <1>1, <2>1, <2>2 DEF PolicyGate, InsidePolicy
    <2>. QED BY <2>1, <2>4, <2>5, OthersKeepLocks
  <1>. QED BY <1>2, <1>3, <1>4, <1>5 DEF TimesOut, Dies

\* The invariant of the locks.
LEMMA InitLocks == Init => LockInv
  BY NothingIsSomething DEF Init, LockInv, LockOrder, PolicyGate, InsidePolicy, Idle

\* Every step keeps the order of the locks.
LEMMA NextLocks == GovernanceInv /\ LockInv /\ [Next]_vars => LockInv'
  <1>1. CASE UNCHANGED vars \/ Tick
    BY <1>1 DEF vars, Tick, LockInv, LockOrder, PolicyGate, InsidePolicy
  <1>. QED BY <1>1, CommandsKeepLocks DEF Next

\* The command that has come furthest in a circle of waiting commands waits for
\* nobody of the circle.
LEMMA LocksNeverCircle ==
    ASSUME GovernanceInv, LockInv
    PROVE  NoCircularWait
  <1>1. SUFFICES ASSUME NEW S \in SUBSET Tx, S # {},
                        \A t \in S : tx[t].pc \in LockPcs /\ lock[Wanted(t)] \in S
                 PROVE  FALSE
    BY DEF NoCircularWait
  <1>2. ASSUME NEW t \in S
        PROVE  /\ Stage(tx[t].pc) \in {1, 2, 3, 5}
               /\ \E u \in S : Stage(tx[t].pc) < Stage(tx[u].pc)
    <2>1. t \in Tx /\ tx[t].pc \in LockPcs /\ lock[Wanted(t)] \in S  BY <1>1, <1>2
    <2>2. Shape(t) /\ Inputs(t) /\ tx[t] \in Command
      BY <2>1 DEF GovernanceInv, ControlInv, TypeOK
    <2>3. Wanted(t) \in Keys
      BY <2>1, <2>2, KeysDiffer DEF Wanted, LockPcs, Shape, Inputs, AllOps, Command
    <2>4. KeyStage(Wanted(t)) = Stage(tx[t].pc) /\ Stage(tx[t].pc) \in {1, 2, 3, 5}
      <3>1. CASE tx[t].pc = "entity"  BY <3>1 DEF Wanted, Entity, KeyStage, Stage
      <3>2. CASE tx[t].pc = "subject"  BY <3>2 DEF Wanted, SubjectOf, KeyStage, Stage
      <3>3. CASE tx[t].pc = "legacy"  BY <3>3 DEF Wanted, LegacyGate, KeyStage, Stage
      <3>4. CASE tx[t].pc = "policy"  BY <3>4 DEF Wanted, PolicyOf, KeyStage, Stage
      <3>. QED BY <2>1, <3>1, <3>2, <3>3, <3>4 DEF LockPcs
    <2>5. lock[Wanted(t)] \in Tx  BY <1>1, <2>1
    <2>6. KeyStage(Wanted(t)) < Stage(tx[lock[Wanted(t)]].pc)
      BY <2>3, <2>5 DEF LockInv, LockOrder
    <2>. QED BY <2>1, <2>4, <2>6
  <1>3. PICK t0 \in S : Stage(tx[t0].pc) >= 1  BY <1>1, <1>2
  <1>4. PICK t1 \in S : Stage(tx[t1].pc) >= 2
    <2>1. PICK u \in S : Stage(tx[t0].pc) < Stage(tx[u].pc)  BY <1>2
    <2>. QED BY <1>2, <1>3, <2>1
  <1>5. PICK t2 \in S : Stage(tx[t2].pc) >= 3
    <2>1. PICK u \in S : Stage(tx[t1].pc) < Stage(tx[u].pc)  BY <1>2
    <2>. QED BY <1>2, <1>4, <2>1
  <1>6. PICK t3 \in S : Stage(tx[t3].pc) >= 4
    <2>1. PICK u \in S : Stage(tx[t2].pc) < Stage(tx[u].pc)  BY <1>2
    <2>. QED BY <1>2, <1>5, <2>1
  <1>7. PICK t4 \in S : Stage(tx[t3].pc) < Stage(tx[t4].pc)  BY <1>2
  <1>. QED BY <1>2, <1>6, <1>7

-----------------------------------------------------------------------------
(* What a commit does to the rows of policies *)

\* Rows are rows of numbers.
LEMMA RowFacts ==
    ASSUME GovernanceInv, NEW p \in policies
    PROVE  /\ p \in Policy /\ p.from \in Int /\ p.until \in Int /\ p.days \in Int
           /\ p = [cat |-> p.cat, days |-> p.days, act |-> p.act, from |-> p.from, until |-> p.until]
  <1>1. p \in Policy  BY DEF GovernanceInv, TypeOK
  <1>. QED BY <1>1, BoundsArePositive DEF Policy, Time, Forever

\* set_policy adds one row, which overlaps none: the rows stay apart, and where
\* a policy was in force it stays the only one.
LEMMA SetEffect ==
    ASSUME GovernanceInv, RowsApart, NEW t \in Tx, PolicyFacts(t), CommitSet(t)
    PROVE  /\ RowsApart'
           /\ policies \subseteq policies'
           /\ \A p \in policies' : p.cat # tx[t].cat => p \in policies
           /\ \A c, a : \A i, anchor \in Int : Justified(policies, c, i, a, anchor) => Justified(policies', c, i, a, anchor)
  <1>. DEFINE d == Draft(t)
  <1>1. policies' = policies \cup {d} /\ tx[t].op = "set" /\ tx[t].pc = "commit"
    BY DEF CommitSet, CommitOf
  <1>2. tx[t] \in Command /\ Inputs(t)  BY DEF GovernanceInv, ControlInv, TypeOK
  <1>3. d.cat = tx[t].cat /\ d.from = tx[t].from /\ d.until = tx[t].until  BY DEF Draft
  <1>4. d.from \in Int /\ d.until \in Int /\ d.from < d.until
    BY <1>1, <1>2, <1>3, BoundsArePositive DEF Command, Time, Forever, PolicyFacts
  <1>5. \A p \in policies : ~Overlaps(p, d)  BY <1>1 DEF PolicyFacts, Insertable
  <1>6. \A p \in policies : ~Overlaps(d, p)  BY <1>5 DEF Overlaps
  <1>. HIDE DEF d
  <1>7. RowsApart'  BY <1>1, <1>4, <1>5, <1>6 DEF RowsApart
  <1>8. ASSUME NEW c, NEW a, NEW i \in Int, NEW anchor \in Int, Justified(policies, c, i, a, anchor)
        PROVE  Justified(policies', c, i, a, anchor)
    <2>1. PICK p \in policies : Effective(policies, c, i) = {p} /\ p.act = a /\ anchor + p.days <= i
      BY <1>8 DEF Justified
    <2>2. p.cat = c /\ p.from <= i /\ i < p.until  BY <2>1 DEF Effective
    <2>3. p.from \in Int /\ p.until \in Int  BY RowFacts
    <2>4. ~(d.cat = c /\ d.from <= i /\ i < d.until)  BY <1>4, <1>5, <2>2, <2>3 DEF Overlaps
    <2>5. Effective(policies', c, i) = Effective(policies, c, i)  BY <1>1, <2>4 DEF Effective
    <2>. QED BY <1>1, <2>1, <2>5 DEF Justified
  <1>. QED BY <1>1, <1>3, <1>7, <1>8

\* The row that a replacement leaves of p
Cut(t, p) ==
    IF p.cat = tx[t].cat /\ p.from < tx[t].from /\ tx[t].from < p.until THEN [p EXCEPT !.until = tx[t].from] ELSE p

\* replace_policy cuts one row and adds one that ends where that one ended.
LEMMA ReplaceEffect ==
    ASSUME GovernanceInv, RowsApart, NEW t \in Tx, PolicyFacts(t), CommitReplace(t)
    PROVE  \E old \in policies :
           /\ Replaced(t, old)
           /\ policies' = (policies \ {old}) \cup {[old EXCEPT !.until = tx[t].from], Draft(t)}
           /\ \A p \in policies : p # old => ~Overlaps(p, old)
  <1>1. policies' = {Cut(t, p) : p \in policies} \cup {Draft(t)} /\ tx[t].op = "replace" /\ tx[t].pc = "commit"
    BY DEF CommitReplace, CommitOf, Cut
  <1>2. PICK old \in policies : Replaced(t, old)  BY <1>1 DEF PolicyFacts
  <1>3. tx[t].from \in Int  BY BoundsArePositive DEF GovernanceInv, TypeOK, Command, Time
  <1>4. Cut(t, old) = [old EXCEPT !.until = tx[t].from]  BY <1>2 DEF Cut, Replaced
  <1>5. \A p \in policies : p # old => ~Overlaps(p, old)  BY <1>2 DEF RowsApart
  <1>6. \A p \in policies : p # old => Cut(t, p) = p
    BY <1>2, <1>3, <1>5, RowFacts DEF Cut, Replaced, Overlaps
  <1>7. {Cut(t, p) : p \in policies} = (policies \ {old}) \cup {Cut(t, old)}  BY <1>2, <1>6
  <1>. QED BY <1>1, <1>2, <1>4, <1>5, <1>7

\* The rows stay apart, other categories are untouched, and what was in force
\* before the replacement takes effect stays in force.
LEMMA ReplaceKeeps ==
    ASSUME GovernanceInv, RowsApart, NEW t \in Tx, PolicyFacts(t), CommitReplace(t)
    PROVE  /\ RowsApart'
           /\ \A p \in policies : p.cat # tx[t].cat => p \in policies'
           /\ \A p \in policies' : p.cat # tx[t].cat => p \in policies
           /\ \A c, a : \A i, anchor \in Int :
                Justified(policies, c, i, a, anchor) /\ (c = tx[t].cat => i < tx[t].from)
                    => Justified(policies', c, i, a, anchor)
  <1>1. PICK old \in policies :
            /\ Replaced(t, old)
            /\ policies' = (policies \ {old}) \cup {[old EXCEPT !.until = tx[t].from], Draft(t)}
            /\ \A p \in policies : p # old => ~Overlaps(p, old)
    BY ReplaceEffect
  <1>. DEFINE d == Draft(t)
              k == [old EXCEPT !.until = tx[t].from]
              f == tx[t].from
  <1>2. f \in Int  BY BoundsArePositive DEF GovernanceInv, TypeOK, Command, Time
  <1>3. old.from \in Int /\ old.until \in Int /\ old.from < f /\ f < old.until /\ old.cat = tx[t].cat
    BY <1>1, RowFacts DEF Replaced
  <1>4. d.cat = tx[t].cat /\ d.from = f /\ d.until = old.until  BY <1>1 DEF Draft, Replaced
  <1>5. old \in Policy  BY RowFacts
  <1>6. k.cat = tx[t].cat /\ k.from = old.from /\ k.until = f /\ k.days = old.days /\ k.act = old.act
    BY <1>3, <1>5 DEF Policy
  <1>7. policies' = (policies \ {old}) \cup {k, d}  BY <1>1
  <1>. HIDE DEF d, k, f
  <1>8. \A p \in policies : p # old => ~(p.cat = tx[t].cat /\ p.from < old.until /\ old.from < p.until)
    BY <1>1, <1>3 DEF Overlaps
  <1>9. ASSUME NEW p \in policies, p # old
        PROVE  ~Overlaps(p, k) /\ ~Overlaps(k, p) /\ ~Overlaps(p, d) /\ ~Overlaps(d, p)
    <2>1. p.from \in Int /\ p.until \in Int  BY RowFacts
    <2>. QED BY <1>2, <1>3, <1>4, <1>6, <1>8, <1>9, <2>1 DEF Overlaps
  <1>10. ~Overlaps(k, d) /\ ~Overlaps(d, k) /\ k.from < k.until /\ d.from < d.until
    BY <1>2, <1>3, <1>4, <1>6 DEF Overlaps
  <1>11. RowsApart'  BY <1>7, <1>9, <1>10 DEF RowsApart
  <1>12. ASSUME NEW c, NEW a, NEW i \in Int, NEW anchor \in Int, Justified(policies, c, i, a, anchor),
                c = tx[t].cat => i < f
         PROVE  Justified(policies', c, i, a, anchor)
    <2>1. PICK p \in policies : Effective(policies, c, i) = {p} /\ p.act = a /\ anchor + p.days <= i
      BY <1>12 DEF Justified
    <2>2. p.cat = c /\ p.from <= i /\ i < p.until  BY <2>1 DEF Effective
    <2>3. \A q \in policies : q.cat = c /\ q.from <= i /\ i < q.until => q = p
      BY <2>1 DEF Effective
    <2>4. ~(d.cat = c /\ d.from <= i /\ i < d.until)  BY <1>2, <1>4, <1>12
    <2>5. CASE p = old
      <3>1. k.cat = c /\ k.from <= i /\ i < k.until  BY <1>3, <1>6, <1>12, <2>2, <2>5
      <3>2. Effective(policies', c, i) = {k}  BY <1>7, <2>3, <2>4, <2>5, <3>1 DEF Effective
      <3>. QED BY <1>6, <1>7, <2>1, <2>5, <3>2 DEF Justified
    <2>6. CASE p # old
      <3>1. ~(old.cat = c /\ old.from <= i /\ i < old.until)  BY <2>3, <2>6
      <3>2. ~(k.cat = c /\ k.from <= i /\ i < k.until)  BY <1>2, <1>3, <1>6, <3>1
      <3>3. Effective(policies', c, i) = {p}
        BY <1>7, <2>2, <2>3, <2>4, <2>6, <3>2 DEF Effective
      <3>. QED BY <1>7, <2>1, <2>6, <3>3 DEF Justified
    <2>. QED BY <2>5, <2>6
  <1>. QED BY <1>3, <1>4, <1>6, <1>7, <1>11, <1>12 DEF f

-----------------------------------------------------------------------------
(* Policies and decisions *)

\* Steps that write neither policies nor decisions disturb only the command
\* that takes them.
LEMMA OthersKeepPolicies ==
    ASSUME PolicyInv, NEW t \in Tx,
           \A u \in Tx : u # t => tx'[u] = tx[u],
           UNCHANGED <<clock, policies, decided>>,
           PolicyFacts(t)'
    PROVE  PolicyInv'
  <1>1. ASSUME NEW u \in Tx, u # t
        PROVE  PolicyFacts(u)'
    <2>1. tx'[u] = tx[u] /\ PolicyFacts(u)  BY <1>1 DEF PolicyInv
    <2>. QED BY <2>1 DEF PolicyFacts, Insertable, Draft, Replaced, Destroyed
  <1>2. RowsApart' /\ DecidedBefore' /\ DecisionsStayJustified'
    BY DEF PolicyInv, RowsApart, DecidedBefore, DecisionsStayJustified, Authorizes, Destroyed
  <1>. QED BY <1>1, <1>2 DEF PolicyInv

\* Two commands past the policies of a category are one.
LEMMA OneInsidePolicy ==
    ASSUME LockInv, NEW t \in Tx, NEW u \in Tx, InsidePolicy(t), InsidePolicy(u), tx[t].cat = tx[u].cat
    PROVE  t = u
  BY DEF LockInv, PolicyGate

\* The justification of a decision, in terms of the rows alone.
LEMMA DecisionsJustified ==
    DecisionsStayJustified <=>
        \A r \in Records : Destroyed(r) =>
            Justified(policies, decided[r].cat, decided[r].at, decided[r].act, decided[r].anchor)
  BY DEF DecisionsStayJustified, Authorizes, Justified

\* Beginnings, locks, ends without a commit and checks.
LEMMA QuietKeepPolicies ==
    ASSUME GovernanceInv, PolicyInv, NEW t \in Tx,
           Begins(t) \/ Acquire(t) \/ Rollback(t) \/ Checks(t)
    PROVE  PolicyInv'
  <1>1. tx[t] \in Command /\ Shape(t) /\ Inputs(t) /\ PolicyFacts(t)
    BY DEF GovernanceInv, ControlInv, TypeOK, PolicyInv
  <1>2. CASE Begins(t)
    <2>1. PolicyFacts(t)'  BY <1>2, BeginEffect DEF PolicyFacts
    <2>. QED BY <1>2, <2>1, BeginEffect, OthersKeepPolicies
  <1>3. CASE Acquire(t)
    <2>3. tx'[t] = [tx[t] EXCEPT !.pc = AfterLock(t)]  BY <1>3, AcquireEffect
    <2>1. tx'[t].op = tx[t].op /\ tx'[t].from = tx[t].from /\ tx'[t].until = tx[t].until
      BY <1>1, <2>3 DEF Command
    <2>2. PolicyFacts(t)'  BY <1>1, <1>3, <2>1, AcquireEffect DEF PolicyFacts
    <2>. QED BY <1>3, <2>2, AcquireEffect, OthersKeepPolicies
  <1>4. CASE Rollback(t)
    <2>1. PolicyFacts(t)'  BY <1>4, EndEffect DEF PolicyFacts, Idle
    <2>. QED BY <1>4, <2>1, EndEffect, OthersKeepPolicies DEF Rollback
  <1>5. CASE Checks(t) /\ ~Rollback(t)
    <2>1. /\ Moves(t, tx'[t]) /\ tx'[t].op = tx[t].op /\ (\A u \in Tx : u # t => tx'[u] = tx[u])
          /\ UNCHANGED <<clock, policies, decided>>
      BY <1>5, ChecksEffect
    <2>2. CASE tx[t].pc = "facts" /\ tx'[t].pc = "policy" /\ tx[t].op = "execute"
      BY <2>1, <2>2, OthersKeepPolicies DEF PolicyFacts
    <2>3. CASE /\ tx[t].pc = "check" /\ tx[t].op = "execute" /\ tx'[t] = [tx[t] EXCEPT !.pc = "holds", !.from = clock]
               /\ \E p \in policies : Authorizes(p, tx[t].cat, clock, tx[t].act, tx[t].anchor)
      <3>1. /\ tx'[t].pc = "holds" /\ tx'[t].from = clock /\ tx'[t].cat = tx[t].cat /\ tx'[t].act = tx[t].act
            /\ tx'[t].anchor = tx[t].anchor
        BY <1>1, <2>3 DEF Command
      <3>2. clock <= clock  BY BoundsArePositive DEF GovernanceInv, TypeOK, Time
      <3>3. Justified(policies, tx[t].cat, clock, tx[t].act, tx[t].anchor)
        BY <2>3 DEF Authorizes, Justified
      <3>4. PolicyFacts(t)'  BY <2>1, <2>3, <3>1, <3>2, <3>3 DEF PolicyFacts
      <3>. QED BY <2>1, <3>4, OthersKeepPolicies
    <2>4. CASE /\ tx[t].pc = "check" /\ tx[t].op = "replace"
               /\ \E p \in policies : Replaceable(t, p) /\ tx'[t] = [tx[t] EXCEPT !.pc = "commit", !.until = p.until]
      <3>1. PICK p \in policies : Replaceable(t, p) /\ tx'[t] = [tx[t] EXCEPT !.pc = "commit", !.until = p.until]
        BY <2>4
      <3>2. /\ tx'[t].until = p.until /\ tx'[t].from = tx[t].from /\ tx'[t].cat = tx[t].cat
            /\ tx'[t].act = tx[t].act /\ tx'[t].days = tx[t].days
        BY <1>1, <3>1 DEF Command
      <3>3. Replaced(t, p)'  BY <3>1, <3>2 DEF Replaced, Replaceable
      <3>4. clock \in Int /\ tx[t].from \in Int /\ clock < tx[t].from
        BY <1>1, <3>1, BoundsArePositive DEF GovernanceInv, TypeOK, Time, Command, Replaceable
      <3>5. \A r \in Records : decided[r].at < tx[t].from
        <4>1. ASSUME NEW r \in Records PROVE decided[r].at < tx[t].from
          <5>1. decided[r].at \in Int /\ decided[r].at <= clock
            BY BoundsArePositive DEF GovernanceInv, TypeOK, Decision, Time, PolicyInv, DecidedBefore
          <5>. QED BY <3>4, <5>1
        <4>. QED BY <4>1
      <3>6. PolicyFacts(t)'  BY <2>1, <2>4, <3>2, <3>3, <3>5 DEF PolicyFacts
      <3>. QED BY <2>1, <3>6, OthersKeepPolicies
    <2>5. CASE /\ tx[t].pc = IF tx[t].op = "execute" THEN "holds" ELSE "check"
               /\ tx[t].op # "replace"
               /\ tx[t].op = "set" => Insertable(t)
               /\ tx'[t] = [tx[t] EXCEPT !.pc = "commit"]
      <3>1. /\ tx'[t].until = tx[t].until /\ tx'[t].from = tx[t].from /\ tx'[t].cat = tx[t].cat
            /\ tx'[t].act = tx[t].act /\ tx'[t].days = tx[t].days /\ tx'[t].anchor = tx[t].anchor
        BY <1>1, <2>5 DEF Command
      <3>2. tx[t].op = "set" => Insertable(t)'  BY <2>1, <2>5, <3>1 DEF Insertable, Draft
      <3>3. PolicyFacts(t)'  BY <1>1, <2>1, <2>5, <3>1, <3>2 DEF PolicyFacts
      <3>. QED BY <2>1, <3>3, OthersKeepPolicies
    <2>. QED BY <2>1, <2>2, <2>3, <2>4, <2>5 DEF Moves
  <1>. QED BY <1>2, <1>3, <1>4, <1>5

\* Commits.
LEMMA CommitsKeepPolicies ==
    ASSUME GovernanceInv, LockInv, PolicyInv, NEW t \in Tx, Commits(t)
    PROVE  PolicyInv'
  <1>1. /\ tx'[t] = Idle /\ clock' = clock
        /\ \A u \in Tx : u # t => tx'[u] = tx[u]
    BY EndEffect
  <1>2. PolicyFacts(t)'  BY <1>1 DEF PolicyFacts, Idle
  <1>3. tx[t] \in Command /\ Shape(t) /\ Inputs(t) /\ PolicyFacts(t)
    BY DEF GovernanceInv, ControlInv, TypeOK, PolicyInv
  <1>4. \A r \in Records : /\ decided[r].at \in Int /\ decided[r].anchor \in Int /\ decided[r].at <= clock
    BY BoundsArePositive DEF GovernanceInv, TypeOK, Decision, Time, PolicyInv, DecidedBefore
  <1>5. CASE CommitSet(t) \/ CommitReplace(t)
    <2>1. UNCHANGED decided /\ tx[t].op \in {"set", "replace"} /\ tx[t].pc = "commit"
      BY <1>5 DEF CommitSet, CommitReplace, CommitOf
    <2>2. /\ RowsApart'
          /\ \A p \in policies : p.cat # tx[t].cat => p \in policies'
          /\ \A p \in policies' : p.cat # tx[t].cat => p \in policies
          /\ \A c, a : \A i, anchor \in Int :
               Justified(policies, c, i, a, anchor) /\ (tx[t].op = "replace" /\ c = tx[t].cat => i < tx[t].from)
                   => Justified(policies', c, i, a, anchor)
      <3>1. CASE CommitSet(t)  BY <1>3, <3>1, SetEffect DEF PolicyInv
      <3>2. CASE CommitReplace(t)
        <4>1. tx[t].op = "replace"  BY <3>2 DEF CommitReplace, CommitOf
        <4>. QED BY <1>3, <3>2, <4>1, ReplaceKeeps DEF PolicyInv
      <3>. QED BY <1>5, <3>1, <3>2
    <2>3. ASSUME NEW u \in Tx, u # t
          PROVE  PolicyFacts(u)'
      <3>1. tx'[u] = tx[u] /\ PolicyFacts(u) /\ tx[u] \in Command
        BY <1>1, <2>3 DEF PolicyInv, GovernanceInv, TypeOK
      <3>2. InsidePolicy(u) => tx[u].cat # tx[t].cat
        BY <2>1, <2>3, OneInsidePolicy DEF InsidePolicy
      <3>3. ASSUME tx[u].op = "set", tx[u].pc = "commit"
            PROVE  Insertable(u)'
        <4>1. tx[u].cat # tx[t].cat /\ Insertable(u)
          BY <3>1, <3>2, <3>3 DEF InsidePolicy, PolicyFacts
        <4>. QED BY <2>2, <3>1, <4>1 DEF Insertable, Draft, Overlaps
      <3>4. ASSUME tx[u].op = "replace", tx[u].pc = "commit"
            PROVE  /\ \E p \in policies' : Replaced(u, p)'
                   /\ \A r \in Records : Destroyed(r)' /\ decided'[r].cat = tx[u].cat => decided'[r].at < tx[u].from
        <4>1. tx[u].cat # tx[t].cat  BY <3>2, <3>4 DEF InsidePolicy
        <4>2. PICK p \in policies : Replaced(u, p)  BY <3>1, <3>4 DEF PolicyFacts
        <4>3. p \in policies' /\ Replaced(u, p)'  BY <2>2, <3>1, <4>1, <4>2 DEF Replaced
        <4>. QED BY <2>1, <3>1, <3>4, <4>3 DEF PolicyFacts, Destroyed
      <3>5. ASSUME tx[u].op = "execute", tx[u].pc \in {"holds", "commit"}
            PROVE  Justified(policies', tx[u].cat, tx[u].from, tx[u].act, tx[u].anchor)
        <4>1. tx[u].cat # tx[t].cat /\ Justified(policies, tx[u].cat, tx[u].from, tx[u].act, tx[u].anchor)
          BY <3>1, <3>2, <3>5 DEF InsidePolicy, PolicyFacts
        <4>2. tx[u].from \in Int /\ tx[u].anchor \in Int
          BY <3>1, BoundsArePositive DEF Command, Time
        <4>. QED BY <2>2, <4>1, <4>2
      <3>. QED BY <1>1, <3>1, <3>3, <3>4, <3>5 DEF PolicyFacts
    <2>4. DecidedBefore'  BY <1>1, <2>1 DEF PolicyInv, DecidedBefore
    <2>5. DecisionsStayJustified'
      <3>1. ASSUME NEW r \in Records, Destroyed(r)
            PROVE  Justified(policies', decided[r].cat, decided[r].at, decided[r].act, decided[r].anchor)
        <4>1. Justified(policies, decided[r].cat, decided[r].at, decided[r].act, decided[r].anchor)
          BY <3>1, DecisionsJustified DEF PolicyInv
        <4>2. tx[t].op = "replace" /\ decided[r].cat = tx[t].cat => decided[r].at < tx[t].from
          BY <1>3, <2>1, <3>1 DEF PolicyFacts
        <4>. QED BY <1>4, <2>2, <4>1, <4>2
      <3>. QED BY <2>1, <3>1 DEF DecisionsStayJustified, Destroyed, Authorizes, Justified
    <2>. QED BY <1>2, <2>2, <2>3, <2>4, <2>5 DEF PolicyInv
  <1>6. CASE CommitExecute(t)
    <2>1. /\ tx[t].op = "execute" /\ tx[t].pc = "commit" /\ tx[t].rec \in Records /\ UNCHANGED policies
          /\ decided' = [decided EXCEPT ![tx[t].rec] =
                [at |-> tx[t].from, act |-> tx[t].act, cat |-> tx[t].cat, anchor |-> tx[t].anchor]]
      BY <1>3, <1>6 DEF CommitExecute, CommitOf, Inputs
    <2>2. /\ decided'[tx[t].rec] = [at |-> tx[t].from, act |-> tx[t].act, cat |-> tx[t].cat, anchor |-> tx[t].anchor]
          /\ \A r \in Records : r # tx[t].rec => decided'[r] = decided[r]
      BY <2>1 DEF GovernanceInv, TypeOK
    <2>3. ASSUME NEW u \in Tx, u # t
          PROVE  PolicyFacts(u)'
      <3>1. tx'[u] = tx[u] /\ PolicyFacts(u)  BY <1>1, <2>3 DEF PolicyInv
      <3>2. ASSUME tx[u].op = "replace", tx[u].pc = "commit",
                   NEW r \in Records, Destroyed(r)', decided'[r].cat = tx[u].cat
            PROVE  decided'[r].at < tx[u].from
        <4>1. tx[u].cat # tx[t].cat  BY <2>1, <2>3, <3>2, OneInsidePolicy DEF InsidePolicy
        <4>2. r # tx[t].rec  BY <2>2, <3>2, <4>1
        <4>. QED BY <2>2, <3>1, <3>2, <4>2 DEF PolicyFacts, Destroyed
      <3>. QED BY <1>1, <2>1, <3>1, <3>2 DEF PolicyFacts, Insertable, Draft, Replaced
    <2>4. RowsApart'  BY <2>1 DEF PolicyInv, RowsApart
    <2>5. DecidedBefore'  BY <1>1, <1>3, <2>1, <2>2 DEF PolicyInv, DecidedBefore, PolicyFacts
    <2>6. DecisionsStayJustified'
      <3>1. ASSUME NEW r \in Records, Destroyed(r)'
            PROVE  Justified(policies, decided'[r].cat, decided'[r].at, decided'[r].act, decided'[r].anchor)
        <4>1. CASE r = tx[t].rec  BY <1>3, <2>1, <2>2, <4>1 DEF PolicyFacts
        <4>2. CASE r # tx[t].rec
          BY <2>2, <3>1, <4>2, DecisionsJustified DEF PolicyInv, Destroyed
        <4>. QED BY <4>1, <4>2
      <3>. QED BY <2>1, <3>1 DEF DecisionsStayJustified, Authorizes, Justified
    <2>. QED BY <1>2, <2>3, <2>4, <2>5, <2>6 DEF PolicyInv
  <1>7. CASE CommitPlace(t) \/ CommitRelease(t) \/ CommitLegacyPlace(t) \/ CommitLegacyRelease(t) \/ CommitOwn(t)
    <2>1. UNCHANGED <<policies, decided>>
      BY <1>7 DEF CommitPlace, CommitRelease, CommitLegacyPlace, CommitLegacyRelease, CommitOwn
    <2>. QED BY <1>1, <1>2, <2>1, OthersKeepPolicies DEF PolicyInv
  <1>. QED BY <1>5, <1>6, <1>7 DEF Commits

\* The rows of the beginning are apart, and nothing is decided.
LEMMA InitPolicies == Init => PolicyInv
  <1>1. SUFFICES ASSUME Init PROVE PolicyInv  OBVIOUS
  <1>2. RowsApart
    <2>1. \A p \in policies : p \in Policy /\ p.from < p.until
      BY <1>1, OldPoliciesAreRows DEF Init
    <2>2. \A p \in policies : p.from \in Int /\ p.until \in Int
      BY <2>1, BoundsArePositive DEF Policy, Time, Forever
    <2>3. \A p, q \in policies : p.cat = q.cat /\ p # q => p.until <= q.from \/ q.until <= p.from
      BY <1>1, OldPoliciesDisjoint DEF Init
    <2>. QED BY <2>1, <2>2, <2>3 DEF RowsApart, Overlaps
  <1>3. DecidedBefore /\ DecisionsStayJustified
    BY <1>1 DEF Init, Undecided, DecidedBefore, DecisionsStayJustified, Destroyed
  <1>4. \A t \in Tx : PolicyFacts(t)  BY <1>1 DEF Init, Idle, PolicyFacts
  <1>. QED BY <1>2, <1>3, <1>4 DEF PolicyInv

\* Every step keeps the policies in order.
LEMMA NextPolicies == GovernanceInv /\ LockInv /\ PolicyInv /\ [Next]_vars => PolicyInv'
  <1>1. SUFFICES ASSUME GovernanceInv, LockInv, PolicyInv, [Next]_vars PROVE PolicyInv'
    OBVIOUS
  <1>2. CASE UNCHANGED vars \/ Tick
    <2>1. UNCHANGED <<policies, decided, tx>> /\ (clock' = clock \/ clock' = clock + 1)
      BY <1>2 DEF vars, Tick
    <2>2. \A i \in Int : i <= clock => i <= clock'
      BY <1>1, <2>1, BoundsArePositive DEF GovernanceInv, TypeOK, Time
    <2>3. ASSUME NEW t \in Tx
          PROVE  PolicyFacts(t)'
      <3>1. PolicyFacts(t) /\ tx[t].from \in Int
        BY <1>1, BoundsArePositive DEF PolicyInv, GovernanceInv, TypeOK, Command, Time
      <3>2. tx[t].from <= clock => tx[t].from <= clock'  BY <2>2, <3>1
      <3>. QED BY <2>1, <3>1, <3>2 DEF PolicyFacts, Insertable, Draft, Replaced, Destroyed
    <2>4. DecidedBefore'
      <3>1. ASSUME NEW r \in Records PROVE decided[r].at <= clock'
        <4>1. decided[r].at \in Int /\ decided[r].at <= clock
          BY <1>1, BoundsArePositive DEF GovernanceInv, TypeOK, Decision, Time, PolicyInv, DecidedBefore
        <4>. QED BY <2>2, <4>1
      <3>. QED BY <2>1, <3>1 DEF DecidedBefore
    <2>5. RowsApart' /\ DecisionsStayJustified'
      BY <1>1, <2>1 DEF PolicyInv, RowsApart, DecisionsStayJustified, Authorizes, Destroyed
    <2>. QED BY <2>3, <2>4, <2>5 DEF PolicyInv
  <1>3. ASSUME NEW t \in Tx, Begins(t) \/ Acquire(t) \/ TimesOut(t) \/ Dies(t) \/ Checks(t) \/ Commits(t)
        PROVE  PolicyInv'
    BY <1>1, <1>3, QuietKeepPolicies, CommitsKeepPolicies DEF TimesOut, Dies
  <1>. QED BY <1>1, <1>2, <1>3 DEF Next

\* At no instant two rows are in force.
LEMMA ApartIsDisjoint ==
    ASSUME GovernanceInv, RowsApart
    PROVE  PoliciesDisjoint
  <1>1. SUFFICES ASSUME NEW c \in Categories, NEW i \in Time PROVE Cardinality(Effective(policies, c, i)) <= 1
    BY DEF PoliciesDisjoint
  <1>2. ASSUME NEW p \in Effective(policies, c, i), NEW q \in Effective(policies, c, i)
        PROVE  p = q
    <2>1. /\ p \in policies /\ p.cat = c /\ p.from <= i /\ i < p.until
          /\ q \in policies /\ q.cat = c /\ q.from <= i /\ i < q.until
      BY DEF Effective
    <2>2. i \in Int /\ p.from \in Int /\ p.until \in Int /\ q.from \in Int /\ q.until \in Int
      BY <2>1, RowFacts, BoundsArePositive DEF Time
    <2>. QED BY <2>1, <2>2 DEF RowsApart, Overlaps
  <1>3. CASE Effective(policies, c, i) = {}  BY <1>3, FS_EmptySet
  <1>4. CASE Effective(policies, c, i) # {}
    <2>1. PICK p \in Effective(policies, c, i) : TRUE  BY <1>4
    <2>2. Effective(policies, c, i) = {p}  BY <1>2, <2>1
    <2>3. Cardinality({p}) = 1  BY FS_Singleton
    <2>. QED BY <2>2, <2>3
  <1>. QED BY <1>3, <1>4

\* For every number of commands, categories and records: at most one policy of
\* a category is in force, what set_policy and replace_policy do later never
\* takes the justification from a decision of execute, and no commands ever
\* wait for each other in a circle.
THEOREM PoliciesStaySound == Spec => []PoliciesSound
  <1>1. GovernanceInv /\ LockInv /\ PolicyInv => PoliciesSound
    BY ApartIsDisjoint, LocksNeverCircle DEF PoliciesSound, GovernanceInv, PolicyInv
  <1>. QED
    BY InitControl, NextControl, InitLocks, NextLocks, InitPolicies, NextPolicies, <1>1, PTL DEF Spec

\* For every number of commands: where a policy is in force, no command leaves
\* a weaker one, or none, in force.
THEOREM OnlyEverStrengthened == Spec => OnlyStrengthened
  <1>. DEFINE Step == \A c \in Categories, i \in Time :
                \A p \in Effective(policies, c, i) :
                    \E q \in Effective(policies', c, i) : p.days <= q.days /\ p.act = q.act
  <1>1. GovernanceInv /\ PolicyInv /\ [Next]_vars => [Step]_vars
    <2>1. SUFFICES ASSUME GovernanceInv, PolicyInv, [Next]_vars,
                          NEW c \in Categories, NEW i \in Time, NEW p \in Effective(policies, c, i)
                   PROVE  \E q \in Effective(policies', c, i) : p.days <= q.days /\ p.act = q.act
      OBVIOUS
    <2>2. p \in policies /\ p.cat = c /\ p.from <= i /\ i < p.until  BY DEF Effective
    <2>3. p \in Policy /\ p.days \in Int /\ p.from \in Int /\ p.until \in Int /\ i \in Int
      BY <2>1, <2>2, RowFacts, BoundsArePositive DEF Time
    <2>4. p.days <= p.days  BY <2>3
    <2>5. CASE p \in policies'
      <3>1. p \in Effective(policies', c, i)  BY <2>2, <2>5 DEF Effective
      <3>. QED BY <2>4, <3>1
    <2>6. CASE p \notin policies'
      <3>1. PICK t \in Tx : CommitReplace(t)
        <4>1. PICK t \in Tx : Begins(t) \/ Acquire(t) \/ TimesOut(t) \/ Dies(t) \/ Checks(t) \/ Commits(t)
          BY <2>1, <2>2, <2>6 DEF Next, vars, Tick
        <4>2. ~Begins(t) /\ ~Acquire(t) /\ ~TimesOut(t) /\ ~Dies(t) /\ ~Checks(t)
          BY <2>1, <2>2, <2>6, BeginEffect, ChecksEffect DEF Acquire, TimesOut, Dies, Rollback
        <4>3. ~CommitSet(t)  BY <2>2, <2>6 DEF CommitSet
        <4>. QED
          BY <2>2, <2>6, <4>1, <4>2, <4>3 DEF Commits, CommitPlace, CommitRelease, CommitExecute,
                CommitLegacyPlace, CommitLegacyRelease, CommitOwn
      <3>2. PolicyFacts(t) /\ RowsApart  BY <2>1 DEF PolicyInv
      <3>3. PICK old \in policies :
                /\ Replaced(t, old)
                /\ policies' = (policies \ {old}) \cup {[old EXCEPT !.until = tx[t].from], Draft(t)}
        BY <2>1, <3>1, <3>2, ReplaceEffect
      <3>4. p = old  BY <2>2, <2>6, <3>3
      <3>5. tx[t].from \in Int /\ tx[t].cat = c /\ p.until = tx[t].until /\ p.days <= tx[t].days /\ p.act = tx[t].act
        BY <2>1, <2>2, <3>3, <3>4, BoundsArePositive DEF GovernanceInv, TypeOK, Command, Time, Replaced
      <3>6. CASE i < tx[t].from
        <4>. DEFINE k == [p EXCEPT !.until = tx[t].from]
        <4>1. k.cat = p.cat /\ k.from = p.from /\ k.until = tx[t].from /\ k.days = p.days /\ k.act = p.act
          BY <2>3 DEF Policy
        <4>2. k \in policies'  BY <3>3, <3>4
        <4>. HIDE DEF k
        <4>3. k \in Effective(policies', c, i)  BY <2>2, <3>6, <4>1, <4>2 DEF Effective
        <4>. QED BY <2>4, <4>1, <4>3
      <3>7. CASE tx[t].from <= i
        <4>. DEFINE d == Draft(t)
        <4>1. d.cat = c /\ d.from = tx[t].from /\ d.until = p.until /\ d.days = tx[t].days /\ d.act = tx[t].act
          BY <3>5 DEF Draft
        <4>2. d \in policies'  BY <3>3
        <4>. HIDE DEF d
        <4>3. d \in Effective(policies', c, i)  BY <2>2, <3>7, <4>1, <4>2 DEF Effective
        <4>. QED BY <3>5, <4>1, <4>3
      <3>. QED BY <2>3, <3>5, <3>6, <3>7
    <2>. QED BY <2>5, <2>6
  <1>2. OnlyStrengthened <=> [][Step]_vars  BY DEF OnlyStrengthened
  <1>. HIDE DEF Step
  <1>. QED
    BY InitControl, NextControl, InitLocks, NextLocks, InitPolicies, NextPolicies, <1>1, <1>2, PTL DEF Spec

=============================================================================
