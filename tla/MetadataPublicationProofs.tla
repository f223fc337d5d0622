---------------------- MODULE MetadataPublicationProofs -----------------------
(***************************************************************************)
(* For every set of sessions, processes and modules: the fence is exact,   *)
(* and a revision becomes active only as its publisher was shown it.       *)
(*                                                                         *)
(* The argument rests on the locks.  Who moves a pin of a module, and who  *)
(* changes its identity, holds its row in a mode that excludes the other;  *)
(* a definition command learned from an unlocked read which rows those     *)
(* are, and the active generation it compares tells it that they still     *)
(* are the ones it locked.                                                 *)
(***************************************************************************)
EXTENDS MetadataPublication, FiniteSetTheorems, SequenceTheorems, TLAPS

Id == (Artifacts \cup {None}) \X Nat
Pinnings == UNION {[S -> Id] : S \in SUBSET Modules}
Modes == {"none", "key share", "no key update", "update"}
PinOps == DefinitionOps \ {"edit"}
CommandPcs == {"expecting", "locking", "locked", "served"}
ActivationPcs == {"reading", "writing", "activating", "publishing"}
TxFields == {"op", "pc", "draft_generation", "active", "active_generation", "ids", "target",
             "src", "todo", "held"}

\* A transaction: its fields,
TxType(x) ==
    /\ DOMAIN x = TxFields
    /\ x.active_generation \in Nat
    /\ x.ids \in Pinnings /\ x.src \in Pinnings
    /\ x.todo \subseteq Modules
    /\ DOMAIN x.held = Modules /\ \A m \in Modules : x.held[m] \in Modes

\* its place in the protocol,
TxPlace(x) ==
    /\ \/ x.op = "none" /\ x.pc = "idle"
       \/ x.op = "activate" /\ x.pc \in ActivationPcs
       \/ x.op \in DefinitionOps /\ x.pc \in {"expecting", "locking", "locked"}
       \/ x.op \in UIOps /\ x.pc \in CommandPcs
    /\ x.pc = "served" => x.op \in {"read_ui", "resolve_ui"}
    /\ x.pc \in {"locked", "served"} => x.todo = {}
    /\ x.op = "activate" => x.target \in Modules /\ x.target \in DOMAIN x.src

\* and the rows it has locked: those it reached, in the mode of its operation.
Covers(x, S) == \A m \in S : m \in x.todo \/ x.held[m] # "none"

TxLocks(x) ==
    /\ x.pc \in CommandPcs => \A m \in Modules : x.held[m] \in {"none", ModuleMode(x.op)}
    /\ x.op = "activate" => \A m \in Modules \ {x.target} : x.held[m] = "none"
    /\ x.pc \in {"locking", "locked", "served"} /\ x.op \in UIOps => Covers(x, DOMAIN x.src)
    /\ x.pc \in {"locking", "locked"} /\ x.op \in PinOps => Covers(x, DOMAIN x.ids)

OwnInv(x) == TxType(x) /\ TxPlace(x) /\ TxLocks(x)

DefinitionPins == Pins(revisions, definition.active)
OverlayPins == Pins(ui_revisions, overlay.active)

\* What a definition command covers is what is pinned, if the active generation is still
\* the one it was shown.
ShownInv(x) ==
    x.op \in PinOps =>
        /\ x.active_generation <= definition.active_generation
        /\ (x.pc \in {"locking", "locked"} /\ x.active_generation = definition.active_generation)
             => Covers(x, DOMAIN DefinitionPins)

TargetInv(x) ==
    /\ x.op = "reactivate" => x.target \in 1 .. Len(revisions)
    /\ x.op = "reactivate_ui" => x.target \in 1 .. Len(ui_revisions)

\* An activation in its unit has locked the row, and changes its identity only if nothing
\* pins it.
ActivatingInv(x) ==
    x.pc = "activating" =>
        /\ x.held[x.target] # "none"
        /\ \/ x.src[x.target] = Identity(x.target)
           \/ /\ x.held[x.target] = "update"
              /\ module_fence[x.target].active_bindings = 0

ServedInv(x) ==
    x.pc = "served" =>
        /\ \A m \in DOMAIN x.src : Identity(m) = x.src[m]
        /\ x.active = overlay.active
        /\ x.op = "resolve_ui" /\ x.active # 0 => ui_revisions[x.active] = x.src

TxInv(s) ==
    /\ OwnInv(tx[s]) /\ ShownInv(tx[s]) /\ TargetInv(tx[s])
    /\ ActivatingInv(tx[s]) /\ ServedInv(tx[s])

\* Locks that are held together are compatible.
RowsApart(x, y) ==
    /\ \A m \in Modules : ~Conflict(x.held[m], y.held[m])
    /\ (x.pc \in {"locked", "served"} /\ y.pc \in {"locked", "served"} /\ SameRow(x.op, y.op))
         => RowMode(x.op) = "shared" /\ RowMode(y.op) = "shared"

LocksInv == \A s, t \in Sessions : s # t => RowsApart(tx[s], tx[t])

FenceType ==
    /\ DOMAIN module_fence = Modules
    /\ \A m \in Modules :
         module_fence[m] \in [artifact : Artifacts \cup {None}, generation : Nat,
                              active_bindings : Nat]

ObjectInv(o, history) ==
    /\ DOMAIN o = {"lifecycle", "draft_generation", "draft", "active", "active_generation"}
    /\ o.lifecycle \in {"none", "draft", "published", "retired"}
    /\ o.lifecycle = "published" <=> o.active # 0
    /\ o.active \in 0 .. Len(history)
    /\ o.active_generation \in Nat
    /\ o.lifecycle = "none" => o.active_generation = 0
    /\ DOMAIN o.draft \subseteq Modules
    /\ history \in Seq(Pinnings)

\* Active pins are durable identities, and they are counted.
Counts(m, pins) == IF m \in DOMAIN pins THEN 1 ELSE 0

PinsInv ==
    /\ \A m \in DOMAIN DefinitionPins : DefinitionPins[m] = Identity(m)
    /\ \A m \in DOMAIN OverlayPins : OverlayPins[m] = Identity(m)
    /\ \A m \in Modules : module_fence[m].active_bindings =
                            Counts(m, DefinitionPins) + Counts(m, OverlayPins)

StoreInv ==
    /\ FenceType
    /\ ObjectInv(definition, revisions) /\ ObjectInv(overlay, ui_revisions)
    /\ PinsInv

AdmittedType ==
    /\ DOMAIN admitted = Processes
    /\ \A p \in Processes :
         DOMAIN admitted[p] = Modules /\ \A m \in Modules : admitted[p][m] \in Id \cup {None}

LeftType == DOMAIN left = Sessions /\ \A s \in Sessions : left[s] \in 0 .. MaxCommands[s]

\* The inductive invariant
FenceInv ==
    /\ StoreInv /\ AdmittedType /\ LeftType
    /\ DOMAIN tx = Sessions /\ LocksInv
    /\ \A s \in Sessions : TxInv(s)

-----------------------------------------------------------------------------
(* What the operators of the model return.                                   *)

LEMMA PinningFacts ==
  ASSUME NEW f \in Pinnings
  PROVE  DOMAIN f \subseteq Modules /\ \A m \in DOMAIN f : f[m] \in Id
  BY DEF Pinnings

LEMMA PinningIntro ==
  ASSUME NEW S \in SUBSET Modules, NEW f \in [S -> Id]
  PROVE  f \in Pinnings
  BY DEF Pinnings

LEMMA EmptyPinning == EmptyMap \in Pinnings /\ DOMAIN EmptyMap = {}
  <1>1. EmptyMap \in [{} -> Id]  BY DEF EmptyMap
  <1> QED BY <1>1, PinningIntro DEF EmptyMap

LEMMA IdentityType ==
  ASSUME FenceType, NEW m \in Modules
  PROVE  Identity(m) \in Id
  BY DEF FenceType, Identity, Id

LEMMA IdsPinning ==
  ASSUME FenceType, NEW S \in SUBSET Modules
  PROVE  /\ Ids(S) \in Pinnings /\ DOMAIN Ids(S) = S
         /\ \A m \in S : Ids(S)[m] = Identity(m)
  <1>1. Ids(S) \in [S -> Id]  BY IdentityType DEF Ids
  <1> QED BY <1>1, PinningIntro DEF Ids

LEMMA SourcesPinning ==
  ASSUME AdmittedType, NEW p \in Processes
  PROVE  Sources(p) \in Pinnings /\ DOMAIN Sources(p) \subseteq Modules
  <1> DEFINE S == {n \in Modules : admitted[p][n] # None}
  <1>1. Sources(p) \in [S -> Id]  BY DEF Sources, AdmittedType
  <1>2. S \in SUBSET Modules  OBVIOUS
  <1>3. Sources(p) \in Pinnings
    <2> HIDE DEF S
    <2> QED BY <1>1, <1>2, PinningIntro
  <1> QED BY <1>3, PinningFacts

LEMMA SinglePinning ==
  ASSUME NEW m \in Modules, NEW v \in Id
  PROVE  /\ [x \in {m} |-> v] \in Pinnings /\ DOMAIN [x \in {m} |-> v] = {m}
         /\ [x \in {m} |-> v][m] = v
  <1>1. [x \in {m} |-> v] \in [{m} -> Id] /\ {m} \in SUBSET Modules  OBVIOUS
  <1>2. [x \in {m} |-> v] \in Pinnings  BY <1>1, PinningIntro
  <1> QED BY <1>2

LEMMA PinsFacts ==
  ASSUME NEW o, NEW history, ObjectInv(o, history)
  PROVE  Pins(history, o.active) \in Pinnings
  <1>1. CASE o.active = 0  BY <1>1, EmptyPinning DEF Pins
  <1>2. CASE o.active # 0
    <2>1. o.active \in 1 .. Len(history) /\ history \in Seq(Pinnings)  BY <1>2 DEF ObjectInv
    <2> QED BY <2>1, <1>2 DEF Pins
  <1> QED BY <1>1, <1>2

LEMMA AppendFacts ==
  ASSUME NEW S, NEW h \in Seq(S), NEW x \in S
  PROVE  /\ Append(h, x) \in Seq(S) /\ Len(Append(h, x)) = Len(h) + 1
         /\ \A i \in 1 .. Len(h) : Append(h, x)[i] = h[i]
         /\ Append(h, x)[Len(h) + 1] = x
         /\ SubSeq(Append(h, x), 1, Len(h)) = h
         /\ SubSeq(h, 1, Len(h)) = h
         /\ Len(h) \in Nat
  <1>1. /\ Append(h, x) \in Seq(S) /\ Len(Append(h, x)) = Len(h) + 1
        /\ \A i \in 1 .. Len(h) : Append(h, x)[i] = h[i]
        /\ Append(h, x)[Len(h) + 1] = x
        /\ Len(h) \in Nat
    OBVIOUS
  <1>2. SubSeq(h, 1, Len(h)) = h  OBVIOUS
  <1>3. SubSeq(Append(h, x), 1, Len(h)) = h
    <2> DEFINE g == SubSeq(Append(h, x), 1, Len(h))
    <2>1. 1 \in 1 .. Len(Append(h, x)) + 1 /\ Len(h) \in 1 - 1 .. Len(Append(h, x))  BY <1>1
    <2>2. g \in Seq(S) /\ Len(g) = Len(h)
          /\ \A i \in 1 .. Len(h) : g[i] = Append(h, x)[i]
      BY <1>1, <2>1
    <2>3. \A i \in 1 .. Len(h) : g[i] = h[i]  BY <2>2, <1>1
    <2> QED
      <3> HIDE DEF g
      <3> QED BY <2>2, <2>3, SeqEqual
  <1> QED BY <1>1, <1>2, <1>3

\* A module counts the active revisions that pin it.
LEMMA TwoPinnings ==
  ASSUME NEW m, NEW x, NEW y
  PROVE  Cardinality({i \in DOMAIN <<x, y>> : m \in DOMAIN <<x, y>>[i]})
           = Counts(m, x) + Counts(m, y)
  <1> DEFINE S == {i \in DOMAIN <<x, y>> : m \in DOMAIN <<x, y>>[i]}
  <1>0. DOMAIN <<x, y>> = {1, 2} /\ <<x, y>>[1] = x /\ <<x, y>>[2] = y  OBVIOUS
  <1>s. /\ 1 \in S <=> m \in DOMAIN x
        /\ 2 \in S <=> m \in DOMAIN y
        /\ S \subseteq {1, 2}
    BY <1>0
  <1>c. Cardinality({}) = 0 /\ Cardinality({1}) = 1 /\ Cardinality({2}) = 1
        /\ Cardinality({1, 2}) = 2
    <2>1. Cardinality({}) = 0  BY FS_EmptySet
    <2>2. Cardinality({1}) = 1 /\ IsFiniteSet({1}) /\ Cardinality({2}) = 1  BY FS_Singleton
    <2>3. Cardinality({1} \cup {2}) = Cardinality({1}) + 1  BY <2>2, FS_AddElement
    <2>4. {1} \cup {2} = {1, 2}  OBVIOUS
    <2> QED BY <2>1, <2>2, <2>3, <2>4
  <1> HIDE DEF S
  <1>1. CASE m \in DOMAIN x /\ m \in DOMAIN y
    <2>1. S = {1, 2}  BY <1>1, <1>s
    <2> QED BY <2>1, <1>1, <1>c DEF S, Counts
  <1>2. CASE m \in DOMAIN x /\ m \notin DOMAIN y
    <2>1. S = {1}  BY <1>2, <1>s
    <2> QED BY <2>1, <1>2, <1>c DEF S, Counts
  <1>3. CASE m \notin DOMAIN x /\ m \in DOMAIN y
    <2>1. S = {2}  BY <1>3, <1>s
    <2> QED BY <2>1, <1>3, <1>c DEF S, Counts
  <1>4. CASE m \notin DOMAIN x /\ m \notin DOMAIN y
    <2>1. S = {}  BY <1>4, <1>s
    <2> QED BY <2>1, <1>4, <1>c DEF S, Counts
  <1> QED BY <1>1, <1>2, <1>3, <1>4

-----------------------------------------------------------------------------
(* Locks.                                                                    *)

LEMMA ApartSymmetric ==
  ASSUME NEW x, NEW y, RowsApart(x, y)
  PROVE  RowsApart(y, x)
  BY DEF RowsApart, Conflict, SameRow

\* Who takes no further lock stays apart.
LEMMA ApartKept ==
  ASSUME NEW x, NEW y, NEW z, RowsApart(x, z),
         \A m \in Modules : y.held[m] \in {"none", x.held[m]},
         y.pc \in {"locked", "served"} => x.pc \in {"locked", "served"} /\ y.op = x.op
  PROVE  RowsApart(y, z)
  BY DEF RowsApart, Conflict

LEMMA IdleInv ==
  /\ OwnInv(Idle) /\ ShownInv(Idle) /\ TargetInv(Idle) /\ ActivatingInv(Idle) /\ ServedInv(Idle)
  /\ (ShownInv(Idle) /\ TargetInv(Idle) /\ ActivatingInv(Idle) /\ ServedInv(Idle))'
  /\ \A z : RowsApart(Idle, z)
  <1>1. Idle.op = "none" /\ Idle.pc = "idle" /\ Idle.todo = {}
        /\ \A m \in Modules : Idle.held[m] = "none"
    BY DEF Idle, NoLocks
  <1>2. TxType(Idle)  BY EmptyPinning DEF TxType, Idle, NoLocks, TxFields, Modes
  <1>3. TxPlace(Idle) /\ TxLocks(Idle)
    BY <1>1 DEF TxPlace, TxLocks, CommandPcs, UIOps, PrivateUIOps, PinOps, DefinitionOps
  <1>4. ShownInv(Idle) /\ TargetInv(Idle) /\ ActivatingInv(Idle) /\ ServedInv(Idle)
    BY <1>1 DEF ShownInv, TargetInv, ActivatingInv, ServedInv, PinOps, DefinitionOps
  <1>5. (ShownInv(Idle) /\ TargetInv(Idle) /\ ActivatingInv(Idle) /\ ServedInv(Idle))'
    BY <1>1 DEF ShownInv, TargetInv, ActivatingInv, ServedInv, PinOps, DefinitionOps
  <1>6. \A z : RowsApart(Idle, z)  BY <1>1 DEF RowsApart, Conflict
  <1> QED BY <1>2, <1>3, <1>4, <1>5, <1>6 DEF OwnInv

-----------------------------------------------------------------------------
\* The invariant says what FenceSound says.
LEMMA InvImpliesSound == FenceInv => FenceSound
  <1> SUFFICES ASSUME FenceInv PROVE FenceSound  OBVIOUS
  <1>1. TypeOK
    <2>1. \A m \in Modules : module_fence[m].active_bindings \in Nat
      BY DEF FenceInv, StoreInv, FenceType
    <2>2. \A o \in {definition, overlay} :
              /\ o.lifecycle \in {"none", "draft", "published", "retired"}
              /\ o.lifecycle = "published" <=> o.active # 0
      BY DEF FenceInv, StoreInv, ObjectInv
    <2>3. \A s \in Sessions : left[s] \in 0 .. MaxCommands[s]  BY DEF FenceInv, LeftType
    <2> QED BY <2>1, <2>2, <2>3 DEF TypeOK
  <1>2. ActivePins = <<DefinitionPins, OverlayPins>>
    BY DEF ActivePins, DefinitionPins, OverlayPins
  <1>3. \A i \in DOMAIN ActivePins : \A m \in DOMAIN ActivePins[i] : ActivePins[i][m] = Identity(m)
    <2>1. DOMAIN ActivePins = {1, 2} /\ ActivePins[1] = DefinitionPins /\ ActivePins[2] = OverlayPins
      BY <1>2
    <2> QED BY <2>1 DEF FenceInv, StoreInv, PinsInv
  <1>4. \A m \in Modules : module_fence[m].active_bindings =
            Cardinality({i \in DOMAIN ActivePins : m \in DOMAIN ActivePins[i]})
    BY <1>2, TwoPinnings DEF FenceInv, StoreInv, PinsInv
  <1>5. ServedIsCompatible  BY DEF FenceInv, TxInv, ServedInv, ServedIsCompatible
  <1> QED BY <1>1, <1>3, <1>4, <1>5 DEF FenceSound

-----------------------------------------------------------------------------
LEMMA InitInv == Init => FenceInv
  <1> SUFFICES ASSUME Init PROVE FenceInv  OBVIOUS
  <1>1. PICK missing \in SUBSET Absent, starting \in SUBSET Newcomers, used \in BOOLEAN :
           LET present == Modules \ missing
               a == CHOOSE x \in Artifacts : TRUE IN
            /\ module_fence = [m \in Modules |->
                    IF m \in missing THEN [artifact |-> None, generation |-> 0, active_bindings |-> 0]
                    ELSE [artifact |-> a, generation |-> 1,
                          active_bindings |-> IF used THEN 2 ELSE 0]]
            /\ admitted = [p \in Processes |-> [m \in Modules |->
                    IF p \in starting \/ m \in missing THEN None ELSE <<a, 1>>]]
            /\ IF used THEN InUse([m \in present |-> <<a, 1>>]) ELSE Fresh
    BY DEF Init
  <1> DEFINE a == CHOOSE x \in Artifacts : TRUE
             present == Modules \ missing
             ids == [m \in present |-> <<a, 1>>]
             base == [m \in {Base} |-> ids[m]]
  <1>a. a \in Artifacts /\ <<a, 1>> \in Id  BY PublicationAssumption DEF Id
  <1>b. present \in SUBSET Modules /\ Base \in present /\ Base \in Modules
    BY PublicationAssumption
  <1>i. ids \in [present -> Id] /\ base \in [{Base} -> Id]  BY <1>a, <1>b
  <1>p. ids \in Pinnings /\ base \in Pinnings /\ DOMAIN ids = present
        /\ \A m \in present : ids[m] = <<a, 1>>
    BY <1>i, <1>b, PinningIntro
  <1>2. FenceType  BY <1>1, <1>a DEF FenceType
  <1>3. \A m \in present : Identity(m) = <<a, 1>>  BY <1>1 DEF Identity
  <1>4. AdmittedType  BY <1>1, <1>a DEF AdmittedType
  <1>5. LeftType  BY PublicationAssumption DEF Init, LeftType
  <1>6. ObjectInv(definition, revisions) /\ ObjectInv(overlay, ui_revisions) /\ PinsInv
    <2>1. CASE used
      <3>1. /\ revisions = <<base, ids>> /\ ui_revisions = <<ids>>
            /\ definition = [lifecycle |-> "published", draft_generation |-> 2,
                             draft |-> [m \in {Base} |-> None], active |-> 2, active_generation |-> 2]
            /\ overlay = [lifecycle |-> "published", draft_generation |-> 1, draft |-> ids,
                          active |-> 1, active_generation |-> 1]
        BY <1>1, <2>1 DEF InUse
      <3>2. \A m \in Modules : module_fence[m].active_bindings = IF m \in present THEN 2 ELSE 0
        BY <1>1, <2>1
      <3> HIDE DEF ids, base, present, a
      <3>3. /\ revisions \in Seq(Pinnings) /\ Len(revisions) = 2 /\ revisions[2] = ids
            /\ ui_revisions \in Seq(Pinnings) /\ Len(ui_revisions) = 1 /\ ui_revisions[1] = ids
        BY <3>1, <1>p
      <3>4. ObjectInv(definition, revisions)  BY <3>1, <3>3, <1>b DEF ObjectInv
      <3>5. ObjectInv(overlay, ui_revisions)  BY <3>1, <3>3, <1>b, <1>p DEF ObjectInv
      <3>6. DefinitionPins = ids /\ OverlayPins = ids
        BY <3>1, <3>3 DEF DefinitionPins, OverlayPins, Pins
      <3>7. PinsInv
        <4>1. \A m \in DOMAIN ids : ids[m] = Identity(m)  BY <1>p, <1>3
        <4>2. \A m \in Modules : module_fence[m].active_bindings = Counts(m, ids) + Counts(m, ids)
          BY <3>2, <1>p DEF Counts
        <4> QED BY <3>6, <4>1, <4>2 DEF PinsInv
      <3> QED BY <3>4, <3>5, <3>7
    <2>2. CASE ~used
      <3>1. definition = NoObject /\ revisions = <<>> /\ overlay = NoObject /\ ui_revisions = <<>>
        BY <1>1, <2>2 DEF Fresh
      <3>2. ObjectInv(definition, revisions) /\ ObjectInv(overlay, ui_revisions)
        BY <3>1, EmptyPinning DEF ObjectInv, NoObject
      <3>3. DefinitionPins = EmptyMap /\ OverlayPins = EmptyMap
        BY <3>1 DEF DefinitionPins, OverlayPins, Pins, NoObject
      <3>4. \A m \in Modules : module_fence[m].active_bindings = 0  BY <1>1, <2>2
      <3> QED BY <3>2, <3>3, <3>4, EmptyPinning DEF PinsInv, Counts
    <2> QED BY <2>1, <2>2
  <1>7. DOMAIN tx = Sessions /\ \A s \in Sessions : tx[s] = Idle  BY DEF Init
  <1> QED BY <1>2, <1>4, <1>5, <1>6, <1>7, IdleInv DEF FenceInv, StoreInv, LocksInv, TxInv

\* A step of one session: the others see it only through the store and the locks.
LEMMA Step ==
  ASSUME FenceInv, NEW s \in Sessions, NEW y,
         tx' = [tx EXCEPT ![s] = y],
         StoreInv', AdmittedType', LeftType',
         OwnInv(y), ShownInv(y)', TargetInv(y)', ActivatingInv(y)', ServedInv(y)',
         \A t \in Sessions \ {s} : RowsApart(y, tx[t]),
         \A t \in Sessions \ {s} :
            (ShownInv(tx[t]) /\ TargetInv(tx[t]) /\ ActivatingInv(tx[t]) /\ ServedInv(tx[t]))'
  PROVE  FenceInv'
  <1>1. DOMAIN tx = Sessions  BY DEF FenceInv
  <1>2. DOMAIN tx' = Sessions /\ tx'[s] = y /\ \A t \in Sessions \ {s} : tx'[t] = tx[t]
    BY <1>1
  <1>3. \A t \in Sessions \ {s} : OwnInv(tx[t])  BY DEF FenceInv, TxInv
  <1>4. TxInv(s)'  BY <1>2 DEF TxInv
  <1>5. \A t \in Sessions \ {s} : TxInv(t)'  BY <1>2, <1>3 DEF TxInv
  <1>6. LocksInv'
    <2> SUFFICES ASSUME NEW t \in Sessions, NEW u \in Sessions, t # u
                 PROVE  RowsApart(tx'[t], tx'[u])
      BY DEF LocksInv
    <2>1. CASE t = s  BY <2>1, <1>2
    <2>2. CASE u = s
      <3>1. RowsApart(y, tx[t])  BY <2>2
      <3>2. RowsApart(tx[t], y)  BY <3>1, ApartSymmetric
      <3> QED BY <3>2, <2>2, <1>2
    <2>3. CASE t # s /\ u # s
      <3>1. RowsApart(tx[t], tx[u])  BY DEF FenceInv, LocksInv
      <3> QED BY <3>1, <2>3, <1>2
    <2> QED BY <2>1, <2>2, <2>3
  <1> QED BY <1>2, <1>4, <1>5, <1>6 DEF FenceInv

store == <<module_fence, definition, revisions, overlay, ui_revisions>>

\* A step that leaves the store alone
LEMMA QuietStep ==
  ASSUME FenceInv, NEW s \in Sessions, NEW y,
         tx' = [tx EXCEPT ![s] = y],
         UNCHANGED store, AdmittedType', LeftType',
         OwnInv(y), ShownInv(y), TargetInv(y), ActivatingInv(y), ServedInv(y),
         \A t \in Sessions \ {s} : RowsApart(y, tx[t])
  PROVE  FenceInv'
  <1>1. /\ module_fence' = module_fence /\ definition' = definition /\ revisions' = revisions
        /\ overlay' = overlay /\ ui_revisions' = ui_revisions
    BY DEF store
  <1>2. StoreInv'
    <2>1. StoreInv  BY DEF FenceInv
    <2> QED BY <2>1, <1>1 DEF StoreInv, FenceType, PinsInv, DefinitionPins, OverlayPins, Identity,
                              ObjectInv, Pins
  <1>3. \A m : Identity(m)' = Identity(m)  BY <1>1 DEF Identity
  <1>4. DefinitionPins' = DefinitionPins  BY <1>1 DEF DefinitionPins, Pins
  <1>5. ShownInv(y)' /\ TargetInv(y)' /\ ActivatingInv(y)' /\ ServedInv(y)'
    BY <1>1, <1>3, <1>4 DEF ShownInv, TargetInv, ActivatingInv, ServedInv
  <1>6. ASSUME NEW t \in Sessions \ {s}
        PROVE  (ShownInv(tx[t]) /\ TargetInv(tx[t]) /\ ActivatingInv(tx[t]) /\ ServedInv(tx[t]))'
    <2>1. tx'[t] = tx[t]  BY DEF FenceInv
    <2>2. ShownInv(tx[t]) /\ TargetInv(tx[t]) /\ ActivatingInv(tx[t]) /\ ServedInv(tx[t])
      BY DEF FenceInv, TxInv
    <2> QED BY <1>1, <1>3, <1>4, <2>1, <2>2 DEF ShownInv, TargetInv, ActivatingInv, ServedInv
  <1> QED BY <1>2, <1>5, <1>6, Step

\* A step that ends the transaction, or changes nothing of it
LEMMA QuietEnd ==
  ASSUME FenceInv, NEW s \in Sessions, End(s), UNCHANGED store, AdmittedType', LeftType'
  PROVE  FenceInv'
  BY IdleInv, QuietStep DEF End

LEMMA Unmoved ==
  ASSUME FenceInv, UNCHANGED <<admitted, left>>
  PROVE  AdmittedType' /\ LeftType'
  BY DEF FenceInv, AdmittedType, LeftType

LEMMA SpendTypes ==
  ASSUME FenceInv, NEW s \in Sessions, Spend(s)
  PROVE  LeftType'
  <1>1. /\ DOMAIN left = Sessions /\ \A t \in Sessions : left[t] \in 0 .. MaxCommands[t]
        /\ left[s] > 0 /\ left' = [left EXCEPT ![s] = left[s] - 1]
    BY DEF FenceInv, LeftType, Spend
  <1>2. \A t \in Sessions : MaxCommands[t] \in Nat  BY PublicationAssumption
  <1>3. left[s] - 1 \in 0 .. MaxCommands[s]  BY <1>1, <1>2
  <1>4. DOMAIN left' = Sessions /\ \A t \in Sessions : left'[t] = IF t = s THEN left[s] - 1 ELSE left[t]
    BY <1>1
  <1> QED BY <1>1, <1>3, <1>4 DEF LeftType

\* A session that holds nothing is apart from everybody.
LEMMA FreeApart ==
  ASSUME NEW y, NEW z, \A m \in Modules : y.held[m] = "none", y.pc \notin {"locked", "served"}
  PROVE  RowsApart(y, z)
  BY DEF RowsApart, Conflict

LEMMA Others ==
  ASSUME FenceInv, NEW s \in Sessions, NEW t \in Sessions \ {s}
  PROVE  RowsApart(tx[s], tx[t]) /\ TxInv(s) /\ TxInv(t)
  BY DEF FenceInv, LocksInv

-----------------------------------------------------------------------------
(* Steps that take locks, and other steps that leave the store alone.        *)

LEMMA DefinitionPinned ==
  ASSUME FenceInv
  PROVE  /\ DefinitionPins \in Pinnings /\ DOMAIN DefinitionPins \subseteq Modules
         /\ OverlayPins \in Pinnings /\ DOMAIN OverlayPins \subseteq Modules
  <1>1. DefinitionPins \in Pinnings /\ OverlayPins \in Pinnings
    BY PinsFacts DEF FenceInv, StoreInv, DefinitionPins, OverlayPins
  <1> QED BY <1>1, PinningFacts

LEMMA ModuleModes == \A op : ModuleMode(op) \in Modes \ {"none"}
  BY DEF ModuleMode, Modes

LEMMA LockModuleInv ==
  ASSUME FenceInv, NEW s \in Sessions, LockModule(s)
  PROVE  FenceInv'
  <1> DEFINE x == tx[s]
  <1>1. PICK m \in Modules :
           /\ Compatible(s, m, ModuleMode(x.op))
           /\ tx' = [tx EXCEPT ![s].todo = @ \ {m}, ![s].held[m] = ModuleMode(x.op)]
    BY DEF LockModule
  <1> DEFINE y == [x EXCEPT !.todo = @ \ {m}, !.held[m] = ModuleMode(x.op)]
  <1>2. OwnInv(x) /\ ShownInv(x) /\ TargetInv(x) /\ x.pc = "locking"
    BY DEF FenceInv, TxInv, LockModule
  <1>3. tx' = [tx EXCEPT ![s] = y]  BY <1>1, <1>2 DEF FenceInv, OwnInv, TxType, TxFields
  <1>4. /\ y.op = x.op /\ y.pc = "locking" /\ y.todo = x.todo \ {m} /\ y.src = x.src
        /\ y.ids = x.ids /\ y.target = x.target /\ y.active_generation = x.active_generation
        /\ DOMAIN y.held = Modules /\ y.held[m] = ModuleMode(x.op)
        /\ \A n \in Modules \ {m} : y.held[n] = x.held[n]
    BY <1>2 DEF OwnInv, TxType, TxFields
  <1>5. TxType(y)
    <2>1. \A n \in Modules : y.held[n] \in Modes
      BY <1>2, <1>4, ModuleModes DEF OwnInv, TxType
    <2>2. DOMAIN y = TxFields  BY <1>2 DEF OwnInv, TxType
    <2> HIDE DEF y, x
    <2> QED BY <1>2, <1>4, <2>1, <2>2 DEF OwnInv, TxType
  <1> HIDE DEF y
  <1>6. TxPlace(y)
    BY <1>2, <1>4 DEF OwnInv, TxPlace, ActivationPcs, CommandPcs, UIOps, PrivateUIOps, DefinitionOps
  <1>7. \A S \in SUBSET Modules : Covers(x, S) => Covers(y, S)
    BY <1>4, ModuleModes DEF Covers
  <1>d. DOMAIN x.src \subseteq Modules /\ DOMAIN x.ids \subseteq Modules
        /\ DOMAIN DefinitionPins \subseteq Modules
    BY <1>2, DefinitionPinned, PinningFacts DEF OwnInv, TxType
  <1>8. x.op # "activate" /\ x.pc \in CommandPcs
    BY <1>2 DEF OwnInv, TxPlace, ActivationPcs, DefinitionOps, UIOps, PrivateUIOps, CommandPcs
  <1>9. TxLocks(y)  BY <1>2, <1>4, <1>7, <1>8, <1>d DEF OwnInv, TxLocks, CommandPcs
  <1>10. ShownInv(y) /\ TargetInv(y) /\ ActivatingInv(y) /\ ServedInv(y)
    BY <1>2, <1>4, <1>7, <1>d DEF ShownInv, TargetInv, ActivatingInv, ServedInv
  <1>11. ASSUME NEW t \in Sessions \ {s} PROVE RowsApart(y, tx[t])
    <2>1. RowsApart(x, tx[t])  BY Others
    <2>2. ~Conflict(ModuleMode(x.op), tx[t].held[m])  BY <1>1 DEF Compatible
    <2> QED BY <2>1, <2>2, <1>4 DEF RowsApart
  <1>12. UNCHANGED store /\ UNCHANGED <<admitted, left>>  BY DEF LockModule, store
  <1> QED BY <1>3, <1>5, <1>6, <1>9, <1>10, <1>11, <1>12, Unmoved, QuietStep DEF OwnInv

\* A transaction that only moves on to another place, with the locks it has
LEMMA MoveInv ==
  ASSUME FenceInv, NEW s \in Sessions, NEW pc, NEW active,
         tx' = [tx EXCEPT ![s].pc = pc, ![s].active = active],
         UNCHANGED store, UNCHANGED <<admitted, left>>,
         LET y == [tx[s] EXCEPT !.pc = pc, !.active = active] IN
            /\ TxPlace(y) /\ TxLocks(y) /\ ShownInv(y) /\ ActivatingInv(y) /\ ServedInv(y)
            /\ \A t \in Sessions \ {s} : RowsApart(y, tx[t])
  PROVE  FenceInv'
  <1> DEFINE x == tx[s]
             y == [x EXCEPT !.pc = pc, !.active = active]
  <1>1. TxType(x) /\ TargetInv(x)  BY DEF FenceInv, TxInv, OwnInv
  <1>2. tx' = [tx EXCEPT ![s] = y]  BY <1>1 DEF FenceInv, TxType, TxFields
  <1>3. TxType(y) /\ TargetInv(y)
    <2>1. y.op = x.op /\ y.target = x.target  BY <1>1 DEF TxType, TxFields
    <2>3. TxType(y)  BY <1>1 DEF TxType, TxFields
    <2> QED BY <2>1, <2>3, <1>1 DEF TargetInv
  <1>4. TxPlace(y) /\ TxLocks(y) /\ ShownInv(y) /\ ActivatingInv(y) /\ ServedInv(y)
        /\ \A t \in Sessions \ {s} : RowsApart(y, tx[t])
    OBVIOUS
  <1> HIDE DEF y
  <1> QED BY <1>2, <1>3, <1>4, Unmoved, QuietStep DEF OwnInv

LEMMA LockRowInv ==
  ASSUME FenceInv, NEW s \in Sessions, LockRow(s)
  PROVE  FenceInv'
  <1> DEFINE x == tx[s]
             y == [x EXCEPT !.pc = "locked", !.active = x.active]
  <1>1. OwnInv(x) /\ ShownInv(x) /\ x.pc = "locking" /\ x.todo = {} /\ RowFree(s)
    BY DEF FenceInv, TxInv, LockRow
  <1>2. tx' = [tx EXCEPT ![s].pc = "locked", ![s].active = x.active]
    BY <1>1 DEF LockRow, FenceInv, OwnInv, TxType, TxFields
  <1>3. /\ y.op = x.op /\ y.pc = "locked" /\ y.todo = {} /\ y.src = x.src /\ y.held = x.held
        /\ y.ids = x.ids /\ y.target = x.target /\ y.active_generation = x.active_generation
    BY <1>1 DEF OwnInv, TxType, TxFields
  <1> HIDE DEF y
  <1>4. TxPlace(y)
    BY <1>1, <1>3 DEF OwnInv, TxPlace, ActivationPcs, CommandPcs, UIOps, PrivateUIOps, DefinitionOps
  <1>5. x.op # "activate" /\ x.pc \in CommandPcs
    BY <1>1 DEF OwnInv, TxPlace, ActivationPcs, DefinitionOps, UIOps, PrivateUIOps, CommandPcs
  <1>6. TxLocks(y)  BY <1>1, <1>3, <1>5 DEF OwnInv, TxLocks, Covers, CommandPcs
  <1>7. ShownInv(y) /\ ActivatingInv(y) /\ ServedInv(y)
    BY <1>1, <1>3 DEF ShownInv, ActivatingInv, ServedInv, Covers
  <1>8. ASSUME NEW t \in Sessions \ {s} PROVE RowsApart(y, tx[t])
    <2>1. RowsApart(x, tx[t])  BY Others
    <2> QED BY <2>1, <1>1, <1>3 DEF RowsApart, RowFree
  <1> QED BY <1>2, <1>4, <1>6, <1>7, <1>8, MoveInv DEF LockRow, store, y

LEMMA EndingInv ==
  ASSUME FenceInv, NEW s \in Sessions,
         LockTimeout(s) \/ ActivationFails(s) \/ Complete(s) \/ Denied(s)
  PROVE  FenceInv'
  <1>1. End(s) /\ UNCHANGED store /\ UNCHANGED <<admitted, left>>
    BY DEF LockTimeout, ActivationFails, Complete, Denied, store
  <1> QED BY <1>1, Unmoved, QuietEnd

LEMMA ServeInv ==
  ASSUME FenceInv, NEW s \in Sessions, Serve(s)
  PROVE  FenceInv'
  <1> DEFINE x == tx[s]
             y == [x EXCEPT !.pc = "served", !.active = overlay.active]
  <1>0. UNCHANGED store /\ UNCHANGED <<admitted, left>>  BY DEF Serve, store
  <1>1. OwnInv(x) /\ ShownInv(x) /\ x.pc = "locked" /\ x.op \in {"resolve_ui", "read_ui"}
    BY DEF FenceInv, TxInv, Serve
  <1>2. CASE (x.op = "resolve_ui" /\ StillServable(s)) \/ (x.op = "read_ui" /\ CaptureMembers(s))
    <2>1. tx' = [tx EXCEPT ![s].pc = "served", ![s].active = overlay.active]
      BY <1>2 DEF Serve
    <2>2. /\ y.op = x.op /\ y.pc = "served" /\ y.todo = x.todo /\ y.src = x.src /\ y.held = x.held
          /\ y.ids = x.ids /\ y.target = x.target /\ y.active = overlay.active
      BY <1>1 DEF OwnInv, TxType, TxFields
    <2> HIDE DEF y
    <2>3. TxPlace(y)
      BY <1>1, <2>2 DEF OwnInv, TxPlace, ActivationPcs, CommandPcs, UIOps, PrivateUIOps, DefinitionOps
    <2>4. TxLocks(y)
      BY <1>1, <2>2 DEF OwnInv, TxLocks, Covers, CommandPcs, PinOps, DefinitionOps
    <2>5. ShownInv(y) /\ ActivatingInv(y)
      BY <1>1, <2>2 DEF ShownInv, ActivatingInv, PinOps, DefinitionOps
    <2>6. ServedInv(y)
      <3>1. \A m \in DOMAIN x.src : Identity(m) = x.src[m]
        BY <1>2 DEF StillServable, CaptureMembers
      <3>2. x.op = "resolve_ui" /\ overlay.active # 0 => ui_revisions[overlay.active] = x.src
        <4>1. overlay.lifecycle = "published" <=> overlay.active # 0
          BY DEF FenceInv, StoreInv, ObjectInv
        <4> QED BY <1>2, <4>1 DEF StillServable, Pins
      <3> QED BY <3>1, <3>2, <2>2 DEF ServedInv
    <2>7. ASSUME NEW t \in Sessions \ {s} PROVE RowsApart(y, tx[t])
      BY <1>1, <2>2, Others, ApartKept
    <2> QED BY <1>0, <2>1, <2>3, <2>4, <2>5, <2>6, <2>7, MoveInv DEF y
  <1>3. CASE ~((x.op = "resolve_ui" /\ StillServable(s)) \/ (x.op = "read_ui" /\ CaptureMembers(s)))
    <2>1. End(s)  BY <1>3 DEF Serve
    <2> QED BY <1>0, <2>1, Unmoved, QuietEnd
  <1> QED BY <1>2, <1>3

-----------------------------------------------------------------------------
(* A client is shown what it will be compared with; its command begins.      *)

LEMMA ExpectInv ==
  ASSUME FenceInv, NEW s \in Sessions, NEW op \in DefinitionOps \cup UIOps, NEW target, NEW object,
         NEW ids \in Pinnings, Expect(s, op, target, object, ids),
         object.active_generation \in Nat,
         op \in PinOps => object.active_generation <= definition.active_generation,
         op = "reactivate" => target \in 1 .. Len(revisions),
         op = "reactivate_ui" => target \in 1 .. Len(ui_revisions),
         UNCHANGED store, UNCHANGED admitted, Spend(s)
  PROVE  FenceInv'
  <1> DEFINE y == [Idle EXCEPT
              !.op = op, !.pc = "expecting", !.draft_generation = object.draft_generation,
              !.active = object.active, !.active_generation = object.active_generation,
              !.ids = ids, !.target = target]
  <1>1. tx' = [tx EXCEPT ![s] = y]  BY DEF Expect
  <1>2. /\ DOMAIN y = TxFields
        /\ y.op = op /\ y.pc = "expecting" /\ y.active_generation = object.active_generation
        /\ y.ids = ids /\ y.target = target /\ y.src = EmptyMap /\ y.todo = {} /\ y.held = NoLocks
    BY DEF Idle, TxFields
  <1> HIDE DEF y
  <1>3. DOMAIN NoLocks = Modules /\ \A m \in Modules : NoLocks[m] = "none"  BY DEF NoLocks
  <1>4. op # "none" /\ op # "activate"  BY DEF DefinitionOps, UIOps, PrivateUIOps
  <1>5. TxType(y)  BY <1>2, <1>3, EmptyPinning DEF TxType, Modes
  <1>6. TxPlace(y)  BY <1>2, <1>4 DEF TxPlace, CommandPcs, ActivationPcs
  <1>7. TxLocks(y)  BY <1>2, <1>3, <1>4 DEF TxLocks
  <1>8. ShownInv(y) /\ TargetInv(y) /\ ActivatingInv(y) /\ ServedInv(y)
    BY <1>2 DEF ShownInv, TargetInv, ActivatingInv, ServedInv
  <1>9. \A t \in Sessions \ {s} : RowsApart(y, tx[t])  BY <1>2, <1>3, FreeApart
  <1>10. AdmittedType' /\ LeftType'
    <2>1. AdmittedType  BY DEF FenceInv
    <2>2. AdmittedType'  BY <2>1 DEF AdmittedType
    <2> QED BY <2>2, SpendTypes
  <1> QED BY <1>1, <1>5, <1>6, <1>7, <1>8, <1>9, <1>10, QuietStep DEF OwnInv

LEMMA PreflightDefinitionInv ==
  ASSUME FenceInv, NEW s \in Sessions, PreflightDefinition(s)
  PROVE  FenceInv'
  <1>p. PICK op \in {"publish", "reactivate"} :
           \E target \in IF op = "publish" THEN {0} ELSE DOMAIN revisions :
             Expect(s, op, target, definition,
                    Ids(DOMAIN (IF target = 0 THEN definition.draft ELSE revisions[target])))
    BY DEF PreflightDefinition
  <1>1. PICK target \in IF op = "publish" THEN {0} ELSE DOMAIN revisions :
             Expect(s, op, target, definition,
                    Ids(DOMAIN (IF target = 0 THEN definition.draft ELSE revisions[target])))
    BY <1>p
  <1> DEFINE S == DOMAIN (IF target = 0 THEN definition.draft ELSE revisions[target])
  <1>2. ObjectInv(definition, revisions) /\ FenceType  BY DEF FenceInv, StoreInv
  <1>t. op # "publish" => target \in 1 .. Len(revisions)  BY <1>2 DEF ObjectInv
  <1>3. S \subseteq Modules
    <2>1. CASE target = 0  BY <2>1, <1>2 DEF ObjectInv
    <2>2. CASE target # 0
      <3>1. target \in 1 .. Len(revisions)  BY <2>2, <1>t
      <3>2. revisions[target] \in Pinnings  BY <3>1, <1>2 DEF ObjectInv
      <3> QED BY <3>2, <2>2, PinningFacts
    <2> QED BY <2>1, <2>2
  <1> HIDE DEF S
  <1>4. Ids(S) \in Pinnings  BY <1>2, <1>3, IdsPinning
  <1>5. Expect(s, op, target, definition, Ids(S))  BY <1>1 DEF S
  <1>6. definition.active_generation \in Nat  BY <1>2 DEF ObjectInv
  <1>7. UNCHANGED store /\ UNCHANGED admitted /\ Spend(s)  BY DEF PreflightDefinition, store
  <1>8. op \in DefinitionOps \cup UIOps /\ op # "reactivate_ui"  BY DEF DefinitionOps
  <1> QED BY <1>4, <1>5, <1>6, <1>7, <1>8, <1>t, ExpectInv

LEMMA ReadDefinitionInv ==
  ASSUME FenceInv, NEW s \in Sessions, ReadDefinition(s)
  PROVE  FenceInv'
  <1>1. definition.active_generation \in Nat  BY DEF FenceInv, StoreInv, ObjectInv
  <1>2. UNCHANGED store /\ UNCHANGED admitted /\ Spend(s)  BY DEF ReadDefinition, store
  <1> DEFINE a == [NoObject EXCEPT !.draft_generation = definition.draft_generation]
             b == [NoObject EXCEPT !.active_generation = definition.active_generation]
  <1>3. a.active_generation = 0 /\ b.active_generation = definition.active_generation
    BY DEF NoObject
  <1>4. Expect(s, "edit", 0, a, EmptyMap) \/ Expect(s, "retire", 0, b, EmptyMap)
    BY DEF ReadDefinition
  <1>5. {"edit", "retire"} \subseteq DefinitionOps \cup UIOps /\ "edit" \notin PinOps
    BY DEF DefinitionOps, PinOps
  <1> HIDE DEF a, b
  <1>6. CASE Expect(s, "edit", 0, a, EmptyMap)
    BY <1>1, <1>2, <1>3, <1>5, <1>6, EmptyPinning, ExpectInv
  <1>7. CASE Expect(s, "retire", 0, b, EmptyMap)
    BY <1>1, <1>2, <1>3, <1>5, <1>7, EmptyPinning, ExpectInv
  <1> QED BY <1>4, <1>6, <1>7

LEMMA ReadOverlayInv ==
  ASSUME FenceInv, NEW s \in Sessions, ReadOverlay(s)
  PROVE  FenceInv'
  <1>p. PICK op \in UIOps :
           \E target \in IF op = "reactivate_ui" THEN DOMAIN ui_revisions ELSE {0} :
             Expect(s, op, target,
                    IF op \in PrivateUIOps \cup {"edit_ui"} THEN overlay ELSE NoObject, EmptyMap)
    BY DEF ReadOverlay
  <1>1. PICK target \in IF op = "reactivate_ui" THEN DOMAIN ui_revisions ELSE {0} :
             Expect(s, op, target,
                    IF op \in PrivateUIOps \cup {"edit_ui"} THEN overlay ELSE NoObject, EmptyMap)
    BY <1>p
  <1> DEFINE o == IF op \in PrivateUIOps \cup {"edit_ui"} THEN overlay ELSE NoObject
  <1>2. ObjectInv(overlay, ui_revisions)  BY DEF FenceInv, StoreInv
  <1>3. o.active_generation \in Nat  BY <1>2 DEF ObjectInv, NoObject
  <1>4. Expect(s, op, target, o, EmptyMap)  BY <1>1
  <1> HIDE DEF o
  <1>5. op \notin PinOps /\ op # "reactivate"
    BY DEF PinOps, UIOps, PrivateUIOps, DefinitionOps
  <1>6. op = "reactivate_ui" => target \in 1 .. Len(ui_revisions)  BY <1>2 DEF ObjectInv
  <1>7. UNCHANGED store /\ UNCHANGED admitted /\ Spend(s)  BY DEF ReadOverlay, store
  <1> QED BY <1>3, <1>4, <1>5, <1>6, <1>7, EmptyPinning, ExpectInv

\* A command that begins has no lock yet, and will lock at least what is pinned now.
LEMMA BeginInv ==
  ASSUME FenceInv, NEW s \in Sessions, NEW y, tx[s].pc = "expecting",
         tx' = [tx EXCEPT ![s] = y], UNCHANGED store, UNCHANGED <<admitted, left>>,
         DOMAIN y = TxFields,
         y.op = tx[s].op, y.pc = "locking", y.active_generation = tx[s].active_generation,
         y.ids = tx[s].ids, y.target = tx[s].target, y.held = tx[s].held,
         y.src \in Pinnings, y.todo \subseteq Modules,
         y.op \in UIOps => DOMAIN y.src \subseteq y.todo,
         y.op \in PinOps => DOMAIN y.ids \cup DOMAIN DefinitionPins \subseteq y.todo
  PROVE  FenceInv'
  <1>1. OwnInv(tx[s]) /\ ShownInv(tx[s]) /\ TargetInv(tx[s])  BY DEF FenceInv, TxInv
  <1>2. TxType(y)  BY <1>1 DEF OwnInv, TxType
  <1>3. TxPlace(y)
    BY <1>1 DEF OwnInv, TxPlace, ActivationPcs, CommandPcs, DefinitionOps, UIOps, PrivateUIOps
  <1>4. TxLocks(y)
    BY <1>1, <1>3 DEF OwnInv, TxPlace, TxLocks, Covers, ActivationPcs, CommandPcs
  <1>5. ShownInv(y) /\ TargetInv(y) /\ ActivatingInv(y) /\ ServedInv(y)
    BY <1>1 DEF ShownInv, TargetInv, ActivatingInv, ServedInv, Covers
  <1>6. ASSUME NEW t \in Sessions \ {s} PROVE RowsApart(y, tx[t])
    <2>1. RowsApart(tx[s], tx[t])  BY Others
    <2> QED BY <2>1 DEF RowsApart
  <1> QED BY <1>2, <1>3, <1>4, <1>5, <1>6, Unmoved, QuietStep DEF OwnInv

LEMMA BeginDefinitionInv ==
  ASSUME FenceInv, NEW s \in Sessions, BeginDefinition(s)
  PROVE  FenceInv'
  <1> DEFINE x == tx[s]
             S == IF x.op = "edit" THEN {}
                  ELSE DOMAIN Pins(revisions, definition.active) \cup DOMAIN x.ids
             y == [x EXCEPT !.pc = "locking", !.todo = S]
  <1>1. TxType(x) /\ x.pc = "expecting" /\ x.op \in DefinitionOps
    BY DEF FenceInv, TxInv, OwnInv, BeginDefinition
  <1>2. tx' = [tx EXCEPT ![s] = y]  BY <1>1 DEF BeginDefinition, FenceInv, TxType, TxFields
  <1>3. /\ DOMAIN y = TxFields /\ y.op = x.op /\ y.pc = "locking"
        /\ y.active_generation = x.active_generation /\ y.ids = x.ids /\ y.target = x.target
        /\ y.held = x.held /\ y.src = x.src /\ y.todo = S
    BY <1>1 DEF TxType, TxFields
  <1> HIDE DEF y
  <1>4. S \subseteq Modules /\ (x.op # "edit" => S = DOMAIN DefinitionPins \cup DOMAIN x.ids)
    <2>1. DOMAIN x.ids \subseteq Modules  BY <1>1, PinningFacts DEF TxType
    <2>2. DOMAIN DefinitionPins \subseteq Modules  BY DefinitionPinned
    <2> QED BY <2>1, <2>2 DEF DefinitionPins
  <1>5. x.op \notin UIOps  BY <1>1 DEF DefinitionOps, UIOps, PrivateUIOps
  <1>6. UNCHANGED store /\ UNCHANGED <<admitted, left>>  BY DEF BeginDefinition, store
  <1> HIDE DEF S
  <1> QED BY <1>1, <1>2, <1>3, <1>4, <1>5, <1>6, BeginInv DEF TxType, PinOps

LEMMA BeginUIInv ==
  ASSUME FenceInv, NEW s \in Sessions, BeginUI(s)
  PROVE  FenceInv'
  <1> DEFINE x == tx[s]
             src == Sources(ProcessOf[s])
             previous == IF x.op \in PrivateUIOps THEN DOMAIN Pins(ui_revisions, overlay.active) ELSE {}
             y == [x EXCEPT !.pc = "locking", !.src = src, !.todo = DOMAIN src \cup previous]
  <1>0. UNCHANGED store /\ UNCHANGED <<admitted, left>>  BY DEF BeginUI, store
  <1>1. TxType(x) /\ x.pc = "expecting" /\ x.op \in UIOps
    BY DEF FenceInv, TxInv, OwnInv, BeginUI
  <1>2. src \in Pinnings /\ DOMAIN src \subseteq Modules
    <2>1. ProcessOf[s] \in Processes /\ AdmittedType  BY PublicationAssumption DEF FenceInv
    <2> QED BY <2>1, SourcesPinning
  <1>3. previous \subseteq Modules  BY DefinitionPinned DEF OverlayPins
  <1>4. CASE Base \notin DOMAIN src
    <2>1. End(s)  BY <1>4 DEF BeginUI
    <2> QED BY <1>0, <2>1, Unmoved, QuietEnd
  <1>5. CASE Base \in DOMAIN src
    <2>1. tx' = [tx EXCEPT ![s].pc = "locking", ![s].src = src, ![s].todo = DOMAIN src \cup previous]
      BY <1>5 DEF BeginUI
    <2> HIDE DEF src, previous
    <2>2. tx' = [tx EXCEPT ![s] = y]  BY <2>1, <1>1 DEF FenceInv, TxType, TxFields
    <2>3. /\ DOMAIN y = TxFields /\ y.op = x.op /\ y.pc = "locking"
          /\ y.active_generation = x.active_generation /\ y.ids = x.ids /\ y.target = x.target
          /\ y.held = x.held /\ y.src = src /\ y.todo = DOMAIN src \cup previous
      BY <1>1 DEF TxType, TxFields
    <2> HIDE DEF y
    <2>4. x.op \notin PinOps  BY <1>1 DEF DefinitionOps, UIOps, PrivateUIOps, PinOps
    <2> QED BY <1>0, <1>1, <1>2, <1>3, <2>2, <2>3, <2>4, BeginInv
  <1> QED BY <1>4, <1>5

-----------------------------------------------------------------------------
(* Activations.                                                              *)

LEMMA StartActivationInv ==
  ASSUME FenceInv, NEW s \in Sessions, StartActivation(s)
  PROVE  FenceInv'
  <1>1. PICK m \in Modules, a \in Artifacts :
           tx' = [tx EXCEPT ![s] = [Idle EXCEPT !.op = "activate", !.pc = "reading",
                                               !.target = m, !.src = [x \in {m} |-> <<a, 0>>]]]
    BY DEF StartActivation
  <1> DEFINE src == [x \in {m} |-> <<a, 0>>]
             y == [Idle EXCEPT !.op = "activate", !.pc = "reading", !.target = m, !.src = src]
  <1>2. src \in Pinnings /\ DOMAIN src = {m}
    <2>1. <<a, 0>> \in Id  BY DEF Id
    <2> QED BY <2>1, SinglePinning
  <1>3. /\ DOMAIN y = TxFields
        /\ y.op = "activate" /\ y.pc = "reading" /\ y.active_generation = 0 /\ y.ids = EmptyMap
        /\ y.target = m /\ y.src = src /\ y.todo = {} /\ y.held = NoLocks
    BY DEF Idle, TxFields
  <1>4. tx' = [tx EXCEPT ![s] = y]  BY <1>1
  <1> HIDE DEF src, y
  <1>5. DOMAIN NoLocks = Modules /\ \A n \in Modules : NoLocks[n] = "none"  BY DEF NoLocks
  <1>6. TxType(y)
    <2>1. DOMAIN y.held = Modules /\ \A n \in Modules : y.held[n] \in Modes
      BY <1>3, <1>5 DEF Modes
    <2>2. y.ids \in Pinnings /\ y.src \in Pinnings  BY <1>2, <1>3, EmptyPinning
    <2>3. y.active_generation \in Nat /\ y.todo \subseteq Modules /\ DOMAIN y = TxFields
      BY <1>3
    <2> QED BY <2>1, <2>2, <2>3 DEF TxType
  <1>7. TxPlace(y) /\ TxLocks(y)
    BY <1>2, <1>3, <1>5 DEF TxPlace, TxLocks, ActivationPcs, CommandPcs
  <1>8. ShownInv(y) /\ TargetInv(y) /\ ActivatingInv(y) /\ ServedInv(y)
    BY <1>3 DEF ShownInv, TargetInv, ActivatingInv, ServedInv, PinOps, DefinitionOps
  <1>9. \A t \in Sessions \ {s} : RowsApart(y, tx[t])  BY <1>3, <1>5, FreeApart
  <1>10. UNCHANGED store /\ UNCHANGED admitted /\ Spend(s)  BY DEF StartActivation, store
  <1>11. AdmittedType' /\ LeftType'
    <2>1. AdmittedType'  BY <1>10 DEF FenceInv, AdmittedType
    <2> QED BY <2>1, <1>10, SpendTypes
  <1> QED BY <1>4, <1>6, <1>7, <1>8, <1>9, <1>10, <1>11, QuietStep DEF OwnInv

\* An activation has its module's row in a mode that nobody's conflicts with.
LEMMA AdmitInv ==
  ASSUME FenceInv, NEW s \in Sessions, NEW mode \in Modes \ {"none"}, NEW src \in Pinnings,
         tx[s].op = "activate",
         Compatible(s, tx[s].target, mode),
         tx[s].target \in DOMAIN src,
         \/ src[tx[s].target] = Identity(tx[s].target)
         \/ mode = "update" /\ module_fence[tx[s].target].active_bindings = 0,
         tx' = [tx EXCEPT ![s].pc = "activating", ![s].held[tx[s].target] = mode, ![s].src = src],
         UNCHANGED store, UNCHANGED <<admitted, left>>
  PROVE  FenceInv'
  <1> DEFINE x == tx[s]
             m == x.target
             y == [x EXCEPT !.pc = "activating", !.held[m] = mode, !.src = src]
  <1>1. OwnInv(x) /\ m \in Modules  BY DEF FenceInv, TxInv, OwnInv, TxPlace
  <1>2. tx' = [tx EXCEPT ![s] = y]  BY <1>1 DEF FenceInv, OwnInv, TxType, TxFields
  <1>3. /\ DOMAIN y = TxFields
        /\ y.op = x.op /\ y.pc = "activating" /\ y.active_generation = x.active_generation
        /\ y.ids = x.ids /\ y.target = m /\ y.src = src /\ y.todo = x.todo
        /\ DOMAIN y.held = Modules /\ y.held[m] = mode
        /\ \A n \in Modules \ {m} : y.held[n] = x.held[n]
    BY <1>1 DEF OwnInv, TxType, TxFields
  <1> HIDE DEF y
  <1>4. TxType(y)  BY <1>1, <1>3 DEF OwnInv, TxType
  <1>5. TxPlace(y)  BY <1>1, <1>3 DEF TxPlace, ActivationPcs
  <1>6. TxLocks(y)  BY <1>1, <1>3 DEF OwnInv, TxLocks, CommandPcs
  <1>7. ShownInv(y) /\ TargetInv(y) /\ ActivatingInv(y) /\ ServedInv(y)
    BY <1>1, <1>3 DEF ShownInv, TargetInv, ActivatingInv, ServedInv, PinOps, DefinitionOps
  <1>8. ASSUME NEW t \in Sessions \ {s} PROVE RowsApart(y, tx[t])
    <2>1. RowsApart(x, tx[t])  BY Others
    <2>2. ~Conflict(mode, tx[t].held[m])  BY DEF Compatible
    <2> QED BY <2>1, <2>2, <1>3 DEF RowsApart
  <1> QED BY <1>2, <1>4, <1>5, <1>6, <1>7, <1>8, Unmoved, QuietStep DEF OwnInv

LEMMA ActivationReadInv ==
  ASSUME FenceInv, NEW s \in Sessions, ActivationRead(s)
  PROVE  FenceInv'
  <1> DEFINE x == tx[s]
             m == x.target
  <1>0. UNCHANGED store /\ UNCHANGED <<admitted, left>>  BY DEF ActivationRead, store
  <1>1. OwnInv(x) /\ x.pc = "reading" /\ x.op = "activate" /\ m \in Modules
    BY DEF FenceInv, TxInv, OwnInv, TxPlace, ActivationRead, CommandPcs, DefinitionOps
  <1>2. CASE HasRow(m) /\ module_fence[m].artifact = WantedArtifact(s)
    <2>1. tx' = [tx EXCEPT ![s].pc = "activating", ![s].held[m] = "key share",
                             ![s].src = [z \in {m} |-> Identity(m)]]
      BY <1>2 DEF ActivationRead
    <2>2. Compatible(s, m, "key share")  BY DEF ActivationRead
    <2>3. Identity(m) \in Id  BY <1>1, IdentityType DEF FenceInv, StoreInv
    <2>4. /\ [z \in {m} |-> Identity(m)] \in Pinnings /\ m \in DOMAIN [z \in {m} |-> Identity(m)]
          /\ [z \in {m} |-> Identity(m)][m] = Identity(m)
      BY <1>1, <2>3, SinglePinning
    <2>5. "key share" \in Modes \ {"none"}  BY DEF Modes
    <2> QED BY <1>0, <1>1, <2>1, <2>2, <2>4, <2>5, AdmitInv
  <1>3. CASE ~(HasRow(m) /\ module_fence[m].artifact = WantedArtifact(s))
    <2>1. tx' = [tx EXCEPT ![s].pc = "writing"]  BY <1>3 DEF ActivationRead
    <2> DEFINE y == [x EXCEPT !.pc = "writing", !.active = x.active]
    <2>2. tx' = [tx EXCEPT ![s].pc = "writing", ![s].active = x.active]
      BY <2>1, <1>1 DEF FenceInv, OwnInv, TxType, TxFields
    <2>3. /\ y.op = x.op /\ y.pc = "writing" /\ y.todo = x.todo /\ y.src = x.src /\ y.held = x.held
          /\ y.ids = x.ids /\ y.target = x.target
      BY <1>1 DEF OwnInv, TxType, TxFields
    <2> HIDE DEF y
    <2>4. TxPlace(y) /\ TxLocks(y)
      BY <1>1, <2>3 DEF OwnInv, TxPlace, TxLocks, ActivationPcs, CommandPcs
    <2>5. ShownInv(y) /\ ActivatingInv(y) /\ ServedInv(y)
      BY <1>1, <2>3 DEF ShownInv, ActivatingInv, ServedInv, PinOps, DefinitionOps
    <2>6. ASSUME NEW t \in Sessions \ {s} PROVE RowsApart(y, tx[t])
      <3>1. RowsApart(x, tx[t]) /\ x.held = y.held  BY Others, <2>3
      <3> QED BY <3>1, <2>3 DEF RowsApart
    <2> QED BY <1>0, <2>2, <2>4, <2>5, <2>6, MoveInv DEF y
  <1> QED BY <1>2, <1>3

LEMMA ActivationWriteInv ==
  ASSUME FenceInv, NEW s \in Sessions, ActivationWrite(s)
  PROVE  FenceInv'
  <1> DEFINE x == tx[s]
             m == x.target
             same == HasRow(m) /\ module_fence[m].artifact = WantedArtifact(s)
             id == IF same THEN Identity(m)
                   ELSE <<WantedArtifact(s), module_fence[m].generation + 1>>
             src == [z \in {m} |-> id]
  <1>0. UNCHANGED store /\ UNCHANGED <<admitted, left>>  BY DEF ActivationWrite, store
  <1>1. OwnInv(x) /\ x.pc = "writing" /\ x.op = "activate" /\ m \in Modules /\ m \in DOMAIN x.src
    BY DEF FenceInv, TxInv, OwnInv, TxPlace, ActivationWrite, CommandPcs, DefinitionOps
  <1>2. CASE ~same /\ ~ArtifactFree(m)
    <2>1. End(s)  BY <1>2 DEF ActivationWrite
    <2> QED BY <1>0, <2>1, Unmoved, QuietEnd
  <1>3. CASE same \/ ArtifactFree(m)
    <2>1. tx' = [tx EXCEPT ![s].pc = "activating", ![s].held[m] = "update", ![s].src = src]
      BY <1>3 DEF ActivationWrite
    <2>2. Compatible(s, m, "update")  BY DEF ActivationWrite
    <2>3. id \in Id
      <3>1. Identity(m) \in Id  BY <1>1, IdentityType DEF FenceInv, StoreInv
      <3>2. x.src[m] \in Id  BY <1>1, PinningFacts DEF OwnInv, TxType
      <3>3. module_fence[m].generation \in Nat  BY <1>1 DEF FenceInv, StoreInv, FenceType
      <3> QED BY <3>1, <3>2, <3>3 DEF Id, WantedArtifact
    <2>4. id = Identity(m) \/ module_fence[m].active_bindings = 0  BY <1>3 DEF ArtifactFree
    <2> HIDE DEF id
    <2>5. src \in Pinnings /\ m \in DOMAIN src /\ src[m] = id  BY <1>1, <2>3, SinglePinning
    <2>6. "update" \in Modes \ {"none"}  BY DEF Modes
    <2> HIDE DEF src
    <2> QED BY <1>0, <1>1, <2>1, <2>2, <2>4, <2>5, <2>6, AdmitInv
  <1> QED BY <1>2, <1>3

LEMMA PublishContributionsInv ==
  ASSUME FenceInv, NEW s \in Sessions, PublishContributions(s)
  PROVE  FenceInv'
  <1> DEFINE m == tx[s].target
             v == tx[s].src[m]
             p == ProcessOf[s]
  <1>1. m \in Modules /\ v \in Id
    <2>1. tx[s].op = "activate" /\ m \in Modules /\ m \in DOMAIN tx[s].src /\ tx[s].src \in Pinnings
      BY DEF FenceInv, TxInv, OwnInv, TxPlace, TxType, PublishContributions, CommandPcs
    <2> QED BY <2>1, PinningFacts
  <1>2. admitted' = [admitted EXCEPT ![p][m] = v] /\ End(s) /\ UNCHANGED store /\ left' = left
    BY DEF PublishContributions, store
  <1>3. p \in Processes /\ AdmittedType  BY PublicationAssumption DEF FenceInv
  <1> HIDE DEF m, v, p
  <1>4. AdmittedType'  BY <1>1, <1>2, <1>3 DEF AdmittedType
  <1>5. LeftType'  BY <1>2 DEF FenceInv, LeftType
  <1> QED BY <1>2, <1>4, <1>5, QuietEnd

LEMMA DisableInv ==
  ASSUME FenceInv, NEW s \in Sessions, Disable(s)
  PROVE  FenceInv'
  <1>1. PICK m \in Modules : admitted' = [admitted EXCEPT ![ProcessOf[s]][m] = None]
    BY DEF Disable
  <1>2. ProcessOf[s] \in Processes /\ AdmittedType  BY PublicationAssumption DEF FenceInv
  <1>3. AdmittedType'  BY <1>1, <1>2 DEF AdmittedType
  <1>4. LeftType'  BY SpendTypes DEF Disable
  <1>5. UNCHANGED store /\ tx' = tx  BY DEF Disable, store
  <1>6. StoreInv' /\ \A t \in Sessions : TxInv(t)'
    BY <1>5 DEF FenceInv, StoreInv, FenceType, PinsInv, DefinitionPins, OverlayPins, Identity,
                ObjectInv, Pins, store, TxInv, ShownInv, TargetInv, ActivatingInv, ServedInv
  <1>7. LocksInv' /\ DOMAIN tx' = Sessions  BY <1>5 DEF FenceInv, LocksInv
  <1> QED BY <1>3, <1>4, <1>6, <1>7 DEF FenceInv

LEMMA CommitActivationInv ==
  ASSUME FenceInv, NEW s \in Sessions, CommitActivation(s)
  PROVE  FenceInv'
  <1>0. PICK x : x = tx[s]  OBVIOUS
  <1> DEFINE m == x.target
             v == x.src[m]
             y == [x EXCEPT !.pc = "publishing", !.held = NoLocks]
  <1>1. OwnInv(x) /\ ActivatingInv(x) /\ x.pc = "activating" /\ x.op = "activate"
        /\ m \in Modules /\ m \in DOMAIN x.src
    BY <1>0 DEF FenceInv, TxInv, OwnInv, TxPlace, CommitActivation, CommandPcs, DefinitionOps
  <1>2. v \in Id  BY <1>1, PinningFacts DEF OwnInv, TxType
  <1>3. /\ module_fence' = [module_fence EXCEPT ![m].artifact = v[1], ![m].generation = v[2]]
        /\ tx' = [tx EXCEPT ![s].pc = "publishing", ![s].held = NoLocks]
        /\ UNCHANGED <<admitted, definition, revisions, overlay, ui_revisions, left>>
    BY <1>0 DEF CommitActivation
  <1>4. tx' = [tx EXCEPT ![s] = y]  BY <1>0, <1>3, <1>1 DEF FenceInv, OwnInv, TxType, TxFields
  <1>5. /\ DOMAIN y = TxFields /\ y.op = x.op /\ y.pc = "publishing" /\ y.todo = x.todo
        /\ y.active_generation = x.active_generation /\ y.src = x.src /\ y.held = NoLocks
        /\ y.ids = x.ids /\ y.target = x.target
    BY <1>1 DEF OwnInv, TxType, TxFields
  <1> HIDE DEF y
  <1>6. FenceType  BY DEF FenceInv, StoreInv
  <1>7. \A n \in Modules : module_fence'[n].active_bindings = module_fence[n].active_bindings
    BY <1>3, <1>6 DEF FenceType
  <1>8. Identity(m)' = v /\ \A n \in Modules \ {m} : Identity(n)' = Identity(n)
    BY <1>1, <1>2, <1>3, <1>6 DEF FenceType, Identity, Id
  <1>9. FenceType'  BY <1>1, <1>2, <1>3, <1>6 DEF FenceType, Id
  <1>10. DefinitionPins' = DefinitionPins /\ OverlayPins' = OverlayPins
    BY <1>3 DEF DefinitionPins, OverlayPins, Pins
  <1>11. v = Identity(m) \/ (x.held[m] = "update" /\ module_fence[m].active_bindings = 0)
    BY <1>1 DEF ActivatingInv
  <1>12. PinsInv'
    <2>1. PinsInv  BY DEF FenceInv, StoreInv
    <2>2. DOMAIN DefinitionPins \subseteq Modules /\ DOMAIN OverlayPins \subseteq Modules
      BY DefinitionPinned
    <2>3. v # Identity(m) => m \notin DOMAIN DefinitionPins /\ m \notin DOMAIN OverlayPins
      BY <2>1, <1>1, <1>11 DEF PinsInv, Counts
    <2>4. \A n \in DOMAIN DefinitionPins \cup DOMAIN OverlayPins : Identity(n)' = Identity(n)
      BY <2>2, <2>3, <1>8
    <2> QED BY <2>1, <2>2, <2>4, <1>7, <1>10 DEF PinsInv
  <1>13. StoreInv'  BY <1>3, <1>9, <1>12 DEF FenceInv, StoreInv, ObjectInv
  <1>14. AdmittedType' /\ LeftType'  BY <1>3, Unmoved
  <1>15. OwnInv(y)
    <2>1. DOMAIN NoLocks = Modules /\ \A n \in Modules : NoLocks[n] = "none"  BY DEF NoLocks
    <2>2. TxType(y)  BY <1>1, <1>5, <2>1 DEF OwnInv, TxType, Modes
    <2>3. TxPlace(y) /\ TxLocks(y)
      BY <1>1, <1>5, <2>1 DEF OwnInv, TxPlace, TxLocks, ActivationPcs, CommandPcs
    <2> QED BY <2>2, <2>3 DEF OwnInv
  <1>16. ShownInv(y)' /\ TargetInv(y)' /\ ActivatingInv(y)' /\ ServedInv(y)'
    BY <1>1, <1>5 DEF ShownInv, TargetInv, ActivatingInv, ServedInv, PinOps, DefinitionOps
  <1>17. \A t \in Sessions \ {s} : RowsApart(y, tx[t])
    <2>1. \A n \in Modules : y.held[n] = "none"  BY <1>5 DEF NoLocks
    <2> QED BY <2>1, <1>5, FreeApart
  <1>18. ASSUME NEW t \in Sessions \ {s}
         PROVE  (ShownInv(tx[t]) /\ TargetInv(tx[t]) /\ ActivatingInv(tx[t]) /\ ServedInv(tx[t]))'
    <2>1. TxInv(t) /\ tx'[t] = tx[t] /\ RowsApart(x, tx[t])
      BY <1>0, <1>4, Others DEF FenceInv
    <2>2. v # Identity(m) => tx[t].held[m] = "none"
      BY <2>1, <1>1, <1>11 DEF RowsApart, Conflict
    <2>3. ShownInv(tx[t])' /\ TargetInv(tx[t])'
      BY <2>1, <1>3, <1>10 DEF TxInv, ShownInv, TargetInv
    <2>4. ActivatingInv(tx[t])'
      <3>1. ASSUME tx[t].pc = "activating" PROVE tx[t].op = "activate" /\ tx[t].target \in Modules
        BY <2>1, <3>1 DEF TxInv, OwnInv, TxPlace, CommandPcs
      <3>2. tx[t].pc = "activating" => Identity(tx[t].target)' = Identity(tx[t].target)
        BY <3>1, <2>1, <2>2, <1>8 DEF TxInv, ActivatingInv
      <3> QED BY <3>1, <3>2, <2>1, <1>7 DEF TxInv, ActivatingInv
    <2>5. ServedInv(tx[t])'
      <3> SUFFICES ASSUME tx[t].pc = "served" PROVE ServedInv(tx[t])'  BY <2>1 DEF ServedInv
      <3>1. DOMAIN tx[t].src \subseteq Modules /\ \A n \in DOMAIN tx[t].src : tx[t].held[n] # "none"
        BY <2>1, PinningFacts
           DEF TxInv, OwnInv, TxType, TxPlace, TxLocks, Covers, UIOps, PrivateUIOps
      <3>2. \A n \in DOMAIN tx[t].src : Identity(n)' = Identity(n)  BY <3>1, <2>2, <1>8
      <3> QED BY <3>2, <2>1, <1>3 DEF TxInv, ServedInv
    <2> QED BY <2>3, <2>4, <2>5
  <1> QED BY <1>4, <1>13, <1>14, <1>15, <1>16, <1>17, <1>18, Step

-----------------------------------------------------------------------------
(* Drafts.                                                                   *)

\* Who edits a draft changes nothing that anybody's locks are about.
LEMMA DraftStep ==
  ASSUME FenceInv, NEW s \in Sessions,
         DOMAIN tx' = Sessions,
         \A t \in Sessions : tx'[t] = tx[t] \/ (t = s /\ tx'[t] = Idle),
         module_fence' = module_fence, revisions' = revisions, ui_revisions' = ui_revisions,
         ObjectInv(definition', revisions), ObjectInv(overlay', ui_revisions),
         definition'.active = definition.active,
         definition'.active_generation = definition.active_generation,
         overlay'.active = overlay.active,
         AdmittedType', LeftType'
  PROVE  FenceInv'
  <1>1. DefinitionPins' = DefinitionPins /\ OverlayPins' = OverlayPins
        /\ \A m : Identity(m)' = Identity(m)
    BY DEF DefinitionPins, OverlayPins, Pins, Identity
  <1>2. StoreInv'  BY <1>1 DEF FenceInv, StoreInv, FenceType, PinsInv
  <1>3. ASSUME NEW t \in Sessions PROVE TxInv(t)'
    <2>1. CASE tx'[t] = tx[t]
      BY <1>1, <2>1 DEF FenceInv, TxInv, ShownInv, TargetInv, ActivatingInv, ServedInv
    <2>2. CASE tx'[t] = Idle  BY <2>2, IdleInv DEF TxInv
    <2> QED BY <2>1, <2>2
  <1>4. LocksInv'
    <2> SUFFICES ASSUME NEW t \in Sessions, NEW u \in Sessions, t # u
                 PROVE  RowsApart(tx'[t], tx'[u])
      BY DEF LocksInv
    <2>1. RowsApart(tx[t], tx[u])  BY DEF FenceInv, LocksInv
    <2>2. \A z : RowsApart(Idle, z) /\ RowsApart(z, Idle)  BY IdleInv, ApartSymmetric
    <2> QED BY <2>1, <2>2
  <1> QED BY <1>2, <1>3, <1>4 DEF FenceInv

LEMMA Ended ==
  ASSUME FenceInv, NEW s \in Sessions, End(s)
  PROVE  /\ DOMAIN tx' = Sessions /\ tx'[s] = Idle
         /\ \A t \in Sessions \ {s} : tx'[t] = tx[t]
         /\ \A t \in Sessions : tx'[t] = tx[t] \/ (t = s /\ tx'[t] = Idle)
  BY DEF FenceInv, End

LEMMA CreateDefinitionInv ==
  ASSUME FenceInv, NEW s \in Sessions, CreateDefinition(s)
  PROVE  FenceInv'
  <1>1. PICK S \in Snapshots :
           definition' = [NoObject EXCEPT !.lifecycle = "draft", !.draft_generation = 1,
                                          !.draft = [m \in S |-> None]]
    BY DEF CreateDefinition
  <1>2. ObjectInv(definition, revisions) /\ ObjectInv(overlay, ui_revisions)
    BY DEF FenceInv, StoreInv
  <1>3. definition.active = 0 /\ definition.active_generation = 0
    BY <1>2 DEF CreateDefinition, ObjectInv
  <1>4. definition'.active = 0 /\ definition'.active_generation = 0  BY <1>1 DEF NoObject
  <1>5. ObjectInv(definition', revisions)  BY <1>1, <1>2 DEF ObjectInv, NoObject, Snapshots
  <1>6. AdmittedType' /\ LeftType'
    <2>1. admitted' = admitted /\ Spend(s)  BY DEF CreateDefinition
    <2> QED BY <2>1, SpendTypes DEF FenceInv, AdmittedType
  <1>7. DOMAIN tx' = Sessions /\ \A t \in Sessions : tx'[t] = tx[t]
    BY DEF CreateDefinition, FenceInv
  <1> QED BY <1>2, <1>3, <1>4, <1>5, <1>6, <1>7, DraftStep DEF CreateDefinition

LEMMA RefusedInv ==
  ASSUME FenceInv, NEW s \in Sessions, Refused(s), UNCHANGED <<admitted, left>>
  PROVE  FenceInv'
  BY Unmoved, QuietEnd DEF Refused, store

LEMMA EditDraftInv ==
  ASSUME FenceInv, NEW s \in Sessions, EditDraft(s)
  PROVE  FenceInv'
  <1>1. UNCHANGED <<admitted, left>>  BY DEF EditDraft
  <1>2. CASE Refused(s)  BY <1>1, <1>2, RefusedInv
  <1>3. CASE ~Refused(s)
    <2>1. /\ \E S \in Snapshots : definition' = [definition EXCEPT !.draft = [m \in S |-> None],
                                                                   !.draft_generation = @ + 1]
          /\ End(s)
          /\ UNCHANGED <<module_fence, revisions, overlay, ui_revisions>>
      BY <1>3 DEF EditDraft
    <2>2. ObjectInv(definition, revisions) /\ ObjectInv(overlay, ui_revisions)
      BY DEF FenceInv, StoreInv
    <2>3. PICK S \in Snapshots : definition' = [definition EXCEPT !.draft = [m \in S |-> None],
                                        !.draft_generation = definition.draft_generation + 1]
      BY <2>1
    <2>4. /\ DOMAIN definition' = DOMAIN definition
          /\ definition'.lifecycle = definition.lifecycle
          /\ definition'.active = definition.active
          /\ definition'.active_generation = definition.active_generation
          /\ definition'.draft = [m \in S |-> None]
      BY <2>2, <2>3 DEF ObjectInv
    <2>5. ObjectInv(definition', revisions)  BY <2>2, <2>4 DEF ObjectInv, Snapshots
    <2> QED BY <1>1, <2>1, <2>2, <2>4, <2>5, Ended, Unmoved, DraftStep
  <1> QED BY <1>2, <1>3

LEMMA CreateOverlayInv ==
  ASSUME FenceInv, NEW s \in Sessions, CreateOverlay(s)
  PROVE  FenceInv'
  <1>1. UNCHANGED <<admitted, left>>  BY DEF CreateOverlay
  <1>2. CASE Refused(s)  BY <1>1, <1>2, RefusedInv
  <1>3. CASE ~Refused(s)
    <2>1. /\ overlay.lifecycle = "none"
          /\ overlay' = [NoObject EXCEPT !.lifecycle = "draft", !.draft_generation = 1,
                                         !.draft = tx[s].src]
          /\ End(s)
          /\ UNCHANGED <<module_fence, definition, revisions, ui_revisions>>
      BY <1>3 DEF CreateOverlay
    <2>2. ObjectInv(definition, revisions) /\ ObjectInv(overlay, ui_revisions)
      BY DEF FenceInv, StoreInv
    <2>3. overlay.active = 0 /\ overlay'.active = 0  BY <2>1, <2>2 DEF ObjectInv, NoObject
    <2>4. DOMAIN tx[s].src \subseteq Modules
      BY PinningFacts DEF FenceInv, TxInv, OwnInv, TxType
    <2>5. ObjectInv(overlay', ui_revisions)  BY <2>1, <2>2, <2>4 DEF ObjectInv, NoObject
    <2> QED BY <1>1, <2>1, <2>2, <2>3, <2>5, Ended, Unmoved, DraftStep
  <1> QED BY <1>2, <1>3

LEMMA EditOverlayInv ==
  ASSUME FenceInv, NEW s \in Sessions, EditOverlay(s)
  PROVE  FenceInv'
  <1>1. UNCHANGED <<admitted, left>>  BY DEF EditOverlay
  <1>2. CASE Refused(s)  BY <1>1, <1>2, RefusedInv
  <1>3. CASE ~Refused(s)
    <2>1. /\ overlay' = [overlay EXCEPT !.draft = tx[s].src,
                                        !.draft_generation = overlay.draft_generation + 1]
          /\ End(s)
          /\ UNCHANGED <<module_fence, definition, revisions, ui_revisions>>
      BY <1>3 DEF EditOverlay
    <2>2. ObjectInv(definition, revisions) /\ ObjectInv(overlay, ui_revisions)
      BY DEF FenceInv, StoreInv
    <2>3. DOMAIN tx[s].src \subseteq Modules
      BY PinningFacts DEF FenceInv, TxInv, OwnInv, TxType
    <2>4. /\ DOMAIN overlay' = DOMAIN overlay
          /\ overlay'.lifecycle = overlay.lifecycle
          /\ overlay'.active = overlay.active
          /\ overlay'.active_generation = overlay.active_generation
          /\ overlay'.draft = tx[s].src
      BY <2>1, <2>2 DEF ObjectInv
    <2>5. ObjectInv(overlay', ui_revisions)  BY <2>2, <2>3, <2>4 DEF ObjectInv
    <2> QED BY <1>1, <2>1, <2>2, <2>4, <2>5, Ended, Unmoved, DraftStep
  <1> QED BY <1>2, <1>3

-----------------------------------------------------------------------------
(* Publications: pins move.                                                  *)

\* Whoever moves pins has locked their rows, so no activation counts on them.
LEMMA RebindInv ==
  ASSUME FenceInv, NEW s \in Sessions, NEW old \in Pinnings, NEW new \in Pinnings,
         tx[s].pc = "locked", tx[s].op \in PinOps \cup PrivateUIOps,
         \A m \in DOMAIN old \cup DOMAIN new : tx[s].held[m] # "none",
         BindingsMove(old, new), Rebind(old, new),
         \A t \in Sessions \ {s} : tx'[t] = tx[t]
  PROVE  /\ FenceType'
         /\ \A m \in Modules : Identity(m)' = Identity(m)
         /\ \A m \in Modules : module_fence'[m].active_bindings =
                module_fence[m].active_bindings + Counts(m, new) - Counts(m, old)
         /\ \A t \in Sessions \ {s} : ActivatingInv(tx[t])'
  <1>1. FenceType  BY DEF FenceInv, StoreInv
  <1>2. DOMAIN old \subseteq Modules /\ DOMAIN new \subseteq Modules  BY PinningFacts
  <1>3. ASSUME NEW m \in Modules
        PROVE  /\ module_fence'[m] = [module_fence[m] EXCEPT
                                        !.active_bindings = @ + Delta(old, new, m)]
               /\ Delta(old, new, m) = Counts(m, new) - Counts(m, old)
               /\ Delta(old, new, m) < 0 => module_fence[m].active_bindings > 0
    BY DEF Rebind, Delta, Counts, BindingsMove
  <1>4. \A m \in Modules : Delta(old, new, m) \in {-1, 0, 1}  BY DEF Delta
  <1>5. FenceType'
    <2>1. DOMAIN module_fence' = Modules  BY DEF Rebind
    <2>2. ASSUME NEW m \in Modules
          PROVE  module_fence'[m] \in [artifact : Artifacts \cup {None}, generation : Nat,
                                       active_bindings : Nat]
      <3>1. module_fence[m].active_bindings + Delta(old, new, m) \in Nat
        <4>1. module_fence[m].active_bindings \in Nat /\ Delta(old, new, m) \in {-1, 0, 1}
              /\ (Delta(old, new, m) < 0 => module_fence[m].active_bindings > 0)
          BY <1>1, <1>3, <1>4 DEF FenceType
        <4> QED BY <4>1
      <3>2. module_fence[m] \in [artifact : Artifacts \cup {None}, generation : Nat,
                                 active_bindings : Nat]
        BY <1>1 DEF FenceType
      <3>3. module_fence'[m] = [module_fence[m] EXCEPT
                                  !.active_bindings = module_fence[m].active_bindings + Delta(old, new, m)]
        BY <1>3
      <3> QED BY <3>1, <3>2, <3>3
    <2> QED BY <2>1, <2>2 DEF FenceType
  <1>6. \A m \in Modules :
          /\ Identity(m)' = Identity(m)
          /\ module_fence'[m].active_bindings =
                module_fence[m].active_bindings + Delta(old, new, m)
    BY <1>1, <1>3 DEF FenceType, Identity
  <1>7. \A m \in Modules : module_fence'[m].active_bindings =
                module_fence[m].active_bindings + Counts(m, new) - Counts(m, old)
    BY <1>1, <1>3, <1>6 DEF FenceType, Counts
  <1>8. ASSUME NEW t \in Sessions \ {s} PROVE ActivatingInv(tx[t])'
    <2> SUFFICES ASSUME tx[t].pc = "activating" PROVE ActivatingInv(tx[t])'
      BY DEF ActivatingInv
    <2> DEFINE m == tx[t].target
    <2>1. TxInv(t) /\ TxInv(s) /\ RowsApart(tx[s], tx[t])  BY Others
    <2>2. m \in Modules  BY <2>1 DEF TxInv, OwnInv, TxPlace, CommandPcs
    <2>3. ModuleMode(tx[s].op) \in {"update", "no key update"}  BY DEF ModuleMode, PinOps
    <2>4. tx[s].held[m] # "none" => tx[s].held[m] = ModuleMode(tx[s].op)
      BY <2>1, <2>2 DEF TxInv, OwnInv, TxLocks, CommandPcs
    <2>5. tx[t].held[m] = "update" => tx[s].held[m] = "none"
      BY <2>1, <2>2, <2>3, <2>4 DEF RowsApart, Conflict
    <2>6. tx[t].held[m] = "update" => Delta(old, new, m) = 0  BY <2>5 DEF Delta
    <2>7. /\ tx[t].held[m] # "none"
          /\ \/ tx[t].src[m] = Identity(m)
             \/ tx[t].held[m] = "update" /\ module_fence[m].active_bindings = 0
      BY <2>1 DEF TxInv, ActivatingInv
    <2>8. tx'[t] = tx[t]  OBVIOUS
    <2>9. Identity(tx[t].target)' = Identity(m)
          /\ module_fence'[m].active_bindings = module_fence[m].active_bindings + Delta(old, new, m)
      BY <1>6, <2>2, <2>8
    <2> QED BY <2>6, <2>7, <2>8, <2>9 DEF ActivatingInv
  <1> QED BY <1>5, <1>6, <1>7, <1>8

\* A definition's pins move.
LEMMA DefinitionStep ==
  ASSUME FenceInv, NEW s \in Sessions, NEW new \in Pinnings,
         tx[s].pc = "locked", tx[s].op \in PinOps,
         tx[s].active_generation = definition.active_generation,
         DOMAIN new \subseteq DOMAIN tx[s].ids,
         BindingsMove(DefinitionPins, new), Rebind(DefinitionPins, new),
         End(s), UNCHANGED <<overlay, ui_revisions, admitted, left>>,
         ObjectInv(definition', revisions'), Len(revisions) <= Len(revisions'),
         definition'.active_generation = definition.active_generation + 1,
         DefinitionPins' = new
  PROVE  FenceInv'
  <1>1. TxInv(s) /\ ObjectInv(definition, revisions) /\ PinsInv /\ FenceType
    BY DEF FenceInv, StoreInv
  <1>2. \A m \in DOMAIN DefinitionPins \cup DOMAIN new : tx[s].held[m] # "none"
    BY <1>1 DEF TxInv, OwnInv, TxPlace, TxLocks, ShownInv, Covers
  <1>3. tx' = [tx EXCEPT ![s] = Idle] /\ \A t \in Sessions \ {s} : tx'[t] = tx[t]
    BY Ended DEF End
  <1>4. DefinitionPins \in Pinnings  BY DefinitionPinned
  <1>5. /\ FenceType'
        /\ \A m \in Modules : Identity(m)' = Identity(m)
        /\ \A m \in Modules : module_fence'[m].active_bindings =
                module_fence[m].active_bindings + Counts(m, new) - Counts(m, DefinitionPins)
        /\ \A t \in Sessions \ {s} : ActivatingInv(tx[t])'
    BY <1>2, <1>3, <1>4, RebindInv
  <1>6. OverlayPins' = OverlayPins  BY DEF OverlayPins, Pins
  <1>7. DOMAIN new \subseteq Modules /\ DOMAIN OverlayPins \subseteq Modules
    BY PinningFacts, DefinitionPinned
  <1>8. PinsInv'
    <2>1. \A m \in DOMAIN new : new[m] = Identity(m)  BY DEF BindingsMove
    <2>2. \A m \in Modules : module_fence'[m].active_bindings =
                               Counts(m, new) + Counts(m, OverlayPins)
      BY <1>1, <1>5 DEF PinsInv, Counts
    <2> QED BY <1>1, <1>5, <1>6, <1>7, <2>1, <2>2 DEF PinsInv
  <1>9. StoreInv'  BY <1>5, <1>8 DEF FenceInv, StoreInv
  <1>10. ASSUME NEW t \in Sessions \ {s}
         PROVE  (ShownInv(tx[t]) /\ TargetInv(tx[t]) /\ ActivatingInv(tx[t]) /\ ServedInv(tx[t]))'
    <2>1. TxInv(t) /\ tx'[t] = tx[t]  BY <1>3, Others
    <2>2. ShownInv(tx[t])'
      <3>1. tx[t].active_generation \in Nat /\ definition.active_generation \in Nat
        BY <2>1, <1>1 DEF TxInv, OwnInv, TxType, ObjectInv
      <3> QED BY <2>1, <3>1 DEF TxInv, ShownInv
    <2>3. TargetInv(tx[t])'
      <3>1. Len(revisions) \in Nat /\ Len(revisions') \in Nat  BY <1>1 DEF ObjectInv
      <3> QED BY <2>1, <3>1 DEF TxInv, TargetInv
    <2>4. ServedInv(tx[t])'
      <3>1. DOMAIN tx[t].src \subseteq Modules
        BY <2>1, PinningFacts DEF TxInv, OwnInv, TxType
      <3> QED BY <2>1, <3>1, <1>5 DEF TxInv, ServedInv
    <2> QED BY <2>2, <2>3, <2>4, <1>5
  <1>11. AdmittedType' /\ LeftType'  BY Unmoved
  <1> QED BY <1>3, <1>9, <1>10, <1>11, IdleInv, Step

\* An overlay's pins move: nobody is being served.
LEMMA OverlayStep ==
  ASSUME FenceInv, NEW s \in Sessions, NEW new \in Pinnings,
         tx[s].pc = "locked", tx[s].op \in PrivateUIOps, ActivePinsCurrent(s),
         DOMAIN new \subseteq DOMAIN tx[s].src,
         BindingsMove(OverlayPins, new), Rebind(OverlayPins, new),
         End(s), UNCHANGED <<definition, revisions, admitted, left>>,
         ObjectInv(overlay', ui_revisions'), Len(ui_revisions) <= Len(ui_revisions'),
         OverlayPins' = new
  PROVE  FenceInv'
  <1>1. TxInv(s) /\ ObjectInv(overlay, ui_revisions) /\ PinsInv /\ FenceType
    BY DEF FenceInv, StoreInv
  <1>2. \A m \in DOMAIN OverlayPins \cup DOMAIN new : tx[s].held[m] # "none"
    BY <1>1 DEF TxInv, OwnInv, TxPlace, TxLocks, Covers, ActivePinsCurrent, OverlayPins, UIOps
  <1>3. tx' = [tx EXCEPT ![s] = Idle] /\ \A t \in Sessions \ {s} : tx'[t] = tx[t]
    BY Ended DEF End
  <1>4. OverlayPins \in Pinnings  BY DefinitionPinned
  <1>5. /\ FenceType'
        /\ \A m \in Modules : Identity(m)' = Identity(m)
        /\ \A m \in Modules : module_fence'[m].active_bindings =
                module_fence[m].active_bindings + Counts(m, new) - Counts(m, OverlayPins)
        /\ \A t \in Sessions \ {s} : ActivatingInv(tx[t])'
    BY <1>2, <1>3, <1>4, RebindInv
  <1>6. DefinitionPins' = DefinitionPins  BY DEF DefinitionPins, Pins
  <1>7. DOMAIN new \subseteq Modules /\ DOMAIN DefinitionPins \subseteq Modules
    BY PinningFacts, DefinitionPinned
  <1>8. PinsInv'
    <2>1. \A m \in DOMAIN new : new[m] = Identity(m)  BY DEF BindingsMove
    <2>2. \A m \in Modules : module_fence'[m].active_bindings =
                               Counts(m, DefinitionPins) + Counts(m, new)
      BY <1>1, <1>5 DEF PinsInv, Counts
    <2> QED BY <1>1, <1>5, <1>6, <1>7, <2>1, <2>2 DEF PinsInv
  <1>9. StoreInv'  BY <1>5, <1>8 DEF FenceInv, StoreInv
  <1>10. ASSUME NEW t \in Sessions \ {s}
         PROVE  (ShownInv(tx[t]) /\ TargetInv(tx[t]) /\ ActivatingInv(tx[t]) /\ ServedInv(tx[t]))'
    <2>1. TxInv(t) /\ tx'[t] = tx[t] /\ RowsApart(tx[s], tx[t])  BY <1>3, Others
    <2>2. ShownInv(tx[t])'  BY <2>1, <1>6 DEF TxInv, ShownInv
    <2>3. TargetInv(tx[t])'
      <3>1. Len(ui_revisions) \in Nat /\ Len(ui_revisions') \in Nat  BY <1>1 DEF ObjectInv
      <3> QED BY <2>1, <3>1 DEF TxInv, TargetInv
    <2>4. ServedInv(tx[t])'
      <3>1. tx[t].pc # "served"
        BY <2>1 DEF TxInv, OwnInv, TxPlace, RowsApart, SameRow, RowMode, UIOps, PrivateUIOps
      <3> QED BY <2>1, <3>1 DEF ServedInv
    <2> QED BY <2>2, <2>3, <2>4, <1>5
  <1>11. AdmittedType' /\ LeftType'  BY Unmoved
  <1> QED BY <1>3, <1>9, <1>10, <1>11, IdleInv, Step

\* What a step leaves of the histories and of retirement
Kept ==
    /\ SubSeq(revisions', 1, Len(revisions)) = revisions
    /\ SubSeq(ui_revisions', 1, Len(ui_revisions)) = ui_revisions
    /\ definition.lifecycle = "retired" => definition'.lifecycle = "retired"
    /\ overlay.lifecycle = "retired" => overlay'.lifecycle = "retired"

\* A history that is left alone or appended to keeps what it had.
LEMMA HistoryKept ==
  ASSUME FenceInv, NEW x \in Pinnings, NEW y \in Pinnings,
         revisions' = revisions \/ revisions' = Append(revisions, x),
         ui_revisions' = ui_revisions \/ ui_revisions' = Append(ui_revisions, y)
  PROVE  /\ SubSeq(revisions', 1, Len(revisions)) = revisions
         /\ SubSeq(ui_revisions', 1, Len(ui_revisions)) = ui_revisions
  <1>1. revisions \in Seq(Pinnings) /\ ui_revisions \in Seq(Pinnings)
    BY DEF FenceInv, StoreInv, ObjectInv
  <1>2. /\ SubSeq(Append(revisions, x), 1, Len(revisions)) = revisions
        /\ SubSeq(revisions, 1, Len(revisions)) = revisions
    BY <1>1, AppendFacts
  <1>3. /\ SubSeq(Append(ui_revisions, y), 1, Len(ui_revisions)) = ui_revisions
        /\ SubSeq(ui_revisions, 1, Len(ui_revisions)) = ui_revisions
    BY <1>1, AppendFacts
  <1> QED BY <1>2, <1>3

LEMMA NothingShown ==
  ASSUME FenceInv, UNCHANGED <<revisions, ui_revisions>>,
         definition'.active = definition.active \/ definition'.active = 0,
         overlay'.active = overlay.active \/ overlay'.active = 0,
         definition.lifecycle = "retired" => definition'.lifecycle = "retired",
         overlay.lifecycle = "retired" => overlay'.lifecycle = "retired"
  PROVE  PublishesAsShown
  BY HistoryKept, EmptyPinning DEF PublishesAsShown

\* Every command that publishes, at its commit
PublicationStep(s) ==
    Publish(s) \/ Reactivate(s) \/ Retire(s)
      \/ PublishOverlay(s) \/ ReactivateOverlay(s) \/ RetireOverlay(s)

LEMMA RefusedShown ==
  ASSUME FenceInv, NEW s \in Sessions, Refused(s)
  PROVE  PublishesAsShown
  BY NothingShown DEF Refused

LEMMA PublishInv ==
  ASSUME FenceInv, NEW s \in Sessions, Publish(s)
  PROVE  FenceInv' /\ PublishesAsShown
  <1> DEFINE ids == tx[s].ids
             old == Pins(revisions, definition.active)
  <1>0. UNCHANGED <<admitted, left>> /\ tx[s].pc = "locked" /\ tx[s].op = "publish"
    BY DEF Publish
  <1>1. CASE Refused(s)  BY <1>0, <1>1, RefusedInv, RefusedShown
  <1>2. CASE ~Refused(s)
    <2>1. /\ LockedPreflight(s) /\ BindingsMove(old, ids)
          /\ DOMAIN definition.draft = DOMAIN ids
          /\ revisions' = Append(revisions, ids)
          /\ definition' = Activate(definition, Len(revisions) + 1)
          /\ Rebind(old, ids)
          /\ End(s)
          /\ UNCHANGED <<overlay, ui_revisions>>
      BY <1>2 DEF Publish
    <2>2. ObjectInv(definition, revisions) /\ ids \in Pinnings /\ revisions \in Seq(Pinnings)
      BY DEF FenceInv, StoreInv, ObjectInv, TxInv, OwnInv, TxType
    <2>3. /\ Append(revisions, ids) \in Seq(Pinnings)
          /\ Len(Append(revisions, ids)) = Len(revisions) + 1
          /\ Append(revisions, ids)[Len(revisions) + 1] = ids
          /\ Len(revisions) \in Nat
      BY <2>2, AppendFacts
    <2>4. /\ DOMAIN definition' = DOMAIN definition
          /\ definition'.lifecycle = "published"
          /\ definition'.active = Len(revisions) + 1
          /\ definition'.active_generation = definition.active_generation + 1
          /\ definition'.draft = definition.draft
      BY <2>1, <2>2 DEF Activate, ObjectInv
    <2>5. ObjectInv(definition', revisions')  BY <2>1, <2>2, <2>3, <2>4 DEF ObjectInv
    <2>6. DefinitionPins' = ids  BY <2>1, <2>3, <2>4 DEF DefinitionPins, Pins
    <2>7. tx[s].active_generation = definition.active_generation
          /\ tx[s].draft_generation = definition.draft_generation
          /\ definition.lifecycle # "retired"
      BY <2>1 DEF LockedPreflight
    <2>8. FenceInv'
      <3>1. tx[s].op \in PinOps /\ old = DefinitionPins
        BY <1>0 DEF PinOps, DefinitionOps, DefinitionPins
      <3>2. Len(revisions) <= Len(revisions')  BY <2>1, <2>3
      <3> HIDE DEF old, ids
      <3>3. DOMAIN ids \subseteq DOMAIN tx[s].ids  BY DEF ids
      <3> QED BY <1>0, <2>1, <2>2, <2>4, <2>5, <2>6, <2>7, <3>1, <3>2, <3>3, DefinitionStep
    <2>9. PublishesAsShown
      <3>1. revisions'[definition'.active] = tx[s].ids  BY <2>1, <2>3, <2>4
      <3>2. Kept  BY <2>1, <2>2, <2>7, HistoryKept DEF Kept
      <3> QED BY <1>0, <2>1, <2>7, <3>1, <3>2 DEF PublishesAsShown, Kept
    <2> QED BY <2>8, <2>9
  <1> QED BY <1>1, <1>2

LEMMA ReactivateInv ==
  ASSUME FenceInv, NEW s \in Sessions, Reactivate(s)
  PROVE  FenceInv' /\ PublishesAsShown
  <1> DEFINE ids == tx[s].ids
             old == Pins(revisions, definition.active)
             n == tx[s].target
  <1>0. UNCHANGED <<admitted, left>> /\ tx[s].pc = "locked" /\ tx[s].op = "reactivate"
    BY DEF Reactivate
  <1>1. CASE Refused(s)  BY <1>0, <1>1, RefusedInv, RefusedShown
  <1>2. CASE ~Refused(s)
    <2>1. /\ LockedPreflight(s) /\ BindingsMove(old, ids)
          /\ revisions[n] = ids
          /\ definition' = Activate(definition, n)
          /\ Rebind(old, ids)
          /\ End(s)
          /\ UNCHANGED <<revisions, overlay, ui_revisions>>
      BY <1>2 DEF Reactivate
    <2>2. ObjectInv(definition, revisions) /\ ids \in Pinnings /\ n \in 1 .. Len(revisions)
          /\ Len(revisions) \in Nat
      BY <1>0 DEF FenceInv, StoreInv, ObjectInv, TxInv, OwnInv, TxType, TargetInv
    <2>4. /\ DOMAIN definition' = DOMAIN definition
          /\ definition'.lifecycle = "published"
          /\ definition'.active = n
          /\ definition'.active_generation = definition.active_generation + 1
          /\ definition'.draft = definition.draft
      BY <2>1, <2>2 DEF Activate, ObjectInv
    <2>5. ObjectInv(definition', revisions')  BY <2>1, <2>2, <2>4 DEF ObjectInv
    <2>6. DefinitionPins' = ids  BY <2>1, <2>2, <2>4 DEF DefinitionPins, Pins
    <2>7. tx[s].active_generation = definition.active_generation
          /\ definition.lifecycle # "retired"
      BY <2>1 DEF LockedPreflight
    <2>8. FenceInv'
      <3>1. tx[s].op \in PinOps /\ old = DefinitionPins
        BY <1>0 DEF PinOps, DefinitionOps, DefinitionPins
      <3>2. Len(revisions) <= Len(revisions')  BY <2>1, <2>2
      <3> HIDE DEF old, ids
      <3>3. DOMAIN ids \subseteq DOMAIN tx[s].ids  BY DEF ids
      <3> QED BY <1>0, <2>1, <2>2, <2>4, <2>5, <2>6, <2>7, <3>1, <3>2, <3>3, DefinitionStep
    <2>9. PublishesAsShown
      <3>1. revisions'[definition'.active] = tx[s].ids  BY <2>1, <2>4
      <3>2. Kept  BY <2>1, <2>2, <2>7, HistoryKept DEF Kept
      <3> QED BY <1>0, <2>1, <2>7, <3>1, <3>2 DEF PublishesAsShown, Kept
    <2> QED BY <2>8, <2>9
  <1> QED BY <1>1, <1>2

LEMMA RetireInv ==
  ASSUME FenceInv, NEW s \in Sessions, Retire(s)
  PROVE  FenceInv' /\ PublishesAsShown
  <1> DEFINE old == Pins(revisions, definition.active)
  <1>0. UNCHANGED <<admitted, left>> /\ tx[s].pc = "locked" /\ tx[s].op = "retire"
    BY DEF Retire
  <1>1. CASE Refused(s)  BY <1>0, <1>1, RefusedInv, RefusedShown
  <1>2. CASE ~Refused(s)
    <2>1. /\ definition.active_generation = tx[s].active_generation
          /\ BindingsMove(old, EmptyMap)
          /\ definition' = Retired(definition)
          /\ Rebind(old, EmptyMap)
          /\ End(s)
          /\ UNCHANGED <<revisions, overlay, ui_revisions>>
      BY <1>2 DEF Retire
    <2>2. ObjectInv(definition, revisions) /\ Len(revisions) \in Nat
      BY DEF FenceInv, StoreInv, ObjectInv
    <2>4. /\ DOMAIN definition' = DOMAIN definition
          /\ definition'.lifecycle = "retired"
          /\ definition'.active = 0
          /\ definition'.active_generation = definition.active_generation + 1
          /\ definition'.draft = definition.draft
      BY <2>1, <2>2 DEF Retired, ObjectInv
    <2>5. ObjectInv(definition', revisions')  BY <2>1, <2>2, <2>4 DEF ObjectInv
    <2>6. DefinitionPins' = EmptyMap  BY <2>4 DEF DefinitionPins, Pins
    <2>8. FenceInv'
      <3>1. tx[s].op \in PinOps /\ old = DefinitionPins
        BY <1>0 DEF PinOps, DefinitionOps, DefinitionPins
      <3>2. Len(revisions) <= Len(revisions')  BY <2>1, <2>2
      <3> HIDE DEF old
      <3> QED BY <1>0, <2>1, <2>4, <2>5, <2>6, <3>1, <3>2, EmptyPinning, DefinitionStep
    <2>9. PublishesAsShown  BY <2>1, <2>4, NothingShown
    <2> QED BY <2>8, <2>9
  <1> QED BY <1>1, <1>2

LEMMA PublishOverlayInv ==
  ASSUME FenceInv, NEW s \in Sessions, PublishOverlay(s)
  PROVE  FenceInv' /\ PublishesAsShown
  <1> DEFINE src == tx[s].src
             old == Pins(ui_revisions, overlay.active)
  <1>0. UNCHANGED <<admitted, left>> /\ tx[s].pc = "locked" /\ tx[s].op = "publish_ui"
    BY DEF PublishOverlay
  <1>1. CASE Refused(s)  BY <1>0, <1>1, RefusedInv, RefusedShown
  <1>2. CASE ~Refused(s)
    <2>1. /\ Expected(s) /\ ActivePinsCurrent(s) /\ BindingsMove(old, src)
          /\ ui_revisions' = Append(ui_revisions, src)
          /\ overlay' = Activate(overlay, Len(ui_revisions) + 1)
          /\ Rebind(old, src)
          /\ End(s)
          /\ UNCHANGED <<definition, revisions>>
      BY <1>2 DEF PublishOverlay
    <2>2. ObjectInv(overlay, ui_revisions) /\ src \in Pinnings /\ ui_revisions \in Seq(Pinnings)
      BY DEF FenceInv, StoreInv, ObjectInv, TxInv, OwnInv, TxType
    <2>3. /\ Append(ui_revisions, src) \in Seq(Pinnings)
          /\ Len(Append(ui_revisions, src)) = Len(ui_revisions) + 1
          /\ Append(ui_revisions, src)[Len(ui_revisions) + 1] = src
          /\ Len(ui_revisions) \in Nat
      BY <2>2, AppendFacts
    <2>4. /\ DOMAIN overlay' = DOMAIN overlay
          /\ overlay'.lifecycle = "published"
          /\ overlay'.active = Len(ui_revisions) + 1
          /\ overlay'.active_generation = overlay.active_generation + 1
          /\ overlay'.draft = overlay.draft
      BY <2>1, <2>2 DEF Activate, ObjectInv
    <2>5. ObjectInv(overlay', ui_revisions')  BY <2>1, <2>2, <2>3, <2>4 DEF ObjectInv
    <2>6. OverlayPins' = src  BY <2>1, <2>3, <2>4 DEF OverlayPins, Pins
    <2>8. FenceInv'
      <3>1. tx[s].op \in PrivateUIOps /\ old = OverlayPins
        BY <1>0 DEF PrivateUIOps, OverlayPins
      <3>2. Len(ui_revisions) <= Len(ui_revisions')  BY <2>1, <2>3
      <3> HIDE DEF old, src
      <3>3. DOMAIN src \subseteq DOMAIN tx[s].src  BY DEF src
      <3> QED BY <1>0, <2>1, <2>2, <2>5, <2>6, <3>1, <3>2, <3>3, OverlayStep
    <2>9. PublishesAsShown
      <3>1. Kept  BY <2>1, <2>2, HistoryKept DEF Kept, Expected
      <3> QED BY <1>0, <2>1, <3>1 DEF PublishesAsShown, Kept, Expected
    <2> QED BY <2>8, <2>9
  <1> QED BY <1>1, <1>2

LEMMA ReactivateOverlayInv ==
  ASSUME FenceInv, NEW s \in Sessions, ReactivateOverlay(s)
  PROVE  FenceInv' /\ PublishesAsShown
  <1> DEFINE src == tx[s].src
             old == Pins(ui_revisions, overlay.active)
             n == tx[s].target
  <1>0. UNCHANGED <<admitted, left>> /\ tx[s].pc = "locked" /\ tx[s].op = "reactivate_ui"
    BY DEF ReactivateOverlay
  <1>1. CASE Refused(s)  BY <1>0, <1>1, RefusedInv, RefusedShown
  <1>2. CASE ~Refused(s)
    <2>1. /\ Expected(s) /\ ActivePinsCurrent(s) /\ ui_revisions[n] = src /\ BindingsMove(old, src)
          /\ overlay' = Activate(overlay, n)
          /\ Rebind(old, src)
          /\ End(s)
          /\ UNCHANGED <<definition, revisions, ui_revisions>>
      BY <1>2 DEF ReactivateOverlay
    <2>2. ObjectInv(overlay, ui_revisions) /\ src \in Pinnings /\ n \in 1 .. Len(ui_revisions)
          /\ Len(ui_revisions) \in Nat
      BY <1>0 DEF FenceInv, StoreInv, ObjectInv, TxInv, OwnInv, TxType, TargetInv
    <2>4. /\ DOMAIN overlay' = DOMAIN overlay
          /\ overlay'.lifecycle = "published"
          /\ overlay'.active = n
          /\ overlay'.active_generation = overlay.active_generation + 1
          /\ overlay'.draft = overlay.draft
      BY <2>1, <2>2 DEF Activate, ObjectInv
    <2>5. ObjectInv(overlay', ui_revisions')  BY <2>1, <2>2, <2>4 DEF ObjectInv
    <2>6. OverlayPins' = src  BY <2>1, <2>2, <2>4 DEF OverlayPins, Pins
    <2>8. FenceInv'
      <3>1. tx[s].op \in PrivateUIOps /\ old = OverlayPins
        BY <1>0 DEF PrivateUIOps, OverlayPins
      <3>2. Len(ui_revisions) <= Len(ui_revisions')  BY <2>1, <2>2
      <3> HIDE DEF old, src
      <3>3. DOMAIN src \subseteq DOMAIN tx[s].src  BY DEF src
      <3> QED BY <1>0, <2>1, <2>2, <2>5, <2>6, <3>1, <3>2, <3>3, OverlayStep
    <2>9. PublishesAsShown
      <3>1. Kept  BY <2>1, <2>2, HistoryKept DEF Kept, Expected
      <3> QED BY <1>0, <2>1, <3>1 DEF PublishesAsShown, Kept, Expected
    <2> QED BY <2>8, <2>9
  <1> QED BY <1>1, <1>2

LEMMA RetireOverlayInv ==
  ASSUME FenceInv, NEW s \in Sessions, RetireOverlay(s)
  PROVE  FenceInv' /\ PublishesAsShown
  <1> DEFINE old == Pins(ui_revisions, overlay.active)
  <1>0. UNCHANGED <<admitted, left>> /\ tx[s].pc = "locked" /\ tx[s].op = "retire_ui"
    BY DEF RetireOverlay
  <1>1. CASE Refused(s)  BY <1>0, <1>1, RefusedInv, RefusedShown
  <1>2. CASE ~Refused(s)
    <2>1. /\ ActivePinsCurrent(s) /\ BindingsMove(old, EmptyMap)
          /\ overlay' = Retired(overlay)
          /\ Rebind(old, EmptyMap)
          /\ End(s)
          /\ UNCHANGED <<definition, revisions, ui_revisions>>
      BY <1>2 DEF RetireOverlay
    <2>2. ObjectInv(overlay, ui_revisions) /\ Len(ui_revisions) \in Nat
      BY DEF FenceInv, StoreInv, ObjectInv
    <2>4. /\ DOMAIN overlay' = DOMAIN overlay
          /\ overlay'.lifecycle = "retired"
          /\ overlay'.active = 0
          /\ overlay'.active_generation = overlay.active_generation + 1
          /\ overlay'.draft = overlay.draft
      BY <2>1, <2>2 DEF Retired, ObjectInv
    <2>5. ObjectInv(overlay', ui_revisions')  BY <2>1, <2>2, <2>4 DEF ObjectInv
    <2>6. OverlayPins' = EmptyMap  BY <2>4 DEF OverlayPins, Pins
    <2>8. FenceInv'
      <3>1. tx[s].op \in PrivateUIOps /\ old = OverlayPins
        BY <1>0 DEF PrivateUIOps, OverlayPins
      <3>2. Len(ui_revisions) <= Len(ui_revisions')  BY <2>1, <2>2
      <3> HIDE DEF old
      <3> QED BY <1>0, <2>1, <2>5, <2>6, <3>1, <3>2, EmptyPinning, OverlayStep
    <2>9. PublishesAsShown  BY <2>1, <2>4, NothingShown
    <2> QED BY <2>8, <2>9
  <1> QED BY <1>1, <1>2

-----------------------------------------------------------------------------
(* The theorems.                                                             *)

LEMMA NextInv == FenceInv /\ [Next]_vars => FenceInv' /\ (PublishesAsShown \/ UNCHANGED vars)
  <1> SUFFICES ASSUME FenceInv, [Next]_vars
               PROVE  FenceInv' /\ (PublishesAsShown \/ UNCHANGED vars)
    OBVIOUS
  <1>1. CASE UNCHANGED vars
    <2>1. UNCHANGED store /\ tx' = tx /\ UNCHANGED <<admitted, left>>  BY <1>1 DEF vars, store
    <2>2. StoreInv' /\ \A t \in Sessions : TxInv(t)'
      BY <2>1 DEF FenceInv, StoreInv, FenceType, PinsInv, DefinitionPins, OverlayPins, Identity,
                  ObjectInv, Pins, store, TxInv, ShownInv, TargetInv, ActivatingInv, ServedInv
    <2>3. LocksInv' /\ DOMAIN tx' = Sessions  BY <2>1 DEF FenceInv, LocksInv
    <2> QED BY <1>1, <2>1, <2>2, <2>3, Unmoved DEF FenceInv
  <1>2. CASE Next
    <2>1. PICK s \in Sessions :
             \/ StartActivation(s) \/ Disable(s) \/ CreateDefinition(s)
             \/ PreflightDefinition(s) \/ ReadDefinition(s) \/ ReadOverlay(s)
             \/ Denied(s) \/ Continue(s)
      BY <1>2 DEF Next
    <2>2. CASE PublicationStep(s)
      BY <2>2, PublishInv, ReactivateInv, RetireInv, PublishOverlayInv, ReactivateOverlayInv,
         RetireOverlayInv DEF PublicationStep
    <2>3. CASE ~PublicationStep(s)
      <3>1. FenceInv'
        BY <2>1, <2>3, StartActivationInv, DisableInv, CreateDefinitionInv, PreflightDefinitionInv,
           ReadDefinitionInv, ReadOverlayInv, EndingInv, LockModuleInv, LockRowInv,
           ActivationReadInv, ActivationWriteInv, CommitActivationInv, PublishContributionsInv,
           BeginDefinitionInv, BeginUIInv, EditDraftInv, CreateOverlayInv, EditOverlayInv, ServeInv
           DEF Continue, PublicationStep
      <3>2. PublishesAsShown
        <4>0. ObjectInv(definition, revisions) /\ ObjectInv(overlay, ui_revisions)
          BY DEF FenceInv, StoreInv
        <4>1. CASE CreateDefinition(s)  BY <4>1, NothingShown DEF CreateDefinition, NoObject
        <4>2. CASE CreateOverlay(s) \/ EditDraft(s) \/ EditOverlay(s)
          <5>1. CASE Refused(s)  BY <5>1, RefusedShown
          <5>2. CASE ~Refused(s)
            <6>1. /\ UNCHANGED <<revisions, ui_revisions>>
                  /\ definition'.active = definition.active \/ definition'.active = 0
                  /\ overlay'.active = overlay.active \/ overlay'.active = 0
                  /\ definition.lifecycle = "retired" => definition'.lifecycle = "retired"
                  /\ overlay.lifecycle = "retired" => overlay'.lifecycle = "retired"
              BY <4>0, <4>2, <5>2 DEF CreateOverlay, EditDraft, EditOverlay, ObjectInv, NoObject
            <6> QED BY <6>1, NothingShown
          <5> QED BY <5>1, <5>2
        <4>3. CASE ~(CreateDefinition(s) \/ CreateOverlay(s) \/ EditDraft(s) \/ EditOverlay(s))
          <5>1. UNCHANGED <<definition, revisions, overlay, ui_revisions>>
            BY <2>1, <2>3, <4>3
               DEF Continue, PublicationStep, StartActivation, Disable, PreflightDefinition,
                   ReadDefinition, ReadOverlay, Denied, LockModule, LockRow, LockTimeout,
                   ActivationRead, ActivationWrite, CommitActivation, PublishContributions,
                   ActivationFails, BeginDefinition, BeginUI, Serve, Complete
          <5> QED BY <5>1, NothingShown
        <4> QED BY <4>1, <4>2, <4>3
      <3> QED BY <3>1, <3>2
    <2> QED BY <2>2, <2>3
  <1> QED BY <1>1, <1>2

\* The fence is exact: every active revision pins the identities that the modules durably
\* have, each module counts exactly the revisions that pin it, and what a resolver has
\* answered and not yet completed was composed from both (module_fence and its counter
\* trigger, MetadataActivationFence, ResolvePublishedUI).
THEOREM FenceStaysSound == Spec => []FenceSound
  <1>1. Init => FenceInv  BY InitInv
  <1>2. FenceInv /\ [Next]_vars => FenceInv'  BY NextInv
  <1>3. FenceInv => FenceSound  BY InvImpliesSound
  <1> QED BY <1>1, <1>2, <1>3, PTL DEF Spec

\* A revision becomes active only from the draft, the active revision and the module
\* identities that its publisher was shown; histories are only appended to, and what is
\* retired stays so (PublishDefinition, ReactivateDefinition and the overlay's commands).
THEOREM OnlyAsShown == Spec => PublishedAsShown
  <1>1. Init => FenceInv  BY InitInv
  <1>2. FenceInv /\ [Next]_vars => FenceInv'  BY NextInv
  <1>3. FenceInv /\ [Next]_vars => [PublishesAsShown]_vars  BY NextInv
  <1> QED BY <1>1, <1>2, <1>3, PTL DEF Spec, PublishedAsShown

=============================================================================
