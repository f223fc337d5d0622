-------------------- MODULE RecordsAndOrganizationProofs ---------------------
(***************************************************************************)
(* For every value of the constants: message dispatch, the audit trail,    *)
(* parties, classification, custom entities and tenants keep their         *)
(* promises, what is committed agrees with the tables at the commit, and   *)
(* the company hierarchy is sound and what was decided about it stands.    *)
(*                                                                         *)
(* All arguments have one shape.  A transaction reads and checks at one    *)
(* await and writes at a later one, so the inductive invariant says of     *)
(* each await what the transaction has found out that nobody can change    *)
(* before it commits: it holds the row or advisory lock under which the    *)
(* others would change it, a version or a serial number would make its own *)
(* write fail, or what was found only grows.  Every row of the hierarchy   *)
(* owes its lineage to rows with lower numbers, so what is above it is     *)
(* found by well-founded induction and never changes.                      *)
(***************************************************************************)
EXTENDS MCRecords, OrganizationScopes, FiniteSetTheorems, WellFoundedInduction, TLAPS

------------------------
(* Sets of numbers, and sets with at most one member. *)

LEMMA LeastNumber ==
    ASSUME NEW T, T \subseteq Nat, T # {}
    PROVE  \E x \in T : \A y \in T : x <= y
  <1>1. PICK x \in T : \A y \in T : ~ (<<y, x>> \in OpToRel(<, Nat))  BY NatLessThanWellFounded, WFMin
  <1>2. ASSUME NEW y \in T PROVE x <= y
    <2>1. ~ (<<y, x>> \in OpToRel(<, Nat))  BY <1>1
    <2>2. ~ (y < x)  BY <2>1 DEF OpToRel
    <2> QED BY <2>2
  <1> QED BY <1>2

LEMMA AtMostOne ==
    ASSUME NEW S, \A a, b \in S : a = b
    PROVE  IsFiniteSet(S) /\ Cardinality(S) <= 1
  <1>1. CASE S = {}  BY <1>1, FS_EmptySet
  <1>2. CASE S # {}
    <2>1. PICK a \in S : S = {a}  BY <1>2
    <2>2. IsFiniteSet({a}) /\ Cardinality({a}) = 1  BY FS_Singleton
    <2> QED BY <2>1, <2>2
  <1> QED BY <1>1, <1>2

------------------------
(* Message dispatch. *)

\* What the stage of a frame says about its transaction and its outcome
StageInv(f) ==
    /\ f.kind = "job" => f.tx = "none"
    /\ f.kind = "job" => f.stage \notin {"open", "complete", "commit", "close", "scope"}
    /\ f.stage \in {"authorize", "open"} => f.tx = "none" /\ ~ f.failed
    /\ f.stage \in {"handler", "complete", "commit"} => ~ f.failed
    /\ f.stage \in {"handler", "complete", "commit"} /\ f.kind # "job" => f.tx = "open"
    /\ f.stage \in {"scope", "gate", "boundary"} => f.tx # "open"
    /\ f.stage = "commit" => f.kind # "query" /\ f.entered = f.guards
    /\ f.tx = "committed" => f.kind # "query" /\ f.entered = f.guards
    /\ f.stage \in {"close", "scope", "gate", "boundary"} /\ f.kind \in {"command", "publication"}
           /\ ~ f.failed => f.tx = "committed"

\* What the unit of work draws on has been admitted, and by whom
DrawsInv(f) ==
    /\ f.providers \subseteq f.admitted
    /\ f.validated \subseteq f.providers
    /\ f.writes \subseteq f.admitted \cup {f.owner}
    /\ f.stage # "handler" => f.providers = {}
    /\ f.providers # {} => f.owner \in Coordinators
    /\ f.writes \subseteq {f.owner} \/ f.owner \in Coordinators

\* No admission of a frame is of a removed generation
LiveInv(f) ==
    /\ f.stage # "boundary" => gate[f.owner] # "removed"
    /\ \A g \in f.admitted \cup f.retained : gate[g] # "removed"

FrameInv(f) == f \in Dispatch!Frame /\ StageInv(f) /\ DrawsInv(f) /\ LiveInv(f)

TaskInv(t) ==
    /\ Dispatch!Depth(t) <= MaxDepth
    /\ \A i \in 1 .. Dispatch!Depth(t) : FrameInv(stack[t][i])
    /\ \A i, j \in 1 .. Dispatch!Depth(t) :
         i < j /\ Dispatch!HasUnit(stack[t][j]) => stack[t][i].admitted = {}

\* The inductive invariant
DispatchInv == Dispatch!TypeOK /\ stack \in [Tasks -> Seq(Dispatch!Frame)] /\ \A t \in Tasks : TaskInv(t)

------------------------
\* The invariant says of every frame what DispatchSound says.
LEMMA InvImpliesSound == DispatchInv => Dispatch!DispatchSound
  <1> SUFFICES ASSUME DispatchInv PROVE Dispatch!DispatchSound  OBVIOUS
  <1>1. ASSUME NEW x \in Dispatch!Frames
        PROVE  /\ x[1] \in Tasks /\ x[2] \in 1 .. Dispatch!Depth(x[1]) /\ TaskInv(x[1])
               /\ FrameInv(Dispatch!FrameAt(x))
    <2>1. /\ x[1] \in Tasks /\ x[2] \in 1 .. MaxDepth /\ x[2] <= Dispatch!Depth(x[1])
          /\ Dispatch!Depth(x[1]) \in Nat
      BY BoundsAssumption DEF Dispatch!Frames, DispatchInv, Dispatch!Depth
    <2>2. x[2] \in 1 .. Dispatch!Depth(x[1]) /\ TaskInv(x[1])  BY <2>1 DEF DispatchInv
    <2> QED BY <2>1, <2>2 DEF TaskInv, Dispatch!FrameAt
  <1>2. Dispatch!UnitIsProtected  BY <1>1 DEF Dispatch!UnitIsProtected, FrameInv, LiveInv, DrawsInv
  <1>3. Dispatch!OutcomeIsHonest  BY <1>1 DEF Dispatch!OutcomeIsHonest, FrameInv, StageInv, DrawsInv
  <1>4. Dispatch!NoLeaseAcrossDispatch  BY <1>1 DEF Dispatch!NoLeaseAcrossDispatch, Dispatch!FrameAt, TaskInv
  <1> QED BY <1>2, <1>3, <1>4 DEF Dispatch!DispatchSound, DispatchInv

\* No task dispatches at the start.
LEMMA InitInv == Dispatch!Init => DispatchInv
  BY BoundsAssumption DEF Dispatch!Init, DispatchInv, Dispatch!TypeOK, TaskInv, Dispatch!Depth

Moves(t, f) == Dispatch!Depth(t) > 0 /\ Dispatch!Become(t, f) /\ UNCHANGED <<gate, dispatched>>

\* A step that changes the last frame of a task, to one of the same kind that satisfies the
\* frame's invariant, with the generations as they were, keeps the invariant.
LEMMA BecomeKeeps ==
    ASSUME DispatchInv, NEW t \in Tasks, NEW f, Moves(t, f), FrameInv(f), f.kind = Dispatch!Top(t).kind
    PROVE  DispatchInv'
  <1> DEFINE d == Dispatch!Depth(t)
  <1> USE DEF Moves
  <1>0. stack[t] \in Seq(Dispatch!Frame) /\ d \in Nat /\ d > 0 /\ f \in Dispatch!Frame /\ d = Len(stack[t])
    BY DEF DispatchInv, FrameInv, Dispatch!Depth
  <1>1. stack' = [stack EXCEPT ![t] = [stack[t] EXCEPT ![d] = f]]  BY DEF Dispatch!Become
  <1>2. [stack[t] EXCEPT ![d] = f] \in Seq(Dispatch!Frame) /\ Len([stack[t] EXCEPT ![d] = f]) = d  BY <1>0
  <1>3. stack' \in [Tasks -> Seq(Dispatch!Frame)]  BY <1>1, <1>2 DEF DispatchInv
  <1>4. Dispatch!TypeOK'  BY <1>3 DEF Dispatch!TypeOK, DispatchInv
  <1>5. ASSUME NEW u \in Tasks PROVE TaskInv(u)'
    <2>1. TaskInv(u)  BY DEF DispatchInv
    <2>2. CASE u # t
      <3>1. stack'[u] = stack[u]  BY <1>1, <2>2 DEF DispatchInv
      <3> QED BY <2>1, <3>1 DEF TaskInv, Dispatch!Depth, Dispatch!HasUnit, FrameInv, StageInv, DrawsInv, LiveInv
    <2>3. CASE u = t
      <3>1. stack'[t] = [stack[t] EXCEPT ![d] = f]  BY <1>1 DEF DispatchInv
      <3>2. Dispatch!Depth(t)' = d  BY <1>2, <3>1 DEF Dispatch!Depth
      <3>3. \A i \in 1 .. d : i # d => stack'[t][i] = stack[t][i]  BY <1>0, <3>1
      <3>4. stack'[t][d] = f  BY <1>0, <3>1
      <3>5. ASSUME NEW i \in 1 .. d PROVE FrameInv(stack'[t][i])  BY <2>1, <2>3, <3>3, <3>4, <3>5 DEF TaskInv
      <3>6. \A i \in 1 .. d : FrameInv(stack[t][i])'  BY <3>5 DEF FrameInv, StageInv, DrawsInv, LiveInv
      <3>7. ASSUME NEW i \in 1 .. d, NEW j \in 1 .. d, i < j, Dispatch!HasUnit(stack'[t][j])
            PROVE  stack'[t][i].admitted = {}
        <4>1. i # d /\ Dispatch!HasUnit(stack[t][j])
          BY <1>0, <3>3, <3>4, <3>7 DEF Dispatch!HasUnit, Dispatch!Top
        <4> QED BY <2>1, <2>3, <3>3, <3>7, <4>1 DEF TaskInv
      <3> QED BY <2>1, <2>3, <3>2, <3>6, <3>7 DEF TaskInv, Dispatch!HasUnit
    <2> QED BY <2>2, <2>3
  <1> QED BY <1>3, <1>4, <1>5 DEF DispatchInv

\* The frame that runs satisfies the frame's invariant.
LEMMA TopFacts ==
    ASSUME DispatchInv, NEW t \in Tasks, Dispatch!Depth(t) > 0
    PROVE  FrameInv(Dispatch!Top(t))
  <1>1. Dispatch!Depth(t) \in 1 .. Dispatch!Depth(t)  BY DEF DispatchInv, Dispatch!Depth
  <1> QED BY <1>1 DEF DispatchInv, TaskInv, Dispatch!Top

------------------------
(* Each step keeps the invariant. *)

\* A new frame draws on nothing yet but its own active generation; if it has a
\* transaction, those below it hold no admission.
LEMMA DispatchKeeps ==
    ASSUME DispatchInv, NEW t \in Tasks, NEW kind \in Dispatch!Kinds, NEW g \in Generations,
           Dispatch!Enter(t, kind, g), kind = "job" \/ Dispatch!NestingAllowed(t)
    PROVE  DispatchInv'
  <1> DEFINE new == [kind |-> kind, owner |-> g, stage |-> "authorize", tx |-> "none",
                     admitted |-> {}, providers |-> {}, validated |-> {}, writes |-> {},
                     retained |-> {}, guards |-> 0, entered |-> 0, failed |-> FALSE]
             d == Dispatch!Depth(t)
  <1>0. stack[t] \in Seq(Dispatch!Frame) /\ d \in Nat /\ d = Len(stack[t]) /\ TaskInv(t)
    BY DEF DispatchInv, Dispatch!Depth
  <1>1. new \in Dispatch!Frame  BY BoundsAssumption DEF Dispatch!Frame, Dispatch!Stages
  <1>2. FrameInv(new)  BY <1>1 DEF FrameInv, StageInv, DrawsInv, LiveInv, Dispatch!Enter
  <1>3. stack' = [stack EXCEPT ![t] = Append(stack[t], new)] /\ gate' = gate
        /\ dispatched' = dispatched + 1 /\ dispatched < MaxDispatches /\ d < MaxDepth
    BY DEF Dispatch!Enter
  <1>9. Dispatch!HasUnit(new) => Dispatch!NestingAllowed(t)  BY DEF Dispatch!HasUnit
  <1> HIDE DEF new
  <1>4. /\ Append(stack[t], new) \in Seq(Dispatch!Frame)
        /\ Len(Append(stack[t], new)) = d + 1
        /\ Append(stack[t], new)[d + 1] = new
        /\ \A i \in 1 .. d : Append(stack[t], new)[i] = stack[t][i]
    BY <1>0, <1>1
  <1>5. stack' \in [Tasks -> Seq(Dispatch!Frame)]  BY <1>3, <1>4 DEF DispatchInv
  <1>6. Dispatch!TypeOK'  BY <1>3, <1>5, BoundsAssumption DEF Dispatch!TypeOK, DispatchInv
  <1>7. ASSUME NEW i \in 1 .. d, Dispatch!HasUnit(new) PROVE stack[t][i].admitted = {}
    <2>1. CASE \E j \in i + 1 .. d : Dispatch!HasUnit(stack[t][j])  BY <1>0, <2>1 DEF TaskInv
    <2>2. CASE \A j \in i + 1 .. d : ~ Dispatch!HasUnit(stack[t][j])
      BY <1>7, <1>9, <2>2 DEF Dispatch!NestingAllowed
    <2> QED BY <2>1, <2>2
  <1>8. ASSUME NEW u \in Tasks PROVE TaskInv(u)'
    <2>1. TaskInv(u)  BY DEF DispatchInv
    <2>2. CASE u # t
      <3>1. stack'[u] = stack[u]  BY <1>3, <2>2 DEF DispatchInv
      <3>2. \A i \in 1 .. Dispatch!Depth(u) : FrameInv(stack'[u][i])  BY <2>1, <3>1 DEF TaskInv
      <3>3. \A i \in 1 .. Dispatch!Depth(u) : FrameInv(stack[u][i])'
        BY <1>3, <3>2, ZenonT(40) DEF FrameInv, StageInv, DrawsInv, LiveInv
      <3> QED BY <2>1, <3>1, <3>3 DEF TaskInv, Dispatch!Depth, Dispatch!HasUnit
    <2>3. CASE u = t
      <3>1. stack'[t] = Append(stack[t], new)  BY <1>3 DEF DispatchInv
      <3>2. Dispatch!Depth(t)' = d + 1  BY <1>4, <3>1 DEF Dispatch!Depth
      <3>3. ASSUME NEW i \in 1 .. d + 1 PROVE FrameInv(stack'[t][i])  BY <1>0, <1>2, <1>4, <3>1 DEF TaskInv
      <3>4. \A i \in 1 .. d + 1 : FrameInv(stack[t][i])'
        BY <1>3, <3>3, ZenonT(40) DEF FrameInv, StageInv, DrawsInv, LiveInv
      <3>5. ASSUME NEW i \in 1 .. d + 1, NEW j \in 1 .. d + 1, i < j,
                   Dispatch!HasUnit(stack'[t][j])
            PROVE  stack'[t][i].admitted = {}
        <4>1. CASE j = d + 1  BY <1>0, <1>4, <1>7, <3>1, <3>5, <4>1
        <4>2. CASE j # d + 1  BY <1>0, <1>4, <3>1, <3>5, <4>2 DEF TaskInv
        <4> QED BY <4>1, <4>2
      <3> QED BY <1>0, <1>3, <2>3, <3>2, <3>4, <3>5, BoundsAssumption DEF TaskInv, Dispatch!HasUnit
    <2> QED BY <2>2, <2>3
  <1> QED BY <1>5, <1>6, <1>8 DEF DispatchInv

\* What a handler does adds to what its unit of work draws on only what is admitted.
LEMMA HandlerKeeps ==
    ASSUME DispatchInv, NEW t \in Tasks, Dispatch!HandlerStep(t)
    PROVE  DispatchInv'
  <1> DEFINE p == Dispatch!Top(t)
  <1>1. ASSUME NEW i \in 1 .. Dispatch!Depth(t), Dispatch!OwnerWrite(t, i) PROVE DispatchInv'
    <2>1. FrameInv(p)  BY <1>1, TopFacts DEF Dispatch!OwnerWrite, Dispatch!Current, Dispatch!At
    <2> DEFINE f == [p EXCEPT !.writes = @ \cup {p.owner}]
    <2>2. Moves(t, f)
      BY <1>1 DEF Moves, Dispatch!OwnerWrite, Dispatch!Current, Dispatch!At, Dispatch!InvocationLive, Dispatch!Top
    <2>3. FrameInv(f) /\ f.kind = p.kind  BY <2>1 DEF FrameInv, Dispatch!Frame, StageInv, DrawsInv, LiveInv
    <2> HIDE DEF f
    <2> QED BY <2>2, <2>3, BecomeKeeps
  <1>2. ASSUME NEW g \in Generations, Dispatch!ResolveProvider(t, g) PROVE DispatchInv'
    <2>1. FrameInv(p)  BY <1>2, TopFacts DEF Dispatch!ResolveProvider, Dispatch!Current, Dispatch!At
    <2>2. PICK byOperation \in BOOLEAN :
            /\ byOperation => p.owner \in Coordinators /\ gate[p.owner] = "active"
            /\ Dispatch!Become(t, [p EXCEPT !.admitted = @ \cup {g},
                                        !.providers = IF byOperation THEN @ \cup {g} ELSE @])
      BY <1>2 DEF Dispatch!ResolveProvider
    <2> DEFINE f == [p EXCEPT !.admitted = @ \cup {g},
                                   !.providers = IF byOperation THEN @ \cup {g} ELSE @]
    <2>3. Moves(t, f) /\ gate[g] = "active"
          /\ p.stage = "handler"
      BY <1>2, <2>2 DEF Moves, Dispatch!ResolveProvider, Dispatch!Current, Dispatch!At
    <2>4. FrameInv(f) /\ f.kind = p.kind
      <3>1. CASE byOperation
        BY <2>1, <2>2, <2>3, <3>1 DEF FrameInv, Dispatch!Frame, StageInv, DrawsInv, LiveInv
      <3>2. CASE ~ byOperation
        BY <2>1, <2>2, <2>3, <3>2 DEF FrameInv, Dispatch!Frame, StageInv, DrawsInv, LiveInv
      <3> QED BY <3>1, <3>2
    <2> HIDE DEF f
    <2> QED BY <2>3, <2>4, BecomeKeeps
  <1>3. ASSUME NEW g \in Generations, Dispatch!ValidateOperation(t, g) PROVE DispatchInv'
    <2>1. FrameInv(p)  BY <1>3, TopFacts DEF Dispatch!ValidateOperation, Dispatch!Current, Dispatch!At
    <2> DEFINE f == [p EXCEPT !.validated = @ \cup {g}]
    <2>2. Moves(t, f) /\ g \in p.providers
      BY <1>3 DEF Moves, Dispatch!ValidateOperation, Dispatch!Current, Dispatch!At
    <2>3. FrameInv(f) /\ f.kind = p.kind  BY <2>1, <2>2 DEF FrameInv, Dispatch!Frame, StageInv, DrawsInv, LiveInv
    <2> HIDE DEF f
    <2> QED BY <2>2, <2>3, BecomeKeeps
  <1>4. ASSUME NEW g \in Generations, Dispatch!ApplyOperation(t, g) PROVE DispatchInv'
    <2>1. FrameInv(p)  BY <1>4, TopFacts DEF Dispatch!ApplyOperation, Dispatch!Current, Dispatch!At
    <2> DEFINE f == [p EXCEPT !.validated = @ \ {g}, !.writes = @ \cup {g}]
    <2>2. Moves(t, f) /\ g \in p.validated
      BY <1>4 DEF Moves, Dispatch!ApplyOperation, Dispatch!Current, Dispatch!At
    <2>3. FrameInv(f) /\ f.kind = p.kind  BY <2>1, <2>2 DEF FrameInv, Dispatch!Frame, StageInv, DrawsInv, LiveInv
    <2> HIDE DEF f
    <2> QED BY <2>2, <2>3, BecomeKeeps
  <1>5. ASSUME NEW g \in Generations, Dispatch!Retain(t, g) PROVE DispatchInv'
    <2>1. FrameInv(p)  BY <1>5, TopFacts DEF Dispatch!Retain, Dispatch!Current, Dispatch!At
    <2> DEFINE f == [p EXCEPT !.retained = @ \cup {g}, !.guards = @ + 1]
    <2>2. Moves(t, f) /\ gate[g] = "active"
          /\ p.guards < MaxGuards /\ p.stage = "handler" /\ p.tx = "open"
      BY <1>5 DEF Moves, Dispatch!Retain, Dispatch!Current, Dispatch!At
    <2>5. p \in Dispatch!Frame /\ p.guards + 1 \in 0 .. MaxGuards
          /\ p.retained \cup {g} \in SUBSET Generations
      BY <2>1, <2>2, BoundsAssumption DEF FrameInv, Dispatch!Frame
    <2>3. f \in Dispatch!Frame /\ f.kind = p.kind  BY <2>5 DEF Dispatch!Frame
    <2>4. StageInv(f) /\ DrawsInv(f) /\ LiveInv(f)
      BY <2>1, <2>2 DEF FrameInv, Dispatch!Frame, StageInv, DrawsInv, LiveInv
    <2> HIDE DEF f
    <2> QED BY <2>2, <2>3, <2>4, BecomeKeeps DEF FrameInv
  <1> QED BY <1>1, <1>2, <1>3, <1>4, <1>5 DEF Dispatch!HandlerStep

\* A handler that returns leaves its unit of work to the framework.
LEMMA ReturnKeeps ==
    ASSUME DispatchInv, NEW t \in Tasks, Dispatch!Return(t)
    PROVE  DispatchInv'
  <1> DEFINE p == Dispatch!Top(t)
  <1>1. FrameInv(p)  BY TopFacts DEF Dispatch!Return, Dispatch!At
  <1> DEFINE f == [p EXCEPT !.stage = IF Dispatch!HasUnit(p) THEN "complete" ELSE "gate",
                                 !.providers = {}, !.validated = {}]
  <1>2. Moves(t, f) /\ p.stage = "handler"  BY DEF Moves, Dispatch!Return, Dispatch!At
  <1>3. f \in Dispatch!Frame /\ f.kind = p.kind  BY <1>1, <1>2 DEF FrameInv, Dispatch!Frame, Dispatch!Stages
  <1>4. StageInv(f) /\ DrawsInv(f) /\ LiveInv(f)
    BY <1>1, <1>2 DEF FrameInv, Dispatch!Frame, StageInv, DrawsInv, LiveInv, Dispatch!HasUnit
  <1> HIDE DEF f
  <1> QED BY <1>2, <1>3, <1>4, BecomeKeeps DEF FrameInv

\* A failure drops what the handler held for itself, and rolls back unless the
\* commit had begun.
LEMMA FailKeeps ==
    ASSUME DispatchInv, NEW t \in Tasks, Dispatch!Fail(t)
    PROVE  DispatchInv'
  <1> DEFINE p == Dispatch!Top(t)
  <1>1. FrameInv(p) /\ Dispatch!Depth(t) > 0  BY TopFacts DEF Dispatch!Fail
  <1>2. PICK outcome \in {p.tx} \cup (IF Dispatch!At(t, "commit") THEN {"committed"} ELSE {}) :
          Dispatch!Become(t, [p EXCEPT !.failed = TRUE, !.tx = outcome, !.providers = {}, !.validated = {},
                                   !.stage = CASE p.tx # "none" -> "close"
                                               [] Dispatch!At(t, "open") -> "scope"
                                               [] OTHER -> "gate"])
    BY DEF Dispatch!Fail
  <1>3. PICK stage : stage = CASE p.tx # "none" -> "close"
                               [] Dispatch!At(t, "open") -> "scope"
                               [] OTHER -> "gate"
    OBVIOUS
  <1>4. /\ p.tx # "none" => stage = "close"
        /\ p.tx = "none" /\ p.stage = "open" => stage = "scope"
        /\ p.tx = "none" /\ p.stage # "open" => stage = "gate"
    <2>1. (Dispatch!At(t, "open") <=> p.stage = "open") /\ (Dispatch!At(t, "open") => p.tx = "none")
      BY <1>1 DEF Dispatch!At, FrameInv, StageInv
    <2>2. CASE p.tx # "none"  BY <1>3, <2>1, <2>2
    <2>3. CASE p.tx = "none" /\ Dispatch!At(t, "open")  BY <1>3, <2>1, <2>3
    <2>4. CASE p.tx = "none" /\ ~ Dispatch!At(t, "open")  BY <1>3, <2>1, <2>4
    <2> QED BY <2>2, <2>3, <2>4
  <1>5. \/ outcome = p.tx
        \/ outcome = "committed" /\ p.stage = "commit"
    BY <1>2 DEF Dispatch!At
  <1> DEFINE f == [p EXCEPT !.failed = TRUE, !.tx = outcome, !.providers = {}, !.validated = {},
                                 !.stage = stage]
  <1>6. Moves(t, f)
        /\ p.stage \in {"authorize", "open", "handler", "complete", "commit"}
    BY <1>1, <1>2, <1>3 DEF Moves, Dispatch!Fail
  <1>7. f \in Dispatch!Frame /\ f.kind = p.kind  BY <1>1, <1>4, <1>5 DEF FrameInv, Dispatch!Frame, Dispatch!Stages
  <1>8. StageInv(f)  BY <1>1, <1>4, <1>5, <1>6 DEF FrameInv, Dispatch!Frame, StageInv
  <1>9. DrawsInv(f) /\ LiveInv(f)  BY <1>1, <1>4, <1>6 DEF FrameInv, Dispatch!Frame, DrawsInv, LiveInv
  <1> HIDE DEF f
  <1> QED BY <1>1, <1>6, <1>7, <1>8, <1>9, BecomeKeeps DEF FrameInv

\* The framework's steps take the unit of work through its stages in order, and the owners'
\* admissions go only after the transaction has ended.
LEMMA FrameworkKeeps ==
    ASSUME DispatchInv, NEW t \in Tasks, Dispatch!FrameworkStep(t), ~ Dispatch!CloseBoundary(t)
    PROVE  DispatchInv'
  <1> DEFINE p == Dispatch!Top(t)
  <1>0. Dispatch!Depth(t) > 0
    BY DEF Dispatch!FrameworkStep, Dispatch!Authorize, Dispatch!OpenUnit, Dispatch!EnterGuard, Dispatch!Completed, Dispatch!Commit, Dispatch!CloseUnit, Dispatch!CloseScope,
           Dispatch!LeaveGate, Dispatch!At
  <1>1. FrameInv(p) /\ p \in Dispatch!Frame  BY <1>0, TopFacts DEF FrameInv
  <1> USE DEF FrameInv, Dispatch!Frame, Dispatch!Stages, StageInv, DrawsInv, LiveInv, Dispatch!At
  <1>2. CASE Dispatch!Authorize(t)
    <2> DEFINE f == [p EXCEPT !.stage = IF Dispatch!HasUnit(p) THEN "open" ELSE "handler"]
    <2>1. Moves(t, f) /\ p.stage = "authorize"  BY <1>0, <1>2 DEF Moves, Dispatch!Authorize
    <2>2. FrameInv(f) /\ f.kind = p.kind  BY <1>1, <2>1 DEF Dispatch!HasUnit
    <2> HIDE DEF f, FrameInv
    <2> QED BY <2>1, <2>2, BecomeKeeps
  <1>3. CASE Dispatch!OpenUnit(t)
    <2> DEFINE f == [p EXCEPT !.stage = "handler", !.tx = "open"]
    <2>1. Moves(t, f) /\ p.stage = "open"  BY <1>0, <1>3 DEF Moves, Dispatch!OpenUnit
    <2>2. FrameInv(f) /\ f.kind = p.kind  BY <1>1, <2>1
    <2> HIDE DEF f, FrameInv
    <2> QED BY <2>1, <2>2, BecomeKeeps
  <1>4. CASE Dispatch!EnterGuard(t)
    <2> DEFINE f == [p EXCEPT !.entered = @ + 1]
    <2>1. Moves(t, f) /\ p.stage = "complete"
          /\ p.entered < p.guards
      BY <1>0, <1>4 DEF Moves, Dispatch!EnterGuard
    <2>2. p.entered + 1 \in 0 .. MaxGuards  BY <1>1, <2>1, BoundsAssumption
    <2>3. f \in Dispatch!Frame /\ f.kind = p.kind  BY <1>1, <2>2
    <2>4. StageInv(f) /\ DrawsInv(f) /\ LiveInv(f)  BY <1>1, <2>1
    <2> HIDE DEF f, FrameInv
    <2> QED BY <2>1, <2>3, <2>4, BecomeKeeps DEF FrameInv
  <1>5. CASE Dispatch!Completed(t)
    <2> DEFINE f == [p EXCEPT !.stage = IF p.kind = "query" THEN "close" ELSE "commit"]
    <2>1. Moves(t, f) /\ p.stage = "complete"
          /\ p.entered = p.guards
      BY <1>0, <1>5 DEF Moves, Dispatch!Completed
    <2>2. FrameInv(f) /\ f.kind = p.kind  BY <1>1, <2>1
    <2> HIDE DEF f, FrameInv
    <2> QED BY <2>1, <2>2, BecomeKeeps
  <1>6. CASE Dispatch!Commit(t)
    <2> DEFINE f == [p EXCEPT !.stage = "close", !.tx = "committed"]
    <2>1. Moves(t, f) /\ p.stage = "commit"  BY <1>0, <1>6 DEF Moves, Dispatch!Commit
    <2>2. FrameInv(f) /\ f.kind = p.kind  BY <1>1, <2>1
    <2> HIDE DEF f, FrameInv
    <2> QED BY <2>1, <2>2, BecomeKeeps
  <1>7. CASE Dispatch!CloseUnit(t)
    <2>1. PICK raised \in {p.failed, TRUE} :
            Dispatch!Become(t, [p EXCEPT !.stage = "scope", !.failed = raised,
                                     !.tx = IF @ = "open" THEN "rolledback" ELSE @])
      BY <1>7 DEF Dispatch!CloseUnit
    <2> DEFINE f == [p EXCEPT !.stage = "scope", !.failed = raised,
                                   !.tx = IF @ = "open" THEN "rolledback" ELSE @]
    <2>2. Moves(t, f) /\ p.stage = "close"  BY <1>0, <1>7, <2>1 DEF Moves, Dispatch!CloseUnit
    <2>3. raised \in BOOLEAN /\ (~ raised => ~ p.failed)  BY <1>1
    <2>4. f \in Dispatch!Frame /\ f.kind = p.kind  BY <1>1, <2>3
    <2>5. /\ f.kind = p.kind /\ f.stage = "scope" /\ f.failed = raised
          /\ f.entered = p.entered /\ f.guards = p.guards
          /\ f.tx = IF p.tx = "open" THEN "rolledback" ELSE p.tx
      BY <1>1
    <2>6. StageInv(f)
      <3>1. CASE raised = TRUE  BY <1>1, <2>2, <2>5, <3>1
      <3>2. CASE raised = p.failed  BY <1>1, <2>2, <2>5, <3>2
      <3> QED BY <2>1, <3>1, <3>2
    <2>7. DrawsInv(f) /\ LiveInv(f)  BY <1>1, <2>2, <2>3
    <2> HIDE DEF f, FrameInv
    <2> QED BY <2>2, <2>4, <2>6, <2>7, BecomeKeeps DEF FrameInv
  <1>8. CASE Dispatch!CloseScope(t)
    <2> DEFINE f == [p EXCEPT !.stage = "gate", !.admitted = {}, !.writes = {}]
    <2>1. Moves(t, f) /\ p.stage = "scope"  BY <1>0, <1>8 DEF Moves, Dispatch!CloseScope
    <2>3. f \in Dispatch!Frame /\ f.kind = p.kind  BY <1>1
    <2>4. /\ f.kind = p.kind /\ f.stage = "gate" /\ f.failed = p.failed
          /\ f.entered = p.entered /\ f.guards = p.guards /\ f.tx = p.tx
      BY <1>1
    <2>5. StageInv(f)  BY <1>1, <2>1, <2>4
    <2>6. /\ f.admitted = {} /\ f.writes = {} /\ f.retained = p.retained
          /\ f.owner = p.owner /\ f.providers = p.providers
          /\ f.validated = p.validated
      BY <1>1
    <2>2. DrawsInv(f) /\ LiveInv(f)  BY <1>1, <2>1, <2>6
    <2> HIDE DEF f, FrameInv
    <2> QED BY <2>1, <2>2, <2>3, <2>5, BecomeKeeps DEF FrameInv
  <1>9. CASE Dispatch!LeaveGate(t)
    <2> DEFINE f == [p EXCEPT !.stage = "boundary"]
    <2>1. Moves(t, f) /\ p.stage = "gate"  BY <1>0, <1>9 DEF Moves, Dispatch!LeaveGate
    <2>2. FrameInv(f) /\ f.kind = p.kind  BY <1>1, <2>1
    <2> HIDE DEF f, FrameInv
    <2> QED BY <2>1, <2>2, BecomeKeeps
  <1> QED BY <1>2, <1>3, <1>4, <1>5, <1>6, <1>7, <1>8, <1>9 DEF Dispatch!FrameworkStep

\* The caller's frame becomes the last one again.
LEMMA CloseBoundaryKeeps ==
    ASSUME DispatchInv, NEW t \in Tasks, Dispatch!CloseBoundary(t)
    PROVE  DispatchInv'
  <1> DEFINE d == Dispatch!Depth(t) rest == SubSeq(stack[t], 1, d - 1)
  <1>0. stack[t] \in Seq(Dispatch!Frame) /\ d \in Nat /\ d > 0 /\ d = Len(stack[t]) /\ TaskInv(t)
    BY DEF DispatchInv, Dispatch!Depth, Dispatch!CloseBoundary, Dispatch!At
  <1>1. stack' = [stack EXCEPT ![t] = rest] /\ UNCHANGED <<gate, dispatched>>  BY DEF Dispatch!CloseBoundary
  <1>2. /\ rest \in Seq(Dispatch!Frame) /\ Len(rest) = d - 1
        /\ \A i \in 1 .. d - 1 : rest[i] = stack[t][i]
    BY <1>0
  <1> HIDE DEF rest
  <1>3. stack' \in [Tasks -> Seq(Dispatch!Frame)]  BY <1>1, <1>2 DEF DispatchInv
  <1>4. Dispatch!TypeOK'  BY <1>1, <1>3 DEF Dispatch!TypeOK, DispatchInv
  <1>5. ASSUME NEW u \in Tasks PROVE TaskInv(u)'
    <2>1. TaskInv(u)  BY DEF DispatchInv
    <2>2. CASE u # t
      <3>1. stack'[u] = stack[u]  BY <1>1, <2>2 DEF DispatchInv
      <3>2. \A i \in 1 .. Dispatch!Depth(u) : FrameInv(stack'[u][i])  BY <2>1, <3>1 DEF TaskInv
      <3>3. \A i \in 1 .. Dispatch!Depth(u) : FrameInv(stack[u][i])'
        BY <1>1, <3>2 DEF FrameInv, StageInv, DrawsInv, LiveInv
      <3> QED BY <2>1, <3>1, <3>3 DEF TaskInv, Dispatch!Depth, Dispatch!HasUnit
    <2>3. CASE u = t
      <3>1. stack'[t] = rest  BY <1>1 DEF DispatchInv
      <3>2. Dispatch!Depth(t)' = d - 1  BY <1>2, <3>1 DEF Dispatch!Depth
      <3>3. \A i \in 1 .. d - 1 : FrameInv(stack'[t][i]) /\ stack'[t][i] = stack[t][i]
        BY <1>0, <1>2, <3>1 DEF TaskInv
      <3>4. \A i \in 1 .. d - 1 : FrameInv(stack[t][i])'
        BY <1>1, <3>3 DEF FrameInv, StageInv, DrawsInv, LiveInv
      <3>5. \A i, j \in 1 .. d - 1 :
              i < j /\ Dispatch!HasUnit(stack'[t][j]) => stack'[t][i].admitted = {}
        BY <1>0, <3>3 DEF TaskInv
      <3> QED BY <1>0, <2>3, <3>2, <3>4, <3>5, BoundsAssumption DEF TaskInv, Dispatch!HasUnit
    <2> QED BY <2>2, <2>3
  <1> QED BY <1>3, <1>4, <1>5 DEF DispatchInv

\* A generation is removed only when no frame counts as in flight on it.
LEMMA LifecycleKeeps ==
    ASSUME DispatchInv, NEW g \in Generations, Dispatch!Drain(g) \/ Dispatch!RemoveGeneration(g)
    PROVE  DispatchInv'
  <1>1. /\ UNCHANGED <<stack, dispatched>>
        /\ gate' \in [Generations -> {"active", "draining", "removed"}]
        /\ \A h \in Generations : gate'[h] = "removed" =>
               gate[h] = "removed" \/ (h = g /\ ~ Dispatch!InFlight(g))
    BY DEF Dispatch!Drain, Dispatch!RemoveGeneration, DispatchInv, Dispatch!TypeOK
  <1>2. Dispatch!TypeOK'  BY <1>1 DEF Dispatch!TypeOK, DispatchInv
  <1>3. ASSUME NEW u \in Tasks PROVE TaskInv(u)'
    <2>1. TaskInv(u)  BY DEF DispatchInv
    <2>2. ASSUME NEW i \in 1 .. Dispatch!Depth(u) PROVE LiveInv(stack[u][i])'
      <3>1. FrameInv(stack[u][i])  BY <2>1 DEF TaskInv
      <3>2. stack[u][i].owner \in Generations
            /\ stack[u][i].admitted \cup stack[u][i].retained \subseteq Generations
        BY <3>1 DEF FrameInv, Dispatch!Frame
      <3>3. ~ Dispatch!InFlight(g) => /\ stack[u][i].owner = g => stack[u][i].stage = "boundary"
                            /\ g \notin stack[u][i].admitted \cup stack[u][i].retained
        BY DEF Dispatch!InFlight
      <3> QED BY <1>1, <3>1, <3>2, <3>3 DEF FrameInv, LiveInv
    <2>3. \A i \in 1 .. Dispatch!Depth(u) : FrameInv(stack[u][i])'
      BY <1>1, <2>1, <2>2 DEF TaskInv, FrameInv, StageInv, DrawsInv
    <2> QED BY <1>1, <2>1, <2>3 DEF TaskInv, Dispatch!Depth, Dispatch!HasUnit
  <1> QED BY <1>1, <1>2, <1>3 DEF DispatchInv

\* A stuttering step keeps the invariant.
LEMMA StutterKeeps == ASSUME DispatchInv, UNCHANGED Dispatch!vars PROVE DispatchInv'
  <1>1. UNCHANGED <<gate, stack, dispatched>>  BY DEF Dispatch!vars
  <1>2. ASSUME NEW u \in Tasks PROVE TaskInv(u)'
    <2>1. TaskInv(u)  BY DEF DispatchInv
    <2>2. \A i \in 1 .. Dispatch!Depth(u) : FrameInv(stack[u][i])'
      BY <1>1, <2>1 DEF TaskInv, FrameInv, StageInv, DrawsInv, LiveInv
    <2> QED BY <1>1, <2>1, <2>2 DEF TaskInv, Dispatch!Depth, Dispatch!HasUnit
  <1> QED BY <1>1, <1>2 DEF DispatchInv, Dispatch!TypeOK

\* Every step keeps the invariant.
LEMMA StepKeeps == DispatchInv /\ [Dispatch!Next]_Dispatch!vars => DispatchInv'
  <1> SUFFICES ASSUME DispatchInv, [Dispatch!Next]_Dispatch!vars PROVE DispatchInv'  OBVIOUS
  <1>1. ASSUME NEW t \in Tasks, NEW g \in Generations,
               \/ Dispatch!InvokeJob(t, g)
               \/ \E kind \in Dispatch!Kinds \ {"job"} : Dispatch!Dispatch(t, kind, g)
        PROVE  DispatchInv'
    BY <1>1, DispatchKeeps DEF Dispatch!InvokeJob, Dispatch!Dispatch, Dispatch!Kinds
  <1>2. ASSUME NEW t \in Tasks, Dispatch!HandlerStep(t) PROVE DispatchInv'  BY <1>2, HandlerKeeps
  <1>3. ASSUME NEW t \in Tasks, Dispatch!Return(t) PROVE DispatchInv'  BY <1>3, ReturnKeeps
  <1>4. ASSUME NEW t \in Tasks, Dispatch!FrameworkStep(t) PROVE DispatchInv'
    BY <1>4, FrameworkKeeps, CloseBoundaryKeeps
  <1>5. ASSUME NEW t \in Tasks, Dispatch!Fail(t) PROVE DispatchInv'  BY <1>5, FailKeeps
  <1>6. ASSUME NEW g \in Generations, Dispatch!Drain(g) \/ Dispatch!RemoveGeneration(g) PROVE DispatchInv'
    BY <1>6, LifecycleKeeps
  <1>7. CASE UNCHANGED Dispatch!vars  BY <1>7, StutterKeeps
  <1> QED BY <1>1, <1>2, <1>3, <1>4, <1>5, <1>6, <1>7 DEF Dispatch!Next

LEMMA DispatchScene == MCSpec => [](scene = "dispatch" => DispatchInv)
  <1>1. MCInit => (scene = "dispatch" => DispatchInv)  BY InitInv DEF MCInit
  <1>2. (scene = "dispatch" => DispatchInv) /\ [MCNext]_allVars => (scene = "dispatch" => DispatchInv)'
    <2> SUFFICES ASSUME scene = "dispatch" => DispatchInv, [MCNext]_allVars, scene' = "dispatch"
                 PROVE  DispatchInv'
      OBVIOUS
    <2>1. scene = "dispatch"  BY DEF MCNext, allVars
    <2>2. Dispatch!Next \/ UNCHANGED Dispatch!vars  BY <2>1 DEF MCNext, allVars, dispatchVars, Dispatch!vars
    <2> QED BY <2>1, <2>2, StepKeeps
  <1> QED BY <1>1, <1>2, PTL DEF MCSpec

\* The admissions of a dispatch cover its unit of work at every await, no lease is held across
\* a nested command or query, and what a dispatch reports is what the database did (MessageDispatcher.
\* command and query, ResourceTransactionScope, OperationBoundary.complete).
THEOREM DispatchStaysSound == MCSpec => []DispatchSound
  <1>1. (scene = "dispatch" => DispatchInv) => DispatchSound  BY InvImpliesSound DEF DispatchSound
  <1> QED BY <1>1, DispatchScene, PTL
------------------------
(* Ranks in a finite ordered set, for pages that are read by offset. *)

Ordered(R, rel) ==
    \A a, b, c \in R :
      /\ <<a, a>> \notin rel
      /\ <<a, b>> \in rel /\ <<b, c>> \in rel => <<a, c>> \in rel
      /\ a # b => <<a, b>> \in rel \/ <<b, a>> \in rel

After(R, rel, r) == {o \in R : <<r, o>> \in rel}

\* Of every rank up to that of a member there is a member.
LEMMA RanksAreDense ==
    ASSUME NEW R, NEW rel, IsFiniteSet(R), Ordered(R, rel), NEW k \in Nat,
           NEW q \in R, Cardinality(After(R, rel, q)) >= k
    PROVE  \E r \in R : Cardinality(After(R, rel, r)) = k
  <1> DEFINE C(r) == Cardinality(After(R, rel, r))
  <1>0. \A r \in R : IsFiniteSet(After(R, rel, r)) /\ C(r) \in Nat
    <2> SUFFICES ASSUME NEW r \in R PROVE IsFiniteSet(After(R, rel, r)) /\ C(r) \in Nat  OBVIOUS
    <2>1. After(R, rel, r) \subseteq R  BY DEF After
    <2> QED BY <2>1, FS_Subset, FS_CardinalityType
  <1> DEFINE T == {i \in Nat : \E r \in R : C(r) = i /\ i >= k}
  <1>1. T \subseteq Nat /\ T # {}  BY <1>0
  <1>2. PICK m \in T : \A i \in T : m <= i
    <2> HIDE DEF T
    <2> QED BY <1>1, LeastNumber
  <1>3. PICK r \in R : C(r) = m /\ m >= k /\ m \in Nat  BY <1>2
  <1> SUFFICES ASSUME m # k PROVE FALSE  BY <1>3
  <1>4. m > k /\ m > 0  BY <1>3
  <1> DEFINE U == After(R, rel, r)
  <1>5. U # {} /\ IsFiniteSet(U) /\ U \subseteq R
    <2>1. U \subseteq R  BY DEF After
    <2>2. IsFiniteSet(U) /\ Cardinality(U) = m  BY <1>0, <1>3
    <2>3. U # {}
      <3> HIDE DEF U
      <3> QED BY <1>4, <2>2, FS_EmptySet
    <2> QED BY <2>1, <2>2, <2>3
  <1>6. \A o \in U : C(o) \in Nat /\ C(o) < m
    <2> SUFFICES ASSUME NEW o \in U PROVE C(o) \in Nat /\ C(o) < m  OBVIOUS
    <2>1. o \in R /\ <<r, o>> \in rel  BY DEF After
    <2>2. After(R, rel, o) \subseteq U /\ o \notin After(R, rel, o)  BY <2>1 DEF After, Ordered
    <2>3. After(R, rel, o) # U  BY <2>2
    <2>4. Cardinality(After(R, rel, o)) < Cardinality(U)
      <3>1. After(R, rel, o) \subseteq U  BY <2>2
      <3> HIDE DEF U
      <3>2. Cardinality(After(R, rel, o)) <= Cardinality(U)  BY <1>5, <3>1, FS_Subset
      <3>3. Cardinality(After(R, rel, o)) # Cardinality(U)  BY <1>5, <2>3, <3>1, FS_Subset
      <3>4. Cardinality(After(R, rel, o)) \in Nat /\ Cardinality(U) \in Nat
        BY <1>0, <1>5, <2>1, FS_CardinalityType
      <3> QED BY <3>2, <3>3, <3>4
    <2> QED  BY <1>0, <1>3, <2>1, <2>4
  \* the oldest of the newer ones
  <1> DEFINE W == {m - C(o) : o \in U}
  <1>7. PICK a \in U : \A o \in U : C(o) <= C(a)
    <2>1. W \subseteq Nat /\ W # {}
      <3>1. \A o \in U : m - C(o) \in Nat  BY <1>3, <1>6
      <3> HIDE DEF U
      <3> QED BY <1>5, <3>1
    <2>2. PICK x \in W : \A y \in W : x <= y
      <3> HIDE DEF W
      <3> QED BY <2>1, LeastNumber
    <2>3. PICK a \in U : x = m - C(a)  BY <2>2
    <2>4. ASSUME NEW o \in U PROVE C(o) <= C(a)
      <3>1. m - C(a) <= m - C(o)  BY <2>2, <2>3
      <3>2. C(a) \in Nat /\ C(o) \in Nat  BY <1>6
      <3> HIDE DEF C
      <3> QED BY <1>3, <3>1, <3>2
    <2> QED BY <2>4
  <1>8. a \in R /\ <<r, a>> \in rel  BY <1>7 DEF After
  <1>9. After(R, rel, a) = U \ {a}
    <2>1. After(R, rel, a) \subseteq U \ {a}  BY <1>8 DEF After, Ordered
    <2>2. ASSUME NEW x \in U \ {a} PROVE x \in After(R, rel, a)
      <3>1. x \in R /\ x # a  BY <1>8 DEF After
      <3>2. CASE <<a, x>> \in rel  BY <3>1, <3>2 DEF After
      <3>3. CASE <<x, a>> \in rel
        <4>1. After(R, rel, a) \subseteq After(R, rel, x) /\ a \in After(R, rel, x) /\ a \notin After(R, rel, a)
          BY <1>8, <3>1, <3>3 DEF After, Ordered
        <4>2. IsFiniteSet(After(R, rel, x)) /\ IsFiniteSet(After(R, rel, a)) /\ C(x) \in Nat /\ C(a) \in Nat
          BY <1>0, <1>8, <3>1
        <4>3. C(a) <= C(x) /\ C(a) # C(x)  BY <4>1, <4>2, FS_Subset
        <4>4. C(x) <= C(a)  BY <1>7
        <4> HIDE DEF C
        <4> QED BY <4>2, <4>3, <4>4
      <3> QED BY <1>8, <3>1, <3>2, <3>3 DEF Ordered
    <2> QED BY <2>1, <2>2
  <1>10. C(a) = m - 1
    <2> HIDE DEF U
    <2>1. Cardinality(U \ {a}) = Cardinality(U) - 1  BY <1>5, <1>7, FS_RemoveElement
    <2> QED BY <1>3, <1>9, <2>1 DEF U
  <1>11. m - 1 \in T  BY <1>3, <1>4, <1>8, <1>10
  <1> HIDE DEF T
  <1> QED BY <1>2, <1>3, <1>11

\* The cardinality an instance speaks of is the one the library's theorems are about.
LEMMA AuditCardinality == \A S : Audit!Cardinality(S) = Cardinality(S)
  BY DEF Audit!Cardinality, Cardinality

\* A finite set of numbers has a greatest one.
LEMMA GreatestNumber ==
    ASSUME NEW S, S \subseteq Nat, IsFiniteSet(S), S # {}
    PROVE  \E z \in S : \A o \in S : z >= o
  <1> DEFINE Later(x) == {o \in S : o > x}
             C(x) == Cardinality(Later(x))
             W == {C(x) : x \in S}
  <1>2. \A x \in S : IsFiniteSet(Later(x)) /\ C(x) \in Nat
    <2>1. \A x \in S : Later(x) \subseteq S  OBVIOUS
    <2> QED BY <2>1, FS_Subset, FS_CardinalityType
  <1>3. PICK m \in W : \A y \in W : m <= y
    <2>1. W \subseteq Nat /\ W # {}
      <3> HIDE DEF C
      <3> QED BY <1>2
    <2> HIDE DEF W
    <2> QED BY <2>1, LeastNumber
  <1>4. PICK z \in S : m = C(z)  BY <1>3
  <1>5. ASSUME NEW o \in S PROVE z >= o
    <2>0. o \in Nat /\ z \in Nat  OBVIOUS
    <2> SUFFICES ASSUME o > z PROVE FALSE
      <3> HIDE DEF W, C, Later
      <3> QED BY <2>0
    <2>1. Later(o) \subseteq Later(z) /\ o \in Later(z) /\ o \notin Later(o)
      <3>1. \A x \in S : x > o => x > z
        <4> SUFFICES ASSUME NEW x \in S, x > o PROVE x > z  OBVIOUS
        <4>1. x \in Nat  OBVIOUS
        <4> HIDE DEF W, C, Later
        <4> QED BY <2>0, <4>1
      <3>2. ~ (o > o)  BY <2>0
      <3> QED BY <3>1, <3>2
    <2>2. C(o) < C(z)
      <3>1. IsFiniteSet(Later(z)) /\ Later(o) # Later(z)  BY <1>2, <2>1
      <3>2. Later(o) \subseteq Later(z)  BY <2>1
      <3> HIDE DEF Later
      <3>3. Cardinality(Later(o)) <= Cardinality(Later(z)) /\ Cardinality(Later(o)) # Cardinality(Later(z))
        BY <3>1, <3>2, FS_Subset
      <3>4. C(o) \in Nat /\ C(z) \in Nat  BY <1>2
      <3> QED BY <3>3, <3>4
    <2>3. C(z) <= C(o)
      <3> HIDE DEF C
      <3> QED BY <1>3, <1>4
    <2>4. C(o) \in Nat /\ C(z) \in Nat  BY <1>2
    <2> HIDE DEF C
    <2> QED BY <2>2, <2>3, <2>4
  <1> QED BY <1>5

------------------------
(* The audit trail. *)

AuditRecord == [id : 1..MaxRows, at : Nat, previous : 0..MaxRows, source : Events \cup {Audit!Manual}]

AuditOpen == [pc : {"open"}, source : Events \cup {Audit!Manual}, staged : SUBSET AuditRecord,
              locked : BOOLEAN]

AuditReading == [pc : {"open", "done"}, offset : Nat, owed : SUBSET (1..MaxRows),
                 seen : SUBSET (1..MaxRows)]

Identified(R) == \A r, o \in R : r.id = o.id => r = o

\* One record is after all others.
Topped(R) == R # {} => \E r \in R : \A o \in R \ {r} : Audit!Before(o, r)

Links(R) ==
    \A r \in R : LET earlier == {o \in R : Audit!Before(o, r)} IN
        r.previous = IF earlier = {} THEN 0 ELSE Audit!Last(earlier).id

OncePerSource(R) == \A r, o \in R : r.source # Audit!Manual /\ r.source = o.source => r = o

GoodTrail(R) ==
    IsFiniteSet(R) /\ Identified(R) /\ Topped(R) /\ Links(R) /\ OncePerSource(R)

\* How many records are newer
Newer(R, r) == {o \in R : Audit!Before(r, o)}

AuditTypes ==
    /\ log \subseteq AuditRecord
    /\ atx \in [Sessions -> {Audit!Idle} \cup AuditOpen]
    /\ areader \in {Audit!NoReader} \cup AuditReading

\* Whoever has appended has the lock, and nobody else.
AuditLocks ==
    /\ \A s \in Sessions : atx[s].pc = "open" /\ ~ atx[s].locked => atx[s].staged = {}
    /\ \A s, o \in Sessions :
         atx[s].pc = "open" /\ atx[o].pc = "open" /\ atx[s].locked /\ atx[o].locked => s = o

AuditTrails ==
    /\ GoodTrail(log)
    /\ \A s \in Sessions : atx[s].pc = "open" =>
         GoodTrail(Audit!Visible(s)) /\ \A r \in atx[s].staged, o \in log : Audit!Before(o, r)

\* What a reader has not seen of what was there is still before it.
ReaderInv ==
    areader # Audit!NoReader =>
      \A i \in areader.owed :
                             \/ i \in areader.seen
                             \/
                                /\ areader.pc = "open"
                                /\ \E r \in log : r.id = i /\ Cardinality(Newer(log, r)) >= areader.offset

AuditInv == AuditTypes /\ AuditLocks /\ AuditTrails /\ ReaderInv

LEMMA BeforeOrders ==
    ASSUME NEW a \in AuditRecord, NEW b \in AuditRecord, NEW c \in AuditRecord
    PROVE
        /\ ~ Audit!Before(a, a) /\ (Audit!Before(a, b) => ~ Audit!Before(b, a))
        /\ Audit!Before(a, b) /\ Audit!Before(b, c) => Audit!Before(a, c)
        /\ a.id # b.id => Audit!Before(a, b) \/ Audit!Before(b, a)
  <1>1. a.id \in Nat /\ b.id \in Nat /\ c.id \in Nat /\ a.at \in Nat /\ b.at \in Nat /\ c.at \in Nat
    BY AuditAssumption DEF AuditRecord
  <1> QED BY <1>1 DEF Audit!Before

LEMMA LastIs ==
    ASSUME NEW R \in SUBSET AuditRecord, R # {}, Topped(R)
    PROVE  Audit!Last(R) \in R /\ \A o \in R \ {Audit!Last(R)} : Audit!Before(o, Audit!Last(R))
  <1>1. \E r \in R : \A o \in R \ {r} : Audit!Before(o, r)  BY DEF Topped
  <1> DEFINE l == CHOOSE r \in R : \A o \in R \ {r} : Audit!Before(o, r)
  <1>2. l \in R /\ \A o \in R \ {l} : Audit!Before(o, l)  BY <1>1
  <1>3. l = Audit!Last(R)  BY DEF Audit!Last
  <1> HIDE DEF l
  <1> QED BY <1>2, <1>3

\* The record that is appended to R
LEMMA AppendedIsLast ==
    ASSUME NEW R \in SUBSET AuditRecord, GoodTrail(R), NEW n \in AuditRecord,
           \A o \in R : o.at < n.at, \A o \in R : o.id # n.id,
           n.previous = IF R = {} THEN 0 ELSE Audit!Last(R).id,
           n.source # Audit!Manual => \A o \in R : o.source # n.source
    PROVE  GoodTrail(R \cup {n}) /\ \A o \in R : Audit!Before(o, n)
  <1> DEFINE S == R \cup {n}
  <1>1. \A o \in R : Audit!Before(o, n) /\ ~ Audit!Before(n, o)
    <2> SUFFICES ASSUME NEW o \in R PROVE Audit!Before(o, n) /\ ~ Audit!Before(n, o)  OBVIOUS
    <2>1. o \in AuditRecord  OBVIOUS
    <2> QED BY <2>1, BeforeOrders DEF Audit!Before
  <1>2. ~ Audit!Before(n, n)  BY BeforeOrders
  <1>3. IsFiniteSet(S)  BY FS_AddElement DEF GoodTrail
  <1>4. Identified(S)  BY DEF GoodTrail, Identified
  <1>5. Topped(S)  BY <1>1 DEF Topped
  <1>6. Links(S)
    <2> SUFFICES ASSUME NEW r \in S
                 PROVE  r.previous = IF {o \in S : Audit!Before(o, r)} = {} THEN 0 ELSE Audit!Last({o \in S : Audit!Before(o, r)}).id
      BY DEF Links
    <2>1. CASE r = n
      <3>1. {o \in S : Audit!Before(o, r)} = R  BY <1>1, <1>2, <2>1
      <3> QED BY <2>1, <3>1
    <2>2. CASE r \in R
      <3>1. {o \in S : Audit!Before(o, r)} = {o \in R : Audit!Before(o, r)}  BY <1>1, <2>2
      <3>2. r.previous = IF {o \in R : Audit!Before(o, r)} = {} THEN 0 ELSE Audit!Last({o \in R : Audit!Before(o, r)}).id
        BY <2>2 DEF GoodTrail, Links
      <3> QED BY <3>1, <3>2
    <2> QED BY <2>1, <2>2
  <1>7. OncePerSource(S)  BY DEF GoodTrail, OncePerSource
  <1> QED BY <1>1, <1>3, <1>4, <1>5, <1>6, <1>7 DEF GoodTrail

LEMMA BeforeIsOrder ==
    ASSUME NEW R \in SUBSET AuditRecord, Identified(R),
           NEW rel, \A a, b \in R : <<a, b>> \in rel <=> Audit!Before(a, b)
    PROVE  Ordered(R, rel) /\ \A r \in R : After(R, rel, r) = Newer(R, r)
  <1>1. ASSUME NEW a \in R, NEW b \in R, NEW c \in R
        PROVE
            /\ <<a, a>> \notin rel /\ (<<a, b>> \in rel /\ <<b, c>> \in rel => <<a, c>> \in rel)
            /\ a # b => <<a, b>> \in rel \/ <<b, a>> \in rel
    <2>1. a \in AuditRecord /\ b \in AuditRecord /\ c \in AuditRecord /\ (a # b => a.id # b.id)
      BY DEF Identified
    <2> QED BY <2>1, BeforeOrders
  <1>2. Ordered(R, rel)  BY <1>1 DEF Ordered
  <1> QED BY <1>2 DEF After, Newer

LEMMA NewerDense ==
    ASSUME NEW R \in SUBSET AuditRecord, IsFiniteSet(R), Identified(R), NEW k \in Nat,
           NEW q \in R, Cardinality(Newer(R, q)) >= k
    PROVE  \E r \in R : Cardinality(Newer(R, r)) = k
  <1> DEFINE rel == {p \in R \X R : Audit!Before(p[1], p[2])}
  <1>1. \A a, b \in R : <<a, b>> \in rel <=> Audit!Before(a, b)  OBVIOUS
  <1> HIDE DEF rel
  <1>2. Ordered(R, rel) /\ \A r \in R : After(R, rel, r) = Newer(R, r)  BY <1>1, BeforeIsOrder
  <1>3. Cardinality(After(R, rel, q)) >= k  BY <1>2
  <1>4. \E r \in R : Cardinality(After(R, rel, r)) = k  BY <1>2, <1>3, RanksAreDense
  <1> QED BY <1>2, <1>4

LEMMA AuditInitially == Audit!Init => AuditInv
  <1> SUFFICES ASSUME Audit!Init PROVE AuditInv  OBVIOUS
  <1>1. log = {} /\ areader = Audit!NoReader /\ atx = [s \in Sessions |-> Audit!Idle]  BY DEF Audit!Init
  <1>2. AuditTypes  BY <1>1 DEF AuditTypes
  <1>3. \A s \in Sessions : atx[s].pc = "idle"  BY <1>1 DEF Audit!Idle
  <1>4. GoodTrail(log)  BY <1>1, FS_EmptySet DEF GoodTrail, Identified, Topped, Links, OncePerSource
  <1> QED BY <1>1, <1>2, <1>3, <1>4 DEF AuditInv, AuditLocks, AuditTrails, ReaderInv

LEMMA AuditOpens ==
    ASSUME AuditInv, NEW s \in Sessions, atx[s].pc = "open"
    PROVE
        /\ atx[s] \in AuditOpen /\ Audit!Visible(s) \in SUBSET AuditRecord
        /\ GoodTrail(Audit!Visible(s)) /\ GoodTrail(log)
        /\ \A r \in atx[s].staged, o \in log : Audit!Before(o, r)
  <1>1. atx[s] \in AuditOpen  BY DEF AuditInv, AuditTypes, Audit!Idle
  <1> QED BY <1>1 DEF AuditInv, AuditTypes, AuditTrails, AuditOpen, Audit!Visible

\* A session's transaction becomes y, the records do not change.
LEMMA AuditTurn ==
    ASSUME AuditInv, NEW s \in Sessions, NEW y \in {Audit!Idle} \cup AuditOpen, atx' = [atx EXCEPT ![s] = y],
           UNCHANGED <<log, areader>>,
           y.pc = "open" =>
             /\ ~ y.locked => y.staged = {}
             /\ y.locked => \A o \in Sessions \ {s} : atx[o].pc = "open" => ~ atx[o].locked
             /\ GoodTrail(log \cup y.staged) /\ \A r \in y.staged, o \in log : Audit!Before(o, r)
    PROVE  AuditInv'
  <1>1.
      /\ atx' \in [Sessions -> {Audit!Idle} \cup AuditOpen] /\ atx'[s] = y
      /\ \A o \in Sessions \ {s} : atx'[o] = atx[o]
    BY DEF AuditInv, AuditTypes
  <1>2. AuditTypes'  BY <1>1 DEF AuditInv, AuditTypes
  <1>3. AuditLocks'  BY <1>1 DEF AuditInv, AuditLocks
  <1>4. AuditTrails'
    <2>1. ASSUME NEW o \in Sessions, atx'[o].pc = "open"
          PROVE  GoodTrail(log \cup atx'[o].staged) /\ \A r \in atx'[o].staged, q \in log : Audit!Before(q, r)
      BY <1>1, <2>1 DEF AuditInv, AuditTrails, Audit!Visible
    <2> QED BY <2>1 DEF AuditInv, AuditTrails, Audit!Visible
  <1>5. ReaderInv'  BY DEF AuditInv, ReaderInv
  <1> QED BY <1>2, <1>3, <1>4, <1>5 DEF AuditInv

LEMMA BeginKeeps ==
    ASSUME AuditInv, NEW s \in Sessions, Audit!Begin(s)
    PROVE  AuditInv'
  <1>1. PICK source \in Events \cup {Audit!Manual} :
          atx' = [atx EXCEPT ![s] = [pc |-> "open", source |-> source, staged |-> {}, locked |-> FALSE]]
    BY DEF Audit!Begin
  <1> DEFINE y == [pc |-> "open", source |-> source, staged |-> {}, locked |-> FALSE]
  <1>2. y \in AuditOpen  BY DEF AuditOpen
  <1>3. ~ y.locked /\ y.staged = {} /\ GoodTrail(log \cup y.staged)
    <2>1. log \cup {} = log  OBVIOUS
    <2> QED BY <2>1 DEF AuditInv, AuditTrails
  <1>4. UNCHANGED <<log, areader>> /\ atx' = [atx EXCEPT ![s] = y]  BY <1>1 DEF Audit!Begin
  <1> HIDE DEF y
  <1> QED BY <1>2, <1>3, <1>4, AuditTurn

LEMMA RollsBack ==
    ASSUME AuditInv, NEW s \in Sessions, Audit!Rollback(s)
    PROVE  AuditInv'
  <1>1. Audit!Idle.pc # "open"  BY DEF Audit!Idle
  <1> QED BY <1>1, AuditTurn DEF Audit!Rollback

\* The identity a new record gets
LEMMA FreshId ==
    ASSUME NEW R \in SUBSET AuditRecord, IsFiniteSet(R), Cardinality(R) < MaxRows
    PROVE
        /\ Audit!Min((1..MaxRows) \ {r.id : r \in R}) \in 1..MaxRows
        /\ \A e \in R : e.id # Audit!Min((1..MaxRows) \ {r.id : r \in R})
  <1>0. MaxRows \in Nat  BY AuditAssumption
  <1> DEFINE I == {r.id : r \in R}
             F == (1..MaxRows) \ I
  <1>1. IsFiniteSet(I) /\ Cardinality(I) <= Cardinality(R)
    <2> DEFINE f == [r \in R |-> r.id]
    <2>1. f \in Surjection(R, I)  BY DEF Surjection
    <2> QED BY <2>1, FS_Surjection
  <1>2. F # {}
    <2> SUFFICES ASSUME F = {} PROVE FALSE  OBVIOUS
    <2>1. 1..MaxRows \subseteq I  OBVIOUS
    <2>2. Cardinality(1..MaxRows) = MaxRows  BY <1>0, FS_Interval
    <2> HIDE DEF I
    <2>3. Cardinality(1..MaxRows) <= Cardinality(I)  BY <1>1, <2>1, FS_Subset
    <2>4. Cardinality(I) \in Nat /\ Cardinality(R) \in Nat  BY <1>1, FS_CardinalityType
    <2> QED BY <1>0, <1>1, <2>2, <2>3, <2>4
  <1>3. PICK x \in F : \A y \in F : x <= y
    <2>1. F \subseteq Nat  BY <1>0
    <2> HIDE DEF F
    <2> QED BY <1>2, <2>1, LeastNumber
  <1>4. Audit!Min(F) \in F
    <2>1. \E z \in F : \A y \in F : y >= z
      <3>1. \A y \in F : y \in Nat /\ x \in Nat  BY <1>0
      <3> HIDE DEF F
      <3> QED BY <1>3, <3>1
    <2>2. Audit!Min(F) = CHOOSE z \in F : \A y \in F : y >= z  BY DEF Audit!Min
    <2> HIDE DEF F
    <2> QED BY <2>1, <2>2
  <1> QED BY <1>4

LEMMA AppendKeeps ==
    ASSUME AuditInv, NEW s \in Sessions, Audit!Append(s)
    PROVE  AuditInv'
  <1> DEFINE x == atx[s]
             R == Audit!Visible(s)
             id == Audit!Min((1..MaxRows) \ {r.id : r \in log \cup Audit!Staged})
  <1>1.
      /\ x \in AuditOpen /\ R \in SUBSET AuditRecord /\ GoodTrail(R) /\ GoodTrail(log)
      /\ \A r \in x.staged, o \in log : Audit!Before(o, r)
    BY AuditOpens DEF Audit!Append
  <1>2. PICK instant \in 0..MaxAuditTime :
          atx' = [atx EXCEPT ![s].locked = TRUE, ![s].staged = @ \cup
              {[id |-> id, at |-> Audit!OccurredAt(R, instant), previous |-> IF R = {} THEN 0 ELSE Audit!Last(R).id,
                source |-> x.source]}]
    BY DEF Audit!Append
  <1> DEFINE n == [id |-> id, at |-> Audit!OccurredAt(R, instant), previous |-> IF R = {} THEN 0 ELSE Audit!Last(R).id,
                   source |-> x.source]
             y == [x EXCEPT !.locked = TRUE, !.staged = @ \cup {n}]
  <1>3.
      /\ UNCHANGED <<log, areader>> /\ x.pc = "open" /\ Audit!Existing(s) = {}
      /\ \A o \in Sessions \ {s} : atx[o].pc = "open" => ~ atx[o].locked
      /\ Cardinality(log \cup Audit!Staged) < MaxRows
    BY AuditCardinality DEF Audit!Append, Audit!LockFree
  <1>4. atx' = [atx EXCEPT ![s] = y]  BY <1>2 DEF AuditInv, AuditTypes
  <1>5. log \cup Audit!Staged = R
    <2>1. \A o \in Sessions \ {s} : atx[o].pc = "open" => atx[o].staged = {}  BY <1>3 DEF AuditInv, AuditLocks
    <2>2. Audit!Staged = x.staged  BY <1>3, <2>1 DEF Audit!Staged
    <2> QED BY <2>2 DEF Audit!Visible
  <1>6. id \in 1..MaxRows /\ \A e \in R : e.id # id
    <2>1. id = Audit!Min((1..MaxRows) \ {r.id : r \in R}) /\ Cardinality(R) < MaxRows  BY <1>3, <1>5
    <2> HIDE DEF R, id
    <2> QED BY <1>1, <2>1, FreshId DEF GoodTrail
  <1>7.
      /\ Audit!OccurredAt(R, instant) \in Nat
      /\ \A o \in R : o.at < Audit!OccurredAt(R, instant)
      /\ R # {} => Audit!Last(R) \in R /\ Audit!Last(R).id \in 0..MaxRows
    <2>0. instant \in Nat /\ MaxRows \in Nat  BY AuditAssumption
    <2>1. CASE R = {}  BY <2>0, <2>1 DEF Audit!OccurredAt
    <2>2. CASE R # {}
      <3> HIDE DEF R
      <3>1. Audit!Last(R) \in R /\ \A o \in R \ {Audit!Last(R)} : Audit!Before(o, Audit!Last(R))
        BY <1>1, <2>2, LastIs DEF GoodTrail
      <3>2. \A o \in R : o.at \in Nat /\ o.id \in 1..MaxRows  BY <1>1 DEF AuditRecord
      <3>3. \A o \in R : o.at <= Audit!Last(R).at  BY <3>1, <3>2 DEF Audit!Before
      <3>4. Audit!Last(R).at \in Nat /\ Audit!Last(R).id \in 0..MaxRows  BY <2>0, <3>1, <3>2
      <3>5. Audit!OccurredAt(R, instant) \in Nat /\ Audit!Last(R).at < Audit!OccurredAt(R, instant)
        BY <2>0, <2>2, <3>4 DEF Audit!OccurredAt
      <3> DEFINE p == Audit!OccurredAt(R, instant)
      <3>6. p \in Nat /\ Audit!Last(R).at < p  BY <3>5
      <3> HIDE DEF p
      <3>7. \A o \in R : o.at < p  BY <3>2, <3>3, <3>4, <3>6
      <3> QED BY <3>1, <3>4, <3>6, <3>7 DEF p
    <2> QED BY <2>1, <2>2
  <1>8. n \in AuditRecord
    <2> DEFINE at == Audit!OccurredAt(R, instant)
               pr == IF R = {} THEN 0 ELSE Audit!Last(R).id
    <2>1. at \in Nat /\ pr \in 0..MaxRows /\ id \in 1..MaxRows /\ x.source \in Events \cup {Audit!Manual}
      <3>1. 0 \in 0..MaxRows  BY AuditAssumption
      <3> HIDE DEF R, id
      <3> QED BY <1>1, <1>6, <1>7, <3>1 DEF AuditOpen
    <2>2. n = [id |-> id, at |-> at, previous |-> pr, source |-> x.source]  OBVIOUS
    <2> HIDE DEF at, pr, id, n, x
    <2> QED BY <2>1, <2>2 DEF AuditRecord
  <1>9.
      /\ n.id = id /\ n.at = Audit!OccurredAt(R, instant) /\ n.source = x.source
      /\ n.previous = IF R = {} THEN 0 ELSE Audit!Last(R).id
    OBVIOUS
  <1>10. x.source # Audit!Manual => \A o \in R : o.source # x.source  BY <1>3 DEF Audit!Existing
  <1> HIDE DEF n, R, id
  <1>11. GoodTrail(R \cup {n}) /\ \A o \in R : Audit!Before(o, n)
    <2>1. (\A o \in R : o.at < n.at) /\ (\A o \in R : o.id # n.id)  BY <1>6, <1>7, <1>9
    <2>2. n.source # Audit!Manual => \A o \in R : o.source # n.source  BY <1>9, <1>10
    <2> QED BY <1>1, <1>8, <1>9, <2>1, <2>2, AppendedIsLast
  <1>12. y \in AuditOpen /\ y.pc = "open" /\ y.locked /\ y.staged = x.staged \cup {n}
    BY <1>1, <1>3, <1>8 DEF AuditOpen
  <1>13. log \cup y.staged = R \cup {n} /\ log \subseteq R  BY <1>12 DEF R, Audit!Visible
  <1>14. \A r \in y.staged, o \in log : Audit!Before(o, r)  BY <1>1, <1>11, <1>12, <1>13
  <1> HIDE DEF y, x
  <1>15. GoodTrail(log \cup y.staged)  BY <1>11, <1>13
  <1> QED BY <1>3, <1>4, <1>12, <1>14, <1>15, AuditTurn

LEMMA CommitRecords ==
    ASSUME AuditInv, NEW s \in Sessions, Audit!Commit(s)
    PROVE  AuditInv'
  <1> DEFINE x == atx[s]
  <1>1.
      /\ x \in AuditOpen /\ Audit!Visible(s) \in SUBSET AuditRecord /\ GoodTrail(Audit!Visible(s))
      /\ GoodTrail(log) /\ \A r \in x.staged, o \in log : Audit!Before(o, r)
    BY AuditOpens DEF Audit!Commit
  <1>2. /\ x.pc = "open" /\ log' = Audit!Visible(s) /\ atx' = [atx EXCEPT ![s] = Audit!Idle] /\ UNCHANGED areader
    BY DEF Audit!Commit, Audit!Visible
  <1>3.
      /\ atx' \in [Sessions -> {Audit!Idle} \cup AuditOpen] /\ atx'[s] = Audit!Idle
      /\ \A o \in Sessions \ {s} : atx'[o] = atx[o]
    BY <1>2 DEF AuditInv, AuditTypes
  <1>4. Audit!Idle.pc # "open"  BY DEF Audit!Idle
  <1>5. AuditTypes'  BY <1>1, <1>2, <1>3 DEF AuditInv, AuditTypes
  <1>6. AuditLocks'  BY <1>3, <1>4 DEF AuditInv, AuditLocks
  <1>7. AuditTrails'
    <2>1. ASSUME NEW o \in Sessions, atx'[o].pc = "open"
          PROVE  GoodTrail(log' \cup atx'[o].staged) /\ \A r \in atx'[o].staged, q \in log' : Audit!Before(q, r)
      <3>1. o # s /\ atx'[o] = atx[o]  BY <1>3, <1>4, <2>1
      <3>2. CASE atx[o].staged = {}
        <4>1. log' \cup atx'[o].staged = log'  BY <3>1, <3>2
        <4> QED BY <1>1, <1>2, <3>1, <3>2, <4>1
      <3>3. CASE atx[o].staged # {}
        <4>1. atx[o].locked /\ x.staged = {}  BY <1>2, <2>1, <3>1, <3>3 DEF AuditInv, AuditLocks
        <4>2. log' = log  BY <1>2, <4>1 DEF Audit!Visible
        <4> QED BY <2>1, <3>1, <4>2 DEF AuditInv, AuditTrails, Audit!Visible
      <3> QED BY <3>2, <3>3
    <2>2. GoodTrail(log')  BY <1>1, <1>2
    <2> QED BY <2>1, <2>2 DEF AuditTrails, Audit!Visible
  <1>8. ReaderInv'
    <2> SUFFICES ASSUME areader # Audit!NoReader, NEW i \in areader.owed, i \notin areader.seen
                 PROVE
                     /\ areader.pc = "open"
                     /\ \E r \in log' : r.id = i /\ Cardinality(Newer(log', r)) >= areader.offset
      BY <1>2 DEF ReaderInv
    <2>1. PICK r \in log : areader.pc = "open" /\ r.id = i /\ Cardinality(Newer(log, r)) >= areader.offset
      BY DEF AuditInv, ReaderInv
    <2>2. r \in log' /\ Newer(log, r) \subseteq Newer(log', r) /\ log \subseteq log'
      BY <1>2 DEF Audit!Visible, Newer
    <2>3. IsFiniteSet(log') /\ IsFiniteSet(log)  BY <1>1, <1>2 DEF GoodTrail
    <2>4. IsFiniteSet(Newer(log', r)) /\ IsFiniteSet(Newer(log, r))
      <3>1. Newer(log', r) \subseteq log' /\ Newer(log, r) \subseteq log  BY DEF Newer
      <3> QED BY <2>3, <3>1, FS_Subset
    <2>5.
        /\ Cardinality(Newer(log, r)) <= Cardinality(Newer(log', r))
        /\ Cardinality(Newer(log, r)) \in Nat /\ Cardinality(Newer(log', r)) \in Nat
      BY <2>2, <2>4, FS_Subset, FS_CardinalityType
    <2>6. areader.offset \in Nat  BY DEF AuditInv, AuditTypes, AuditReading
    <2> QED BY <2>1, <2>2, <2>5, <2>6
  <1> QED BY <1>5, <1>6, <1>7, <1>8 DEF AuditInv

LEMMA AuditReaderTurn ==
    ASSUME AuditInv, UNCHANGED <<log, atx>>, areader' \in {Audit!NoReader} \cup AuditReading, ReaderInv'
    PROVE  AuditInv'
  <1>1. AuditTypes' /\ AuditLocks'  BY DEF AuditInv, AuditTypes, AuditLocks
  <1>2. AuditTrails'  BY DEF AuditInv, AuditTrails, Audit!Visible
  <1> QED BY <1>1, <1>2 DEF AuditInv

LEMMA StartQueryKeeps == AuditInv /\ Audit!StartQuery => AuditInv'
  <1> SUFFICES ASSUME AuditInv, Audit!StartQuery PROVE AuditInv'  OBVIOUS
  <1>1. UNCHANGED <<log, atx>> /\ areader' = [pc |-> "open", offset |-> 0, owed |-> {r.id : r \in log}, seen |-> {}]
    BY DEF Audit!StartQuery
  <1>2. {r.id : r \in log} \in SUBSET (1..MaxRows)  BY DEF AuditInv, AuditTypes, AuditRecord
  <1>3. areader' \in AuditReading  BY <1>1, <1>2 DEF AuditReading
  <1>4. \A r \in log : Cardinality(Newer(log, r)) >= 0
    <2> SUFFICES ASSUME NEW r \in log PROVE Cardinality(Newer(log, r)) >= 0  OBVIOUS
    <2>1. Newer(log, r) \subseteq log /\ IsFiniteSet(log)  BY DEF Newer, AuditInv, AuditTrails, GoodTrail
    <2>2. Cardinality(Newer(log, r)) \in Nat  BY <2>1, FS_Subset, FS_CardinalityType
    <2> QED BY <2>2
  <1>5. ReaderInv'  BY <1>1, <1>4 DEF ReaderInv, Newer
  <1> QED BY <1>1, <1>3, <1>5, AuditReaderTurn

LEMMA QueryPageKeeps == AuditInv /\ Audit!QueryPage => AuditInv'
  <1> SUFFICES ASSUME AuditInv, Audit!QueryPage PROVE AuditInv'  OBVIOUS
  <1> DEFINE C(r) == Cardinality(Newer(log, r))
             shown == {r \in log : C(r) >= areader.offset /\ C(r) < areader.offset + AuditLimit}
  <1>1.
      /\ UNCHANGED <<log, atx>> /\ areader.pc = "open"
      /\ areader' = [areader EXCEPT !.offset = @ + AuditLimit, !.seen = @ \cup {r.id : r \in shown},
                                  !.pc = IF shown = {} THEN "done" ELSE "open"]
    BY AuditCardinality DEF Audit!QueryPage, Newer
  <1>2. areader \in AuditReading /\ areader # Audit!NoReader  BY <1>1 DEF AuditInv, AuditTypes, Audit!NoReader
  <1>3. AuditLimit \in Nat /\ AuditLimit > 0 /\ areader.offset \in Nat
    BY <1>2, AuditAssumption DEF AuditReading
  <1>4. {r.id : r \in shown} \in SUBSET (1..MaxRows)  BY DEF AuditInv, AuditTypes, AuditRecord
  <1>5. \A r \in log : C(r) \in Nat
    <2> SUFFICES ASSUME NEW r \in log PROVE Cardinality(Newer(log, r)) \in Nat  OBVIOUS
    <2>1. Newer(log, r) \subseteq log /\ IsFiniteSet(log)  BY DEF Newer, AuditInv, AuditTrails, GoodTrail
    <2> QED BY <2>1, FS_Subset, FS_CardinalityType
  <1>6. shown = {} => \A r \in log : ~ (C(r) >= areader.offset)
    <2> SUFFICES ASSUME NEW q \in log, C(q) >= areader.offset PROVE shown # {}  OBVIOUS
    <2>1. log \in SUBSET AuditRecord /\ IsFiniteSet(log) /\ Identified(log)
      BY DEF AuditInv, AuditTypes, AuditTrails, GoodTrail
    <2>2. PICK r \in log : C(r) = areader.offset  BY <1>3, <2>1, NewerDense
    <2>3. C(r) >= areader.offset /\ C(r) < areader.offset + AuditLimit  BY <1>3, <2>2
    <2> QED BY <2>3
  <1> HIDE DEF shown
  <1>7. areader' \in AuditReading
    <2>1. PICK z \in {"open", "done"} : z = IF shown = {} THEN "done" ELSE "open"  OBVIOUS
    <2>2. PICK k \in Nat : k = areader.offset + AuditLimit  BY <1>3
    <2>3. PICK seen \in SUBSET (1..MaxRows) : seen = areader.seen \cup {r.id : r \in shown}
      BY <1>2, <1>4 DEF AuditReading
    <2>4. areader' = [areader EXCEPT !.offset = k, !.seen = seen, !.pc = z]  BY <1>1, <2>1, <2>2, <2>3
    <2> QED BY <1>2, <2>4 DEF AuditReading
  <1>8.
      /\ areader'.owed = areader.owed /\ areader'.offset = areader.offset + AuditLimit
      /\ areader'.seen = areader.seen \cup {r.id : r \in shown}
      /\ areader'.pc = IF shown = {} THEN "done" ELSE "open"
    BY <1>1, <1>2 DEF AuditReading
  <1>9. ASSUME NEW i \in areader'.owed, i \notin areader'.seen
        PROVE  areader'.pc = "open" /\ \E r \in log : r.id = i /\ C(r) >= areader'.offset
    <2>1. PICK r \in log : r.id = i /\ C(r) >= areader.offset  BY <1>2, <1>8, <1>9 DEF AuditInv, ReaderInv
    <2>2. r \notin shown /\ shown # {}  BY <1>6, <1>8, <1>9, <2>1
    <2>3. ~ (C(r) < areader.offset + AuditLimit)  BY <2>1, <2>2 DEF shown
    <2>4. C(r) >= areader.offset + AuditLimit
      <3>1. C(r) \in Nat  BY <1>5
      <3> HIDE DEF C
      <3> QED BY <1>3, <2>3, <3>1
    <2> QED BY <1>8, <2>1, <2>2, <2>4
  <1>10. ReaderInv'  BY <1>1, <1>9 DEF ReaderInv
  <1> QED BY <1>1, <1>7, <1>10, AuditReaderTurn

LEMMA AuditStep == AuditInv /\ [Audit!Next]_Audit!vars => AuditInv'
  <1> SUFFICES ASSUME AuditInv, [Audit!Next]_Audit!vars PROVE AuditInv'  OBVIOUS
  <1>1. CASE \E s \in Sessions : Audit!Begin(s) \/ Audit!Append(s) \/ Audit!Commit(s) \/ Audit!Rollback(s)
    BY <1>1, BeginKeeps, AppendKeeps, CommitRecords, RollsBack
  <1>2. CASE Audit!StartQuery \/ Audit!QueryPage  BY <1>2, StartQueryKeeps, QueryPageKeeps
  <1>3. CASE UNCHANGED Audit!vars
    BY <1>3 DEF Audit!vars, AuditInv, AuditTypes, AuditLocks, AuditTrails, ReaderInv, Audit!Visible
  <1> QED BY <1>1, <1>2, <1>3 DEF Audit!Next

LEMMA TrailFollows == AuditInv => Audit!TrailSound
  <1> SUFFICES ASSUME AuditInv PROVE Audit!TrailSound  OBVIOUS
  <1>0. log \subseteq AuditRecord /\ GoodTrail(log)  BY DEF AuditInv, AuditTypes, AuditTrails
  <1>1. \A r \in log : r.id \in 1..MaxRows /\ r.previous \in 0..MaxRows  BY <1>0 DEF AuditRecord
  <1>2. Audit!Tampered = {}  BY <1>0 DEF GoodTrail, Links, Audit!Tampered
  <1>3. ASSUME NEW e \in Events PROVE Cardinality({r \in log : r.source = e}) <= 1
    <2>1. e # Audit!Manual  BY AuditAssumption DEF Audit!Manual
    <2>2. \A r, o \in {q \in log : q.source = e} : r = o  BY <1>0, <2>1 DEF GoodTrail, OncePerSource
    <2> QED BY <2>2, AtMostOne
  <1>4. areader.pc = "done" => areader.owed \subseteq areader.seen
    <2>1. areader.pc = "done" => areader # Audit!NoReader  BY DEF Audit!NoReader
    <2> QED BY <2>1 DEF AuditInv, ReaderInv
  <1> QED BY <1>1, <1>2, <1>3, <1>4, AuditCardinality DEF Audit!TrailSound

------------------------
(* Parties. *)

\* The library's cardinality is the instance's
LEMMA PartyCardinality == \A S : Party!Cardinality(S) = Cardinality(S)
  BY DEF Party!Cardinality, Cardinality

PartyRecord == [number : Numbers, kind : Party!Kinds, name : Party!Names, profile : Values \cup {"none"},
                active : BOOLEAN]
ValuesRecord == [version : 0..MaxValuesVersion, revision : 0..MaxSetRevisions, cleared : BOOLEAN]
CreateTx == [pc : {"draw", "insert", "inserted"}, attempts : Nat, number : Numbers \cup {"none"}]
ValuesTx == [pc : {"facts", "row", "schema", "write"}, party : Party!Ids, clear : BOOLEAN,
             expected : 0..MaxValuesVersion, revision : 0..MaxSetRevisions]
RowTables == Party!FullTables \cup {"relationship"}
RowRecord == [table : RowTables, id : 1..MaxChildren, party : Party!Ids,
              value : Values \cup {"none"} \cup Party!Providers \X Values \cup Party!Ids, flag : BOOLEAN]
Reading == [pc : {"open", "load", "done", "rejected"}, list : RowTables, party : Party!Ids,
            sensitive : BOOLEAN, offset : Nat, seen : SUBSET RowRecord, owed : SUBSET RowRecord]

PartyTypes ==
    /\ party \in [Party!Ids -> {Party!None} \cup PartyRecord]
    /\ custom \in [Party!Ids -> ValuesRecord]
    /\ fieldset \in [active : Nat, latest : 1..MaxSetRevisions] /\ fieldset.active <= fieldset.latest
    /\ ptx \in [Creators -> {Party!Idle} \cup CreateTx \cup ValuesTx]

\* A number is inserted by one open transaction and by no committed one.
PartyNumbers ==
    /\ \A p, q \in Party!Ids : party[p] # Party!None /\ party[q] # Party!None /\ party[p].number = party[q].number => p = q
    /\ \A s \in Creators : ptx[s].pc \in {"insert", "inserted"} => ptx[s].number \in Numbers
    /\ \A s \in Creators, p \in Party!Ids :
         ptx[s].pc = "inserted" /\ party[p] # Party!None => party[p].number # ptx[s].number
    /\ \A s, o \in Creators :
         ptx[s].pc = "inserted" /\ ptx[o].pc = "inserted" /\ ptx[s].number = ptx[o].number => s = o

\* Who has a party's row lock writes the next version of the values it has read.
PartyWriter(t) ==
    /\ t.pc \in {"facts", "row", "schema", "write"} =>
         party[t.party] # Party!None /\ t.expected < MaxValuesVersion
    /\ t.pc \in {"row", "schema", "write"} => party[t.party].active
    /\ t.pc \in {"schema", "write"} => custom[t.party].version = t.expected
    /\ t.pc = "write" => t.revision \in 1..fieldset.latest
PartyWriters ==
    /\ \A s \in Creators : PartyWriter(ptx[s])
    /\ \A s, o \in Creators :
         /\ ptx[s].pc \in {"row", "schema", "write"} /\ ptx[o].pc \in {"row", "schema", "write"}
         /\ ptx[s].party = ptx[o].party
         => s = o
    /\ \A p \in Party!Ids : custom[p].version > 0 => custom[p].revision \in 1..fieldset.latest

PartyRows ==
    /\ rows \subseteq RowRecord /\ IsFiniteSet(rows)
    /\ \A a, b \in rows : a.id = b.id => a = b
    /\ \A a, b \in rows : a.table = "identifier" /\ b.table = "identifier" /\ a.value = b.value => a = b

\* How many rows of a list come before one
RowRank(L, r) == Cardinality({q \in L : q.id < r.id})

\* The tables a full load has still to ask for
PendingTables(list) ==
    CASE list = "contact" -> Party!FullTables
      [] list = "address" -> {"address", "identifier"}
      [] OTHER -> {"identifier"}

\* What a reader owes and has not seen is still before it.
PartyReads ==
    /\ preader \in {Party!Idle} \cup Reading
    /\ preader # Party!Idle =>
         /\ preader.seen \subseteq rows /\ preader.owed \subseteq rows
         /\ ~ preader.sensitive => \A r \in preader.seen : ~ (r.table = "identifier" /\ r.flag)
    /\ preader.pc = "open" =>
         \A r \in preader.owed :
                                \/ r \in preader.seen
                                \/ LET L == Party!Listed(preader.list, preader.party, preader.sensitive) IN
                                   r \in L /\ RowRank(L, r) >= preader.offset
    /\ preader.pc = "load" =>
         /\ preader.list \in Party!FullTables
         /\ \A r \in preader.owed :
              \/ r \in preader.seen
              \/ \E t \in PendingTables(preader.list) : r \in Party!Shown(t, preader.party, preader.sensitive)
    /\ preader.pc = "done" => preader.owed \subseteq preader.seen

PartyInv == PartyTypes /\ PartyNumbers /\ PartyWriters /\ PartyRows /\ PartyReads

LEMMA PartyInitially == Party!Init => PartyInv
  <1> SUFFICES ASSUME Party!Init PROVE PartyInv  OBVIOUS
  <1>1. PICK n \in Numbers, v \in Values :
          party = [p \in Party!Ids |-> IF p # 0 THEN Party!None ELSE
                     [number |-> n, kind |-> "person", name |-> "ann", profile |-> v, active |-> TRUE]]
    <2>1. (CHOOSE n \in Numbers : TRUE) \in Numbers /\ (CHOOSE v \in Values : TRUE) \in Values
      BY PartyAssumption
    <2> QED BY <2>1 DEF Party!Init
  <1>2. \A p \in Party!Ids : party[p] # Party!None => p = 0  BY <1>1
  <1>3. \A s \in Creators : ptx[s] = Party!Idle /\ ptx[s].pc = "idle"  BY DEF Party!Init, Party!Idle
  <1>4. PartyTypes
    <2>1. [number |-> n, kind |-> "person", name |-> "ann", profile |-> v, active |-> TRUE] \in PartyRecord
      BY DEF PartyRecord, Party!Kinds, Party!Names
    <2>2. party \in [Party!Ids -> {Party!None} \cup PartyRecord]  BY <1>1, <2>1
    <2>3. Party!NoValues \in ValuesRecord  BY PartyAssumption DEF Party!NoValues, ValuesRecord
    <2>4. fieldset \in [active : Nat, latest : 1..MaxSetRevisions] /\ fieldset.active <= fieldset.latest
      BY PartyAssumption DEF Party!Init
    <2> QED BY <2>2, <2>3, <2>4 DEF PartyTypes, Party!Init
  <1>5. PartyNumbers  BY <1>2, <1>3 DEF PartyNumbers
  <1>6. PartyWriters  BY <1>3 DEF PartyWriters, PartyWriter, Party!Init, Party!NoValues
  <1>7. PartyRows  BY FS_EmptySet DEF PartyRows, Party!Init
  <1>8. PartyReads  BY DEF PartyReads, Party!Init, Party!Idle
  <1> QED BY <1>4, <1>5, <1>6, <1>7, <1>8 DEF PartyInv

LEMMA PartyFacts ==
    ASSUME PartyInv
    PROVE
        /\ \A p \in Party!Ids : party[p] # Party!None => party[p] \in PartyRecord
        /\ \A s \in Creators : ptx[s].pc \in {"draw", "insert", "inserted"} => ptx[s] \in CreateTx
        /\ \A s \in Creators :
             ptx[s].pc \in {"facts", "row", "schema", "write"} => ptx[s] \in ValuesTx
        /\ \A p \in Party!Ids : custom[p] \in ValuesRecord
        /\ preader.pc \in {"open", "load", "done", "rejected"} => preader \in Reading /\ preader # Party!Idle
        /\ Party!Idle.pc = "idle"
        /\ \A s \in Creators : ptx[s].pc \in {"idle", "draw", "insert", "inserted", "facts", "row", "schema", "write"}
  <1>1. Party!Idle.pc = "idle"  BY DEF Party!Idle
  <1>2. \A t \in CreateTx : t.pc \in {"draw", "insert", "inserted"}  BY DEF CreateTx
  <1>3. \A t \in ValuesTx : t.pc \in {"facts", "row", "schema", "write"}  BY DEF ValuesTx
  <1>4. \A p \in Party!Ids : party[p] \in {Party!None} \cup PartyRecord /\ custom[p] \in ValuesRecord
    BY DEF PartyInv, PartyTypes
  <1>5. \A s \in Creators : ptx[s] \in {Party!Idle} \cup CreateTx \cup ValuesTx  BY DEF PartyInv, PartyTypes
  <1>6. preader \in {Party!Idle} \cup Reading  BY DEF PartyInv, PartyReads
  <1> QED BY <1>1, <1>2, <1>3, <1>4, <1>5, <1>6

\* What happens to parties and values does not reach rows and readers.
LEMMA PartyApart ==
    ASSUME PartyInv, UNCHANGED <<rows, preader>>, PartyTypes', PartyNumbers', PartyWriters'
    PROVE  PartyInv'
  <1>1. PartyRows'  BY DEF PartyInv, PartyRows
  <1>2. PartyReads'
    BY DEF PartyInv, PartyReads, Party!Listed, Party!ListContacts, Party!ListAddresses, Party!ListIdentifiers,
           Party!ListRelationships, Party!Of, Party!Shown
  <1> QED BY <1>1, <1>2 DEF PartyInv

------------------------
\* A transaction that neither has inserted a number nor has a party's row may become any other.
LEMMA PartyTurn ==
    ASSUME PartyInv, NEW s \in Creators, NEW y, y \in {Party!Idle} \cup CreateTx \cup ValuesTx,
           UNCHANGED <<party, rows, custom, fieldset, preader>>, ptx' = [ptx EXCEPT ![s] = y],
           y.pc \in {"insert", "inserted"} => y.number \in Numbers,
           y.pc = "inserted" =>
                                /\ \A p \in Party!Ids : party[p] # Party!None => party[p].number # y.number
                                /\ \A o \in Creators \ {s} :
                                     ptx[o].pc = "inserted" => ptx[o].number # y.number,
           PartyWriter(y),
           y.pc \in {"row", "schema", "write"} =>
             \A o \in Creators \ {s} :
               ptx[o].pc \in {"row", "schema", "write"} => ptx[o].party # y.party
    PROVE  PartyInv'
  <1>1. \A o \in Creators : ptx'[o] = IF o = s THEN y ELSE ptx[o]  BY DEF PartyInv, PartyTypes
  <1>2. PartyTypes'  BY DEF PartyInv, PartyTypes
  <1>3. PartyNumbers'  BY <1>1 DEF PartyInv, PartyNumbers
  <1>4. PartyWriters'
    <2>1. ASSUME NEW o \in Creators PROVE PartyWriter(ptx[o])'
      <3>1. CASE o = s  BY <1>1, <3>1 DEF PartyWriter
      <3>2. CASE o # s
        <4>1. ptx'[o] = ptx[o] /\ PartyWriter(ptx[o])  BY <1>1, <3>2 DEF PartyInv, PartyWriters
        <4> QED BY <4>1 DEF PartyWriter
      <3> QED BY <3>1, <3>2
    <2>2. \A a, b \in Creators :
            /\ ptx'[a].pc \in {"row", "schema", "write"} /\ ptx'[b].pc \in {"row", "schema", "write"}
            /\ ptx'[a].party = ptx'[b].party
            => a = b
      BY <1>1 DEF PartyInv, PartyWriters
    <2>3. (\A p \in Party!Ids : custom[p].version > 0 => custom[p].revision \in 1..fieldset.latest)'
      BY DEF PartyInv, PartyWriters
    <2> QED BY <2>1, <2>2, <2>3 DEF PartyWriters
  <1> QED BY <1>2, <1>3, <1>4, PartyApart

LEMMA PartyEnds ==
    ASSUME PartyInv, NEW s \in Creators, Party!End(s), UNCHANGED <<party, rows, custom, fieldset, preader>>
    PROVE  PartyInv'
  <1>1. ptx' = [ptx EXCEPT ![s] = Party!Idle]  BY DEF Party!End
  <1>2. Party!Idle.pc = "idle" /\ PartyWriter(Party!Idle)  BY DEF Party!Idle, PartyWriter
  <1> QED BY <1>1, <1>2, PartyTurn

LEMMA CreateKeeps ==
    ASSUME PartyInv, NEW s \in Creators, Party!BeginCreate(s) \/ Party!DrawNumber(s) \/ Party!InsertParty(s)
    PROVE  PartyInv'
  <1>1. CASE Party!BeginCreate(s)
    <2> DEFINE y == [pc |-> "draw", attempts |-> 0, number |-> "none"]
    <2>1. y \in CreateTx /\ y.pc = "draw" /\ PartyWriter(y)  BY DEF CreateTx, PartyWriter
    <2>2. ptx' = [ptx EXCEPT ![s] = y] /\ UNCHANGED <<party, rows, custom, fieldset, preader>>
      BY <1>1 DEF Party!BeginCreate
    <2> HIDE DEF y
    <2> QED BY <2>1, <2>2, PartyTurn
  <1>2. CASE Party!DrawNumber(s) /\ ~ Party!End(s)
    <2>1. PICK n \in Numbers :
            ptx' = [ptx EXCEPT ![s] = [pc |-> "insert", attempts |-> @.attempts + 1, number |-> n]]
      BY <1>2 DEF Party!DrawNumber
    <2> DEFINE y == [pc |-> "insert", attempts |-> ptx[s].attempts + 1, number |-> n]
    <2>2. ptx[s] \in CreateTx /\ UNCHANGED <<party, rows, custom, fieldset, preader>>
      BY <1>2, PartyFacts DEF Party!DrawNumber
    <2>3. y \in CreateTx /\ y.pc = "insert" /\ y.number = n /\ PartyWriter(y)  BY <2>2 DEF CreateTx, PartyWriter
    <2>4. ptx' = [ptx EXCEPT ![s] = y]  BY <2>1 DEF PartyInv, PartyTypes
    <2> HIDE DEF y
    <2> QED BY <2>2, <2>3, <2>4, PartyTurn
  <1>3. CASE Party!DrawNumber(s) /\ Party!End(s)  BY <1>3, PartyEnds DEF Party!DrawNumber
  <1>4. CASE Party!InsertParty(s)
    <2>1.
        /\ ptx[s] \in CreateTx /\ UNCHANGED <<party, rows, custom, fieldset, preader>>
        /\ ~ Party!Contended(s) /\ ptx[s].pc = "insert" /\ ptx[s].number \in Numbers
      BY <1>4, PartyFacts DEF Party!InsertParty, PartyInv, PartyNumbers
    <2>2. PICK pc \in {"draw", "inserted"} :
            pc = IF Party!Taken(ptx[s].number) THEN "draw" ELSE "inserted"
      OBVIOUS
    <2> DEFINE y == [ptx[s] EXCEPT !.pc = pc]
    <2>3. y \in CreateTx /\ y.pc = pc /\ y.number = ptx[s].number  BY <2>1 DEF CreateTx
    <2>4. ptx' = [ptx EXCEPT ![s] = y]  BY <1>4, <2>2 DEF Party!InsertParty, PartyInv, PartyTypes
    <2>5. PartyWriter(y)  BY <2>2, <2>3 DEF PartyWriter
    <2>6. pc = "inserted" => \A p \in Party!Ids : party[p] # Party!None => party[p].number # ptx[s].number
      BY <2>2 DEF Party!Taken, Party!Parties
    <2>7. \A o \in Creators \ {s} : ptx[o].pc = "inserted" => ptx[o].number # ptx[s].number
      BY <2>1 DEF Party!Contended
    <2> HIDE DEF y
    <2> QED BY <2>1, <2>2, <2>3, <2>4, <2>5, <2>6, <2>7, PartyTurn
  <1> QED BY <1>1, <1>2, <1>3, <1>4

LEMMA CommitPartyKeeps ==
    ASSUME PartyInv, NEW s \in Creators, Party!CommitParty(s)
    PROVE  PartyInv'
  <1>1.
      /\ ptx[s] \in CreateTx /\ UNCHANGED <<rows, custom, fieldset, preader>>
      /\ ptx[s].pc = "inserted" /\ ptx[s].number \in Numbers /\ s \in Party!Ids
      /\ ptx' = [ptx EXCEPT ![s] = Party!Idle]
    BY PartyFacts DEF Party!CommitParty, Party!End, PartyInv, PartyNumbers, Party!Ids
  <1>2. PICK kind \in Party!Kinds, name \in Party!Names, profile \in Values \cup {"none"} :
          party' = [party EXCEPT ![s] = [number |-> ptx[s].number, kind |-> kind, name |-> name,
                                         profile |-> profile, active |-> TRUE]]
    BY DEF Party!CommitParty
  <1> DEFINE z == [number |-> ptx[s].number, kind |-> kind, name |-> name, profile |-> profile,
                   active |-> TRUE]
  <1>3. z \in PartyRecord /\ z.number = ptx[s].number /\ z.active = TRUE /\ z # Party!None
    <2>1. z \in PartyRecord /\ z.number = ptx[s].number /\ z.active = TRUE  BY <1>1 DEF PartyRecord
    <2>2. Party!None.number = "none"  BY DEF Party!None
    <2> QED BY <1>1, <2>1, <2>2, PartyAssumption
  <1>4. \A p \in Party!Ids : party'[p] = IF p = s THEN z ELSE party[p]  BY <1>1, <1>2 DEF PartyInv, PartyTypes
  <1>5. \A o \in Creators : ptx'[o] = IF o = s THEN Party!Idle ELSE ptx[o]  BY <1>1 DEF PartyInv, PartyTypes
  <1>6. PartyTypes'  BY <1>1, <1>2, <1>3 DEF PartyInv, PartyTypes
  <1> HIDE DEF z
  <1>7. PartyNumbers'  BY <1>1, <1>3, <1>4, <1>5, PartyFacts DEF PartyInv, PartyNumbers
  <1>8. PartyWriters'
    <2>1. ASSUME NEW o \in Creators PROVE PartyWriter(ptx[o])'
      <3>1. CASE o = s  BY <1>5, <3>1, PartyFacts DEF PartyWriter
      <3>2. CASE o # s
        <4>1. ptx'[o] = ptx[o] /\ PartyWriter(ptx[o])  BY <1>5, <3>2 DEF PartyInv, PartyWriters
        <4>2. ptx[o].pc \in {"facts", "row", "schema", "write"} => ptx[o].party \in Party!Ids
          BY PartyFacts DEF ValuesTx
        <4> QED BY <1>1, <1>3, <1>4, <4>1, <4>2 DEF PartyWriter
      <3> QED BY <3>1, <3>2
    <2>2. \A a, b \in Creators :
            /\ ptx'[a].pc \in {"row", "schema", "write"} /\ ptx'[b].pc \in {"row", "schema", "write"}
            /\ ptx'[a].party = ptx'[b].party
            => a = b
      BY <1>5, PartyFacts DEF PartyInv, PartyWriters
    <2>3. (\A p \in Party!Ids : custom[p].version > 0 => custom[p].revision \in 1..fieldset.latest)'
      BY <1>1 DEF PartyInv, PartyWriters
    <2> QED BY <2>1, <2>2, <2>3 DEF PartyWriters
  <1> QED BY <1>1, <1>6, <1>7, <1>8, PartyApart
LEMMA ValuesKeeps ==
    ASSUME PartyInv, NEW s \in Creators,
           Party!BeginValues(s) \/ Party!LockedFacts(s) \/ Party!LockValues(s) \/ Party!ResolveSchema(s)
    PROVE  PartyInv'
  <1>1. CASE Party!BeginValues(s)
    <2>1. PICK p \in Party!Parties, clear \in BOOLEAN :
            /\ custom[p].version < MaxValuesVersion
            /\ ptx' = [ptx EXCEPT ![s] = [pc |-> "facts", party |-> p, clear |-> clear,
                                        expected |-> custom[p].version, revision |-> 0]]
      BY <1>1 DEF Party!BeginValues
    <2> DEFINE y == [pc |-> "facts", party |-> p, clear |-> clear,
                     expected |-> custom[p].version, revision |-> 0]
    <2>2.
        /\ p \in Party!Ids /\ party[p] # Party!None /\ UNCHANGED <<party, rows, custom, fieldset, preader>>
        /\ ptx' = [ptx EXCEPT ![s] = y]
      BY <1>1, <2>1 DEF Party!BeginValues, Party!Parties
    <2>3. custom[p].version \in 0..MaxValuesVersion  BY <2>2, PartyFacts DEF ValuesRecord
    <2>4. y \in ValuesTx /\ y.pc = "facts"  BY <2>2, <2>3, PartyAssumption DEF ValuesTx
    <2>5. PartyWriter(y)  BY <2>1, <2>2 DEF PartyWriter
    <2> HIDE DEF y
    <2> QED BY <2>1, <2>2, <2>4, <2>5, PartyTurn
  <1>2. CASE Party!LockedFacts(s) /\ party[ptx[s].party].active
    <2> DEFINE y == [ptx[s] EXCEPT !.pc = "row"]
    <2>1.
        /\ ptx[s] \in ValuesTx /\ UNCHANGED <<party, rows, custom, fieldset, preader>>
        /\ Party!PartyLock(s, ptx[s].party) /\ ptx[s].pc = "facts" /\ ptx' = [ptx EXCEPT ![s] = y]
      BY <1>2, PartyFacts DEF Party!LockedFacts
    <2>2. y \in ValuesTx /\ y.pc = "row" /\ y.party = ptx[s].party /\ y.expected = ptx[s].expected
      BY <2>1 DEF ValuesTx
    <2>3. PartyWriter(y)  BY <1>2, <2>1, <2>2 DEF PartyWriter, PartyInv, PartyWriters
    <2>4. \A o \in Creators \ {s} :
            ptx[o].pc \in {"row", "schema", "write"} => ptx[o].party # y.party
      BY <2>1, <2>2 DEF Party!PartyLock
    <2> HIDE DEF y
    <2> QED BY <2>1, <2>2, <2>3, <2>4, PartyTurn
  <1>3. CASE Party!LockValues(s) /\ custom[ptx[s].party].version = ptx[s].expected
    <2> DEFINE y == [ptx[s] EXCEPT !.pc = "schema"]
    <2>1.
        /\ ptx[s] \in ValuesTx /\ UNCHANGED <<party, rows, custom, fieldset, preader>>
        /\ ptx[s].pc = "row" /\ ptx' = [ptx EXCEPT ![s] = y]
      BY <1>3, PartyFacts DEF Party!LockValues
    <2>2. y \in ValuesTx /\ y.pc = "schema" /\ y.party = ptx[s].party /\ y.expected = ptx[s].expected
      BY <2>1 DEF ValuesTx
    <2>3. PartyWriter(y)  BY <1>3, <2>1, <2>2 DEF PartyWriter, PartyInv, PartyWriters
    <2>4. \A o \in Creators \ {s} :
            ptx[o].pc \in {"row", "schema", "write"} => ptx[o].party # y.party
      BY <2>1, <2>2 DEF PartyInv, PartyWriters
    <2> HIDE DEF y
    <2> QED BY <2>1, <2>2, <2>3, <2>4, PartyTurn
  <1>4. CASE Party!ResolveSchema(s) /\ ~ Party!End(s)
    <2>1. PICK revision : revision = IF Party!Retained(s) THEN custom[ptx[s].party].revision ELSE fieldset.active
      OBVIOUS
    <2> DEFINE y == [ptx[s] EXCEPT !.pc = "write", !.revision = revision]
    <2>2.
        /\ ptx[s] \in ValuesTx /\ UNCHANGED <<party, rows, custom, fieldset, preader>>
        /\ ptx[s].pc = "schema" /\ revision # 0 /\ ptx' = [ptx EXCEPT ![s] = y]
      <3>1. ptx[s].pc = "schema" /\ UNCHANGED <<party, rows, custom, fieldset, preader>>
        BY <1>4 DEF Party!ResolveSchema
      <3>2. ptx' = [ptx EXCEPT ![s] = IF revision # 0 THEN y ELSE Party!Idle]
        BY <1>4, <2>1 DEF Party!ResolveSchema
      <3> QED BY <1>4, <3>1, <3>2, PartyFacts DEF Party!End
    <2>3. ptx[s].party \in Party!Ids /\ custom[ptx[s].party] \in ValuesRecord
          /\ custom[ptx[s].party].version = ptx[s].expected
      BY <2>2, PartyFacts DEF ValuesTx, PartyInv, PartyWriters, PartyWriter
    <2>4. revision \in 1..fieldset.latest /\ fieldset.latest \in 1..MaxSetRevisions
      <3>1. CASE Party!Retained(s)  BY <2>1, <2>3, <3>1 DEF Party!Retained, PartyInv, PartyTypes, PartyWriters
      <3>2. CASE ~ Party!Retained(s)  BY <2>1, <2>2, <3>2 DEF PartyInv, PartyTypes
      <3> QED BY <3>1, <3>2
    <2>5.
        /\ y \in ValuesTx /\ y.pc = "write" /\ y.party = ptx[s].party /\ y.expected = ptx[s].expected
        /\ y.revision = revision
      <3>1. revision \in 0..MaxSetRevisions  BY <2>4, PartyAssumption
      <3> QED BY <2>2, <3>1 DEF ValuesTx
    <2>6. PartyWriter(y)  BY <2>2, <2>3, <2>4, <2>5 DEF PartyWriter, PartyInv, PartyWriters
    <2>7. \A o \in Creators \ {s} :
            ptx[o].pc \in {"row", "schema", "write"} => ptx[o].party # y.party
      BY <2>2, <2>5 DEF PartyInv, PartyWriters
    <2> HIDE DEF y
    <2> QED BY <2>2, <2>5, <2>6, <2>7, PartyTurn
  <1>5. CASE Party!End(s) /\ (Party!LockedFacts(s) \/ Party!LockValues(s) \/ Party!ResolveSchema(s))
    BY <1>5, PartyEnds DEF Party!LockedFacts, Party!LockValues, Party!ResolveSchema
  <1> QED BY <1>1, <1>2, <1>3, <1>4, <1>5 DEF Party!LockedFacts, Party!LockValues, Party!End

LEMMA WriteValuesKeeps ==
    ASSUME PartyInv, NEW s \in Creators, Party!WriteValues(s)
    PROVE  PartyInv'
  <1>1.
      /\ ptx[s] \in ValuesTx /\ UNCHANGED <<party, rows, fieldset, preader>>
      /\ ptx[s].pc = "write" /\ ptx' = [ptx EXCEPT ![s] = Party!Idle]
      /\ custom' = [custom EXCEPT ![ptx[s].party] =
           [version |-> ptx[s].expected + 1, revision |-> ptx[s].revision, cleared |-> ptx[s].clear]]
    BY PartyFacts DEF Party!WriteValues, Party!End
  <1>2.
      /\ ptx[s].party \in Party!Ids /\ ptx[s].expected < MaxValuesVersion /\ ptx[s].expected \in 0..MaxValuesVersion
      /\ ptx[s].clear \in BOOLEAN /\ ptx[s].revision \in 1..fieldset.latest
      /\ ptx[s].revision \in 0..MaxSetRevisions
    BY <1>1 DEF ValuesTx, PartyInv, PartyWriters, PartyWriter
  <1> DEFINE z == [version |-> ptx[s].expected + 1, revision |-> ptx[s].revision, cleared |-> ptx[s].clear]
  <1>3. z \in ValuesRecord /\ z.revision \in 1..fieldset.latest  BY <1>2, PartyAssumption DEF ValuesRecord
  <1>4. \A p \in Party!Ids : custom'[p] = IF p = ptx[s].party THEN z ELSE custom[p]
    BY <1>1, <1>2 DEF PartyInv, PartyTypes
  <1>5. \A o \in Creators : ptx'[o] = IF o = s THEN Party!Idle ELSE ptx[o]  BY <1>1 DEF PartyInv, PartyTypes
  <1>6. PartyTypes'  BY <1>1, <1>2, <1>3 DEF PartyInv, PartyTypes
  <1> HIDE DEF z
  <1>7. PartyNumbers'  BY <1>1, <1>5, PartyFacts DEF PartyInv, PartyNumbers
  <1>8. PartyWriters'
    <2>1. ASSUME NEW o \in Creators PROVE PartyWriter(ptx[o])'
      <3>1. CASE o = s  BY <1>5, <3>1, PartyFacts DEF PartyWriter
      <3>2. CASE o # s
        <4>1. ptx'[o] = ptx[o] /\ PartyWriter(ptx[o])  BY <1>5, <3>2 DEF PartyInv, PartyWriters
        <4>2. ptx[o].pc \in {"facts", "row", "schema", "write"} => ptx[o].party \in Party!Ids
          BY PartyFacts DEF ValuesTx
        <4>3. ptx[o].pc \in {"schema", "write"} => ptx[o].party # ptx[s].party
          BY <1>1, <3>2 DEF PartyInv, PartyWriters
        <4> QED BY <1>1, <1>4, <4>1, <4>2, <4>3 DEF PartyWriter
      <3> QED BY <3>1, <3>2
    <2>2. \A a, b \in Creators :
            /\ ptx'[a].pc \in {"row", "schema", "write"} /\ ptx'[b].pc \in {"row", "schema", "write"}
            /\ ptx'[a].party = ptx'[b].party
            => a = b
      BY <1>5, PartyFacts DEF PartyInv, PartyWriters
    <2>3. (\A p \in Party!Ids : custom[p].version > 0 => custom[p].revision \in 1..fieldset.latest)'
      BY <1>1, <1>3, <1>4 DEF PartyInv, PartyWriters
    <2> QED BY <2>1, <2>2, <2>3 DEF PartyWriters
  <1> QED BY <1>1, <1>6, <1>7, <1>8, PartyApart

LEMMA UpdatePartyKeeps == PartyInv /\ Party!UpdateParty => PartyInv'
  <1> SUFFICES ASSUME PartyInv, Party!UpdateParty PROVE PartyInv'  OBVIOUS
  <1>1. PICK p \in Party!Parties, name \in Party!Names, active \in BOOLEAN :
          /\ Party!PartyLock(0, p) /\ UNCHANGED <<rows, custom, fieldset, ptx, preader>>
          /\ party' = [party EXCEPT ![p].name = name, ![p].active = active]
    BY DEF Party!UpdateParty
  <1> DEFINE z == [party[p] EXCEPT !.name = name, !.active = active]
  <1>2. p \in Party!Ids /\ party[p] \in PartyRecord  BY PartyFacts DEF Party!Parties
  <1>3. z \in PartyRecord /\ z.number = party[p].number /\ z.number \in Numbers  BY <1>2 DEF PartyRecord
  <1>4. z # Party!None  BY <1>3, PartyAssumption DEF Party!None
  <1>5. party' = [party EXCEPT ![p] = z]  BY <1>1, <1>2 DEF PartyInv, PartyTypes
  <1>6. \A q \in Party!Ids : party'[q] = IF q = p THEN z ELSE party[q]  BY <1>2, <1>5 DEF PartyInv, PartyTypes
  <1>7. party[p] # Party!None  BY DEF Party!Parties
  <1>8. PartyTypes'  BY <1>1, <1>3, <1>5 DEF PartyInv, PartyTypes
  <1> HIDE DEF z
  <1>9. PartyNumbers'
    <2>1. \A q \in Party!Ids :
                         /\ party'[q] # Party!None => party[q] # Party!None
                         /\ party'[q].number = party[q].number
      BY <1>3, <1>6, <1>7
    <2> QED BY <1>1, <2>1, ZenonT(40) DEF PartyInv, PartyNumbers
  <1>10. PartyWriters'
    <2>1. ASSUME NEW o \in Creators PROVE PartyWriter(ptx[o])'
      <3>1. ptx'[o] = ptx[o] /\ PartyWriter(ptx[o]) /\ o # 0
        BY <1>1, PartyAssumption DEF PartyInv, PartyWriters
      <3>2. ptx[o].pc \in {"facts", "row", "schema", "write"} => ptx[o].party \in Party!Ids
        BY PartyFacts DEF ValuesTx
      <3>3. ptx[o].pc \in {"row", "schema", "write"} => ptx[o].party # p  BY <1>1, <3>1 DEF Party!PartyLock
      <3> QED BY <1>1, <1>4, <1>6, <3>1, <3>2, <3>3 DEF PartyWriter
    <2> QED BY <1>1, <2>1 DEF PartyInv, PartyWriters
  <1> QED BY <1>1, <1>8, <1>9, <1>10, PartyApart

LEMMA ChangeFieldsetKeeps == PartyInv /\ Party!ChangeFieldset => PartyInv'
  <1> SUFFICES ASSUME PartyInv, Party!ChangeFieldset PROVE PartyInv'  OBVIOUS
  <1>1. UNCHANGED <<party, rows, custom, ptx, preader>>  BY DEF Party!ChangeFieldset
  <1>2.
      /\ fieldset' \in [active : Nat, latest : 1..MaxSetRevisions]
      /\ fieldset'.active <= fieldset'.latest /\ fieldset.latest <= fieldset'.latest
      /\ fieldset.latest \in Nat /\ fieldset'.latest \in Nat
    <2>1. fieldset \in [active : Nat, latest : 1..MaxSetRevisions] /\ fieldset.active <= fieldset.latest
      BY DEF PartyInv, PartyTypes
    <2>2. CASE fieldset' = [fieldset EXCEPT !.active = 0]  BY <2>1, <2>2
    <2>3. CASE fieldset.latest < MaxSetRevisions
               /\ fieldset' = [active |-> fieldset.latest + 1, latest |-> fieldset.latest + 1]
      BY <2>1, <2>3, PartyAssumption
    <2> QED BY <2>2, <2>3 DEF Party!ChangeFieldset
  <1>3. PartyTypes'  BY <1>1, <1>2 DEF PartyInv, PartyTypes
  <1>4. PartyNumbers'  BY <1>1 DEF PartyInv, PartyNumbers
  <1>5. PartyWriters'
    <2>1. \A x : x \in 1..fieldset.latest => x \in 1..fieldset'.latest  BY <1>2
    <2>2. ASSUME NEW o \in Creators PROVE PartyWriter(ptx[o])'
      <3>1. ptx'[o] = ptx[o] /\ PartyWriter(ptx[o])  BY <1>1 DEF PartyInv, PartyWriters
      <3> QED BY <1>1, <2>1, <3>1 DEF PartyWriter
    <2>3. (\A p \in Party!Ids : custom[p].version > 0 => custom[p].revision \in 1..fieldset.latest)'
      BY <1>1, <2>1 DEF PartyInv, PartyWriters
    <2> QED BY <1>1, <2>2, <2>3 DEF PartyInv, PartyWriters
  <1> QED BY <1>1, <1>3, <1>4, <1>5, PartyApart
------------------------
(* Lists. *)

LEMMA RowRanksDense ==
    ASSUME NEW L \in SUBSET RowRecord, IsFiniteSet(L), \A a, b \in L : a.id = b.id => a = b,
           NEW k \in Nat, NEW r \in L, RowRank(L, r) >= k
    PROVE  \E q \in L : RowRank(L, q) = k
  <1> DEFINE rel == {x \in L \X L : x[2].id < x[1].id}
  <1>1. \A a \in L : a.id \in Nat  BY PartyAssumption DEF RowRecord
  <1>2. \A a, b \in L : <<a, b>> \in rel <=> b.id < a.id  OBVIOUS
  <1>3. \A a \in L : After(L, rel, a) = {q \in L : q.id < a.id}  BY <1>2 DEF After
  <1> HIDE DEF rel
  <1>4. Ordered(L, rel)
    <2>1. ASSUME NEW a \in L, NEW b \in L, NEW c \in L
          PROVE
              /\ <<a, a>> \notin rel
              /\ <<a, b>> \in rel /\ <<b, c>> \in rel => <<a, c>> \in rel
              /\ a # b => <<a, b>> \in rel \/ <<b, a>> \in rel
      <3>1. a.id \in Nat /\ b.id \in Nat /\ c.id \in Nat /\ (a.id = b.id => a = b)  BY <1>1
      <3>2.
          /\ <<a, a>> \in rel <=> a.id < a.id
          /\ <<a, b>> \in rel <=> b.id < a.id
          /\ <<b, a>> \in rel <=> a.id < b.id
          /\ <<b, c>> \in rel <=> c.id < b.id
          /\ <<a, c>> \in rel <=> c.id < a.id
        BY <1>2
      <3> QED BY <3>1, <3>2
    <2> QED BY <2>1 DEF Ordered
  <1>5. Cardinality(After(L, rel, r)) >= k  BY <1>3 DEF RowRank
  <1>6. PICK q \in L : Cardinality(After(L, rel, q)) = k  BY <1>4, <1>5, RanksAreDense
  <1> QED BY <1>3, <1>6 DEF RowRank

LEMMA RowRankType ==
    ASSUME NEW L, IsFiniteSet(L), NEW r
    PROVE  RowRank(L, r) \in Nat
  <1>1. {q \in L : q.id < r.id} \subseteq L  OBVIOUS
  <1> QED BY <1>1, FS_Subset, FS_CardinalityType DEF RowRank

LEMMA RowRankGrows ==
    ASSUME NEW M, NEW L \in SUBSET M, IsFiniteSet(M), NEW r
    PROVE  RowRank(L, r) <= RowRank(M, r)
  <1>1. {q \in L : q.id < r.id} \subseteq {q \in M : q.id < r.id}  OBVIOUS
  <1>2. {q \in M : q.id < r.id} \subseteq M  OBVIOUS
  <1>3. IsFiniteSet({q \in M : q.id < r.id})  BY <1>2, FS_Subset
  <1> QED BY <1>1, <1>3, FS_Subset DEF RowRank

LEMMA ListsAreRows ==
    ASSUME PartyInv, NEW list \in RowTables, NEW p, NEW sensitive
    PROVE
        /\ Party!Listed(list, p, sensitive) \subseteq rows /\ Party!Shown(list, p, sensitive) \subseteq rows
        /\ IsFiniteSet(Party!Listed(list, p, sensitive)) /\ IsFiniteSet(Party!Shown(list, p, sensitive))
        /\ \A r \in Party!Listed(list, p, sensitive) \cup Party!Shown(list, p, sensitive) :
             ~ sensitive => ~ (r.table = "identifier" /\ r.flag)
  <1>1. Party!Listed(list, p, sensitive) \subseteq rows
    BY DEF Party!Listed, Party!ListContacts, Party!ListAddresses, Party!ListIdentifiers, Party!ListRelationships, Party!Of, RowTables,
           Party!FullTables
  <1>2. Party!Shown(list, p, sensitive) \subseteq Party!Listed(list, p, sensitive)  BY DEF Party!Shown
  <1>3. \A r \in Party!Listed(list, p, sensitive) : ~ sensitive => ~ (r.table = "identifier" /\ r.flag)
    BY DEF Party!Listed, Party!ListContacts, Party!ListAddresses, Party!ListIdentifiers, Party!ListRelationships, Party!Of, RowTables,
           Party!FullTables
  <1>4. IsFiniteSet(rows)  BY DEF PartyInv, PartyRows
  <1> QED BY <1>1, <1>2, <1>3, <1>4, FS_Subset

\* A new row changes no other, and only moves what follows it.
LEMMA PartyRowAdded ==
    ASSUME PartyInv, NEW n \in RowRecord, n.id \in Party!Fresh, rows' = rows \cup {n},
           n.table = "identifier" =>
             ~ \E r \in rows : r.table = "identifier" /\ r.value = n.value,
           UNCHANGED <<party, custom, fieldset, ptx, preader>>
    PROVE  PartyInv'
  <1>1. PartyTypes' /\ PartyNumbers'  BY DEF PartyInv, PartyTypes, PartyNumbers
  <1>2. PartyWriters'  BY DEF PartyInv, PartyWriters, PartyWriter
  <1>3. PartyRows'
    <2>1. rows' \subseteq RowRecord /\ IsFiniteSet(rows')  BY FS_AddElement DEF PartyInv, PartyRows
    <2>2. \A r \in rows : r.id # n.id  BY DEF Party!Fresh
    <2>3. \A a, b \in rows' : a.id = b.id => a = b  BY <2>2 DEF PartyInv, PartyRows
    <2>4. \A a, b \in rows' :
            a.table = "identifier" /\ b.table = "identifier" /\ a.value = b.value => a = b
      BY DEF PartyInv, PartyRows
    <2> QED BY <2>1, <2>3, <2>4 DEF PartyRows
  <1>4. ASSUME NEW list \in RowTables, NEW p, NEW sensitive
        PROVE
            /\ Party!Listed(list, p, sensitive) \subseteq Party!Listed(list, p, sensitive)'
            /\ Party!Shown(list, p, sensitive) \subseteq Party!Shown(list, p, sensitive)'
            /\ IsFiniteSet(Party!Listed(list, p, sensitive)')
    <2>1.
        /\ Party!Listed(list, p, sensitive) \subseteq Party!Listed(list, p, sensitive)'
        /\ Party!Listed(list, p, sensitive)' \subseteq rows'
      BY DEF Party!Listed, Party!ListContacts, Party!ListAddresses, Party!ListIdentifiers, Party!ListRelationships, Party!Of, RowTables,
             Party!FullTables
    <2>2. IsFiniteSet(Party!Listed(list, p, sensitive)')  BY <1>3, <2>1, FS_Subset DEF PartyRows
    <2> QED BY <2>1, <2>2 DEF Party!Shown
  <1>5. PartyReads'
    <2>1. preader' = preader /\ preader \in {Party!Idle} \cup Reading  BY DEF PartyInv, PartyReads
    <2>2. (preader # Party!Idle =>
            /\ preader.seen \subseteq rows /\ preader.owed \subseteq rows
            /\ ~ preader.sensitive => \A r \in preader.seen : ~ (r.table = "identifier" /\ r.flag))'
      BY <2>1 DEF PartyInv, PartyReads
    <2>3. ASSUME preader.pc = "open", NEW r \in preader.owed, r \notin preader.seen
          PROVE  LET L == Party!Listed(preader.list, preader.party, preader.sensitive)' IN
                 r \in L /\ RowRank(L, r) >= preader.offset
      <3>0. preader.list \in RowTables /\ preader.offset \in Nat  BY <2>3, PartyFacts DEF Reading
      <3> DEFINE L == Party!Listed(preader.list, preader.party, preader.sensitive)
                 M == Party!Listed(preader.list, preader.party, preader.sensitive)'
      <3>1. r \in L /\ RowRank(L, r) >= preader.offset  BY <2>3 DEF PartyInv, PartyReads
      <3>2. PICK list \in RowTables, p \in {preader.party}, sensitive \in {preader.sensitive} :
              list = preader.list /\ p = preader.party /\ sensitive = preader.sensitive
        BY <3>0
      <3>3. L = Party!Listed(list, p, sensitive) /\ M = Party!Listed(list, p, sensitive)'  BY <2>1, <3>2
      <3>4. L \subseteq M /\ IsFiniteSet(M) /\ IsFiniteSet(L)  BY <1>4, <3>3, ListsAreRows
      <3> HIDE DEF L, M
      <3>5. RowRank(L, r) \in Nat /\ RowRank(M, r) \in Nat /\ RowRank(L, r) <= RowRank(M, r)
        BY <3>4, RowRankType, RowRankGrows
      <3>6. r \in M /\ RowRank(M, r) >= preader.offset  BY <3>0, <3>1, <3>4, <3>5
      <3> QED BY <3>6 DEF M
    <2>4. ASSUME preader.pc = "load", NEW r \in preader.owed, r \notin preader.seen
          PROVE  \E t \in PendingTables(preader.list) : r \in Party!Shown(t, preader.party, preader.sensitive)'
      <3>1. PICK t \in PendingTables(preader.list) : r \in Party!Shown(t, preader.party, preader.sensitive)
        BY <2>4 DEF PartyInv, PartyReads
      <3>2. PICK p, sensitive : p = preader.party /\ sensitive = preader.sensitive  OBVIOUS
      <3>3. t \in RowTables  BY <2>4, <3>1 DEF PartyInv, PartyReads, PendingTables, RowTables, Party!FullTables
      <3>4. r \in Party!Shown(t, p, sensitive)'  BY <1>4, <3>1, <3>2, <3>3
      <3>5. Party!Shown(t, preader.party, preader.sensitive)' = Party!Shown(t, p, sensitive)'  BY <2>1, <3>2
      <3> QED BY <3>4, <3>5
    <2> QED BY <2>1, <2>2, <2>3, <2>4 DEF PartyInv, PartyReads
  <1> QED BY <1>1, <1>2, <1>3, <1>5 DEF PartyInv

LEMMA AddChildKeeps == PartyInv /\ Party!AddChild => PartyInv'
  <1> SUFFICES ASSUME PartyInv, Party!AddChild PROVE PartyInv'  OBVIOUS
  <1>1. PICK p \in Party!Parties : Party!AddContact(p) \/ Party!AssignAddress(p) \/ Party!AddIdentifier(p) \/ Party!AddRelationship(p)
    BY DEF Party!AddChild
  <1>2. UNCHANGED <<party, custom, fieldset, ptx, preader>> /\ p \in Party!Ids
    BY DEF Party!AddChild, Party!Parties
  <1>3. PICK table \in RowTables, id \in Party!Fresh, flag \in BOOLEAN,
             value \in Values \cup {"none"} \cup Party!Providers \X Values \cup Party!Ids :
          /\ rows' = rows \cup {Party!Row(table, id, p, value, flag)}
          /\ table = "identifier" => ~ \E r \in rows : r.table = "identifier" /\ r.value = value
    <2>1. CASE Party!AddContact(p)  BY <2>1 DEF Party!AddContact, RowTables, Party!FullTables
    <2>2. CASE Party!AssignAddress(p)
      <3>1. PICK id \in Party!Fresh : rows' = rows \cup {Party!Row("address", id, p, "none", FALSE)}
        BY <2>2 DEF Party!AssignAddress
      <3>2. "address" \in RowTables /\ "address" # "identifier" /\ FALSE \in BOOLEAN
        BY DEF RowTables, Party!FullTables
      <3> QED BY <3>1, <3>2
    <2>3. CASE Party!AddIdentifier(p)  BY <2>3 DEF Party!AddIdentifier, RowTables, Party!FullTables
    <2>4. CASE Party!AddRelationship(p)
      <3>1. PICK id \in Party!Fresh, to \in Party!Ids : rows' = rows \cup {Party!Row("relationship", id, p, to, FALSE)}
        BY <2>4 DEF Party!AddRelationship, Party!Parties
      <3>2. "relationship" \in RowTables /\ "relationship" # "identifier" /\ FALSE \in BOOLEAN  BY DEF RowTables
      <3> QED BY <3>1, <3>2
    <2> QED BY <1>1, <2>1, <2>2, <2>3, <2>4
  <1> DEFINE n == Party!Row(table, id, p, value, flag)
  <1>4. n \in RowRecord /\ n.id = id /\ n.table = table /\ n.value = value
    BY <1>2, <1>3 DEF Party!Row, RowRecord, Party!Fresh
  <1> HIDE DEF n
  <1>5. rows' = rows \cup {n}  BY <1>3 DEF n
  <1> QED BY <1>2, <1>3, <1>4, <1>5, PartyRowAdded
\* What a page shows.
LEMMA PageShows ==
    ASSUME NEW L \in SUBSET RowRecord, IsFiniteSet(L), \A a, b \in L : a.id = b.id => a = b,
           NEW offset \in Nat, NEW limit \in Nat \ {0}
    PROVE
        /\ Party!Page(L, offset, limit) \subseteq L /\ IsFiniteSet(Party!Page(L, offset, limit))
        /\ \A r \in L : /\ RowRank(L, r) >= offset /\ r \notin Party!Page(L, offset, limit)
                        => RowRank(L, r) >= offset + limit
        /\ Party!Page(L, offset, limit) = {} => \A r \in L : RowRank(L, r) < offset
        /\ offset = 0 /\ Cardinality(Party!Page(L, offset, limit)) < limit => Party!Page(L, offset, limit) = L
  <1> DEFINE P == Party!Page(L, offset, limit)
  <1>1. \A r \in L : RowRank(L, r) \in Nat  BY RowRankType
  <1>2. \A r : r \in P <=> r \in L /\ RowRank(L, r) \in offset .. (offset + limit - 1)
    BY PartyCardinality DEF Party!Page, RowRank
  <1>3. P \subseteq L /\ IsFiniteSet(P)  BY <1>2, FS_Subset
  <1>4. ASSUME NEW r \in L, RowRank(L, r) >= offset, r \notin P
        PROVE  RowRank(L, r) >= offset + limit
    BY <1>1, <1>2, <1>4
  <1>5. ASSUME P = {}, NEW r \in L PROVE RowRank(L, r) < offset
    <2> SUFFICES ASSUME RowRank(L, r) >= offset PROVE FALSE  BY <1>1
    <2>1. PICK q \in L : RowRank(L, q) = offset  BY RowRanksDense
    <2>2. q \in P  BY <1>2, <2>1
    <2> QED BY <1>5, <2>2
  <1>6. ASSUME offset = 0, Cardinality(P) < limit, NEW r \in L PROVE r \in P
    <2> SUFFICES ASSUME r \notin P PROVE FALSE  OBVIOUS
    <2>1. RowRank(L, r) >= limit  BY <1>1, <1>4, <1>6
    <2> DEFINE N == 0 .. (limit - 1)
               f == [q \in P |-> RowRank(L, q)]
    <2>2. ASSUME NEW k \in N PROVE \E q \in P : RowRank(L, q) = k
      <3>1. k \in Nat /\ RowRank(L, r) >= k  BY <1>1, <2>1
      <3>2. PICK q \in L : RowRank(L, q) = k  BY <3>1, RowRanksDense
      <3> QED BY <1>2, <1>6, <3>2
    <2>3. f \in Surjection(P, N)
      <3>1. \A q \in P : RowRank(L, q) \in N  BY <1>2, <1>6
      <3> HIDE DEF P, N
      <3> QED BY <2>2, <3>1 DEF Surjection
    <2>4. IsFiniteSet(N) /\ Cardinality(N) = limit
      <3>1. IsFiniteSet(N) /\ Cardinality(N) = (IF 0 > limit - 1 THEN 0 ELSE (limit - 1) - 0 + 1)
        BY FS_Interval
      <3> QED BY <3>1
    <2>5. Cardinality(N) <= Cardinality(P)
      <3> HIDE DEF P, N, f
      <3> QED BY <1>3, <2>3, FS_Surjection DEF ExistsSurjection
    <2>6. Cardinality(P) \in Nat  BY <1>3, FS_CardinalityType
    <2> QED BY <1>6, <2>4, <2>5, <2>6
  <1>7. offset = 0 /\ Cardinality(P) < limit => P = L  BY <1>3, <1>6
  <1> HIDE DEF P
  <1>8.
      /\ P \subseteq L /\ IsFiniteSet(P)
      /\ \A r \in L : RowRank(L, r) >= offset /\ r \notin P => RowRank(L, r) >= offset + limit
      /\ P = {} => \A r \in L : RowRank(L, r) < offset
      /\ offset = 0 /\ Cardinality(P) < limit => P = L
    BY <1>3, <1>4, <1>5, <1>7
  <1> QED BY <1>8 DEF P

\* A reader that changes only itself.
LEMMA ReaderTurn ==
    ASSUME PartyInv, UNCHANGED <<party, rows, custom, fieldset, ptx>>, PartyReads'
    PROVE  PartyInv'
  BY DEF PartyInv, PartyTypes, PartyNumbers, PartyWriters, PartyWriter, PartyRows

LEMMA BeginReadKeeps == PartyInv /\ (Party!BeginList \/ Party!LoadFullParty) => PartyInv'
  <1> SUFFICES ASSUME PartyInv, Party!BeginList \/ Party!LoadFullParty PROVE PartyInv'  OBVIOUS
  <1>1. UNCHANGED <<party, rows, custom, fieldset, ptx>>  BY DEF Party!BeginList, Party!LoadFullParty
  <1>2. rows \subseteq RowRecord  BY DEF PartyInv, PartyRows
  <1>3. CASE Party!BeginList
    <2>1. PICK p \in Party!Parties, sensitive \in BOOLEAN, list \in RowTables :
            preader' = Party!ReaderOf("open", list, p, sensitive, Party!Listed(list, p, sensitive))
      BY <1>3 DEF Party!BeginList, RowTables
    <2> DEFINE L == Party!Listed(list, p, sensitive)
    <2>2. L \subseteq rows /\ IsFiniteSet(L) /\ p \in Party!Ids  BY ListsAreRows DEF Party!Parties
    <2>3. \A r \in L : RowRank(L, r) \in Nat  BY <2>2, RowRankType
    <2>4. L = Party!Listed(list, p, sensitive)'
      BY <1>1 DEF Party!Listed, Party!ListContacts, Party!ListAddresses, Party!ListIdentifiers, Party!ListRelationships, Party!Of
    <2> HIDE DEF L
    <2>5.
        /\ preader' \in Reading /\ preader'.pc = "open" /\ preader'.owed = L /\ preader'.seen = {}
        /\ preader'.offset = 0 /\ preader'.list = list /\ preader'.party = p
        /\ preader'.sensitive = sensitive
      BY <1>2, <2>1, <2>2 DEF Party!ReaderOf, Reading, L
    <2>6. Party!Listed(preader.list, preader.party, preader.sensitive)' = L  BY <2>4, <2>5
    <2>7. PartyReads'  BY <1>1, <2>2, <2>3, <2>5, <2>6 DEF PartyReads
    <2> QED BY <1>1, <2>7, ReaderTurn
  <1>4. CASE Party!LoadFullParty
    <2>1. PICK p \in Party!Parties, sensitive \in BOOLEAN :
            preader' = Party!ReaderOf("load", "contact", p, sensitive,
                               UNION {Party!Shown(t, p, sensitive) : t \in Party!FullTables})
      BY <1>4 DEF Party!LoadFullParty
    <2> DEFINE O == UNION {Party!Shown(t, p, sensitive) : t \in Party!FullTables}
    <2>2. O \subseteq rows /\ p \in Party!Ids  BY ListsAreRows DEF Party!Parties, RowTables
    <2>3. \A t \in Party!FullTables : Party!Shown(t, p, sensitive)' = Party!Shown(t, p, sensitive)
      BY <1>1 DEF Party!Shown, Party!Listed, Party!ListContacts, Party!ListAddresses, Party!ListIdentifiers, Party!ListRelationships, Party!Of
    <2>4. \A r \in O : \E t \in Party!FullTables : r \in Party!Shown(t, p, sensitive)  OBVIOUS
    <2>5. "contact" \in RowTables /\ "contact" \in Party!FullTables /\ PendingTables("contact") = Party!FullTables
      BY DEF RowTables, Party!FullTables, PendingTables
    <2> HIDE DEF O
    <2>6.
        /\ preader' \in Reading /\ preader'.pc = "load" /\ preader'.owed = O /\ preader'.seen = {}
        /\ preader'.list = "contact" /\ preader'.party = p /\ preader'.sensitive = sensitive
      BY <1>2, <2>1, <2>2, <2>5 DEF Party!ReaderOf, Reading, O
    <2>7. \A t \in Party!FullTables : Party!Shown(t, preader.party, preader.sensitive)' = Party!Shown(t, p, sensitive)
      BY <2>3, <2>6
    <2>8. PendingTables(preader.list)' = Party!FullTables  BY <2>5, <2>6
    <2>9. PartyReads'  BY <1>1, <2>2, <2>4, <2>5, <2>6, <2>7, <2>8 DEF PartyReads
    <2> QED BY <1>1, <2>9, ReaderTurn
  <1> QED BY <1>3, <1>4
LEMMA NextPageKeeps == PartyInv /\ Party!NextPage => PartyInv'
  <1> SUFFICES ASSUME PartyInv, Party!NextPage PROVE PartyInv'  OBVIOUS
  <1>1.
      /\ UNCHANGED <<party, rows, custom, fieldset, ptx>> /\ preader.pc = "open"
      /\ preader \in Reading /\ preader # Party!Idle
    BY PartyFacts DEF Party!NextPage
  <1>2. PICK list \in RowTables, p \in Party!Ids, sensitive \in BOOLEAN :
          list = preader.list /\ p = preader.party /\ sensitive = preader.sensitive
    BY <1>1 DEF Reading
  <1> DEFINE L == Party!Listed(list, p, sensitive)
             P == Party!Page(L, preader.offset, PartyLimit)
  <1>3. L \subseteq rows /\ IsFiniteSet(L) /\ rows \subseteq RowRecord
        /\ \A r \in L : ~ sensitive => ~ (r.table = "identifier" /\ r.flag)
    BY ListsAreRows DEF PartyInv, PartyRows
  <1>4. \A a, b \in L : a.id = b.id => a = b  BY <1>3 DEF PartyInv, PartyRows
  <1>5. preader.offset \in Nat /\ preader.seen \subseteq RowRecord /\ preader.owed \subseteq RowRecord
    BY <1>1 DEF Reading
  <1>6. L = Party!Listed(list, p, sensitive)'
    BY <1>1 DEF Party!Listed, Party!ListContacts, Party!ListAddresses, Party!ListIdentifiers, Party!ListRelationships, Party!Of
  <1> HIDE DEF L
  <1>7.
      /\ P \subseteq L
      /\ \A r \in L : RowRank(L, r) >= preader.offset /\ r \notin P => RowRank(L, r) >= preader.offset + PartyLimit
      /\ P = {} => \A r \in L : RowRank(L, r) < preader.offset
    BY <1>3, <1>4, <1>5, PageShows, PartyAssumption
  <1>8. PICK pc \in {"open", "done"} : pc = IF P = {} THEN "done" ELSE "open"  OBVIOUS
  <1>9. /\ preader' = [preader EXCEPT !.offset = @ + PartyLimit, !.seen = @ \cup P, !.pc = pc]
    BY <1>2, <1>8 DEF Party!NextPage, L
  <1> HIDE DEF P
  <1>10.
      /\ preader' \in Reading /\ preader'.pc = pc /\ preader'.owed = preader.owed
      /\ preader'.seen = preader.seen \cup P /\ preader'.offset = preader.offset + PartyLimit
      /\ preader'.list = list /\ preader'.party = p /\ preader'.sensitive = sensitive
    <2>1. preader.seen \cup P \in SUBSET RowRecord /\ preader.offset + PartyLimit \in Nat
      BY <1>3, <1>5, <1>7, PartyAssumption
    <2>2. pc \in {"open", "load", "done", "rejected"}  OBVIOUS
    <2> QED BY <1>1, <1>2, <1>9, <2>1, <2>2 DEF Reading
  <1>11. Party!Listed(preader.list, preader.party, preader.sensitive)' = L  BY <1>6, <1>10
  <1>12. \A r \in preader.owed : r \in preader.seen \/ (r \in L /\ RowRank(L, r) >= preader.offset)
    BY <1>1, <1>2 DEF PartyInv, PartyReads, L
  <1>13. \A r \in L : RowRank(L, r) \in Nat  BY <1>3, RowRankType
  <1>14. PartyReads'
    <2>1.
        /\ preader'.seen \subseteq rows' /\ preader'.owed \subseteq rows'
        /\ ~ preader'.sensitive => \A r \in preader'.seen : ~ (r.table = "identifier" /\ r.flag)
      BY <1>1, <1>2, <1>3, <1>7, <1>10 DEF PartyInv, PartyReads
    <2>2. \A r \in preader'.owed :
            \/ r \in preader'.seen
            \/ r \in L /\ RowRank(L, r) >= preader'.offset
      BY <1>7, <1>10, <1>12
    <2>3. pc = "done" => preader'.owed \subseteq preader'.seen
      <3> SUFFICES ASSUME pc = "done", NEW r \in preader.owed PROVE r \in preader.seen  BY <1>10
      <3>1. P = {}  BY <1>8
      <3>2. \A q \in L : ~ (RowRank(L, q) >= preader.offset)  BY <1>5, <1>7, <1>13, <3>1
      <3> QED BY <1>12, <3>2
    <2>4. preader'.pc # "load"  BY <1>10
    <2> QED BY <1>10, <1>11, <2>1, <2>2, <2>3, <2>4 DEF PartyReads
  <1> QED BY <1>1, <1>14, ReaderTurn

LEMMA LoadTableKeeps == PartyInv /\ Party!LoadTable => PartyInv'
  <1> SUFFICES ASSUME PartyInv, Party!LoadTable PROVE PartyInv'  OBVIOUS
  <1>1.
      /\ UNCHANGED <<party, rows, custom, fieldset, ptx>> /\ preader.pc = "load"
      /\ preader \in Reading /\ preader # Party!Idle
    BY PartyFacts DEF Party!LoadTable
  <1>2. PICK list \in Party!FullTables, p \in Party!Ids, sensitive \in BOOLEAN :
          list = preader.list /\ p = preader.party /\ sensitive = preader.sensitive
    BY <1>1 DEF Reading, PartyInv, PartyReads
  <1> DEFINE L == Party!Shown(list, p, sensitive)
             P == Party!Page(L, 0, MaxFull + 1)
  <1>3. L \subseteq rows /\ IsFiniteSet(L) /\ rows \subseteq RowRecord
        /\ \A r \in L : ~ sensitive => ~ (r.table = "identifier" /\ r.flag)
    BY ListsAreRows DEF PartyInv, PartyRows, RowTables
  <1>4. \A a, b \in L : a.id = b.id => a = b  BY <1>3 DEF PartyInv, PartyRows
  <1>5. \A t \in Party!FullTables : Party!Shown(t, p, sensitive)' = Party!Shown(t, p, sensitive)
    BY <1>1 DEF Party!Shown, Party!Listed, Party!ListContacts, Party!ListAddresses, Party!ListIdentifiers, Party!ListRelationships, Party!Of
  <1> HIDE DEF L
  <1>6.
      /\ P \subseteq L /\ IsFiniteSet(P)
      /\ Cardinality(P) < MaxFull + 1 => P = L
    <2>1. MaxFull + 1 \in Nat \ {0} /\ 0 \in Nat  BY PartyAssumption
    <2> QED BY <1>3, <1>4, <2>1, PageShows
  <1>7. PICK pc : pc = IF Cardinality(P) > MaxFull THEN "rejected"
                       ELSE IF preader.list = "identifier" THEN "done" ELSE "load"
    OBVIOUS
  <1>8. preader' = [preader EXCEPT !.seen = @ \cup P, !.list = Party!Following(@), !.pc = pc]
    BY PartyCardinality, <1>2, <1>7 DEF Party!LoadTable, L
  <1>9. Cardinality(P) \in Nat  BY <1>6, FS_CardinalityType
  <1> HIDE DEF P
  <1>10.
      /\ pc \in {"rejected", "done", "load"} /\ (pc # "rejected" => P = L)
      /\ pc = "done" => list = "identifier"
      /\ pc = "load" => list # "identifier"
    <2>1. CASE Cardinality(P) > MaxFull  BY <1>7, <2>1
    <2>2. CASE ~ (Cardinality(P) > MaxFull)
      <3>1. Cardinality(P) < MaxFull + 1  BY <1>9, <2>2, PartyAssumption
      <3> QED BY <1>2, <1>6, <1>7, <2>2, <3>1
    <2> QED BY <2>1, <2>2
  <1>11. Party!Following(list) \in Party!FullTables /\ Party!Following(list) \in RowTables
    BY DEF Party!Following, Party!FullTables, RowTables
  <1>12.
      /\ preader' \in Reading /\ preader'.pc = pc /\ preader'.owed = preader.owed
      /\ preader'.seen = preader.seen \cup P /\ preader'.list = Party!Following(list)
      /\ preader'.party = p /\ preader'.sensitive = sensitive
    BY <1>1, <1>2, <1>3, <1>6, <1>8, <1>10, <1>11 DEF Reading
  <1>13. \A r \in preader.owed :
                                \/ r \in preader.seen
                                \/ \E t \in PendingTables(list) : r \in Party!Shown(t, p, sensitive)
    BY <1>1, <1>2 DEF PartyInv, PartyReads
  <1>14.
      /\ \A t \in PendingTables(list) : t = list \/ (list # "identifier" /\ t \in PendingTables(Party!Following(list)))
      /\ PendingTables(Party!Following(list)) \subseteq Party!FullTables
    BY DEF PendingTables, Party!FullTables, Party!Following
  <1>15. PartyReads'
    <2>1.
        /\ preader'.seen \subseteq rows' /\ preader'.owed \subseteq rows'
        /\ ~ preader'.sensitive => \A r \in preader'.seen : ~ (r.table = "identifier" /\ r.flag)
      BY <1>1, <1>2, <1>3, <1>6, <1>12 DEF PartyInv, PartyReads
    <2>2. pc # "rejected" =>
            \A r \in preader'.owed :
              \/ r \in preader'.seen
              \/
                 /\ list # "identifier"
                 /\ \E t \in PendingTables(Party!Following(list)) : r \in Party!Shown(t, p, sensitive)
      BY <1>10, <1>12, <1>13, <1>14 DEF L
    <2>3. pc = "done" => preader'.owed \subseteq preader'.seen  BY <1>10, <2>2
    <2>4. \A t \in Party!FullTables : Party!Shown(t, preader.party, preader.sensitive)' = Party!Shown(t, p, sensitive)
      BY <1>5, <1>12
    <2>5. PendingTables(preader.list)' = PendingTables(Party!Following(list))  BY <1>12
    <2>6. pc = "load" =>
            \A r \in preader'.owed :
              \/ r \in preader'.seen
              \/ \E t \in PendingTables(preader.list)' : r \in Party!Shown(t, preader.party, preader.sensitive)'
      BY <1>14, <2>2, <2>4, <2>5
    <2>7. preader'.pc # "open"  BY <1>10, <1>12
    <2> QED BY <1>11, <1>12, <2>1, <2>3, <2>6, <2>7 DEF PartyReads
  <1> QED BY <1>1, <1>15, ReaderTurn

LEMMA PartyStep == PartyInv /\ [Party!Next]_Party!vars => PartyInv'
  <1> SUFFICES ASSUME PartyInv, [Party!Next]_Party!vars PROVE PartyInv'  OBVIOUS
  <1>1. ASSUME NEW s \in Creators, Party!BeginCreate(s) \/ Party!DrawNumber(s) \/ Party!InsertParty(s)
        PROVE  PartyInv'
    BY <1>1, CreateKeeps
  <1>2. ASSUME NEW s \in Creators, Party!CommitParty(s) PROVE PartyInv'  BY <1>2, CommitPartyKeeps
  <1>3. ASSUME NEW s \in Creators,
               Party!BeginValues(s) \/ Party!LockedFacts(s) \/ Party!LockValues(s) \/ Party!ResolveSchema(s)
        PROVE  PartyInv'
    BY <1>3, ValuesKeeps
  <1>4. ASSUME NEW s \in Creators, Party!WriteValues(s) PROVE PartyInv'  BY <1>4, WriteValuesKeeps
  <1>5. ASSUME NEW s \in Creators, Party!Rollback(s) PROVE PartyInv'  BY <1>5, PartyEnds DEF Party!Rollback
  <1>6. CASE Party!UpdateParty \/ Party!AddChild \/ Party!ChangeFieldset
    BY <1>6, UpdatePartyKeeps, AddChildKeeps, ChangeFieldsetKeeps
  <1>7. CASE Party!BeginList \/ Party!NextPage \/ Party!LoadFullParty \/ Party!LoadTable
    BY <1>7, BeginReadKeeps, NextPageKeeps, LoadTableKeeps
  <1>8. CASE UNCHANGED Party!vars
    <2>1. UNCHANGED <<party, rows, custom, fieldset, ptx, preader>>  BY <1>8 DEF Party!vars
    <2>2. PartyTypes' /\ PartyNumbers' /\ PartyWriters'
      BY <2>1 DEF PartyInv, PartyTypes, PartyNumbers, PartyWriters, PartyWriter
    <2> QED BY <2>1, <2>2, PartyApart
  <1> QED BY <1>1, <1>2, <1>3, <1>4, <1>5, <1>6, <1>7, <1>8 DEF Party!Next, Party!Step

\* What comes before an element of a set of at most n
LEMMA Fewer ==
    ASSUME NEW S, IsFiniteSet(S), NEW n \in Nat, Cardinality(S) <= n, NEW r \in S, NEW B \in SUBSET (S \ {r})
    PROVE  Cardinality(B) \in 0..(n - 1)
  <1>1. IsFiniteSet(S \ {r}) /\ Cardinality(S \ {r}) = Cardinality(S) - 1  BY FS_RemoveElement
  <1>2. IsFiniteSet(B) /\ Cardinality(B) <= Cardinality(S \ {r})  BY <1>1, FS_Subset
  <1> QED BY <1>1, <1>2, FS_CardinalityType

\* A list no longer than a page is the page.
LEMMA WholePage ==
    ASSUME NEW L \in SUBSET RowRecord, IsFiniteSet(L), NEW n \in Nat, Cardinality(L) <= n
    PROVE  L \subseteq Party!Page(L, 0, n)
  <1> SUFFICES ASSUME NEW r \in L PROVE r \in Party!Page(L, 0, n)  OBVIOUS
  <1>1. {q \in L : q.id < r.id} \in SUBSET (L \ {r})  BY DEF RowRecord
  <1>2. Cardinality({q \in L : q.id < r.id}) \in 0..(n - 1)  BY <1>1, Fewer
  <1> QED BY <1>2, PartyCardinality DEF Party!Page

LEMMA PartiesFinite == IsFiniteSet(Party!Parties) /\ Party!Parties \subseteq Nat
  <1>1. IsFiniteSet(Party!Ids) /\ Party!Ids \subseteq Nat  BY PartyAssumption, FS_AddElement DEF Party!Ids
  <1> QED BY <1>1, FS_Subset DEF Party!Parties

\* The rows of a statement are finitely many.
LEMMA StatementsFinite ==
    ASSUME PartyInv, NEW p, NEW found \in Party!Statements(p)
    PROVE  IsFiniteSet(found)
  <1>1. IsFiniteSet(rows)  BY DEF PartyInv, PartyRows
  <1>2. CASE found \subseteq rows  BY <1>1, <1>2, FS_Subset
  <1>3. CASE found = Party!ProfileMatches(p)
    <2> DEFINE S == {o \in Party!Parties : Party!Alike(p, o)}
               f == [o \in S |-> [party |-> o]]
    <2>1. IsFiniteSet(S)  BY PartiesFinite, FS_Subset
    <2>2. f \in Surjection(S, found)  BY <1>3 DEF Surjection, Party!ProfileMatches
    <2> QED BY <2>1, <2>2, FS_Surjection
  <1>4. \A c : Party!ContactMatches(c) \subseteq rows /\ Party!IdentifierMatches(c) \subseteq rows
    BY DEF Party!ContactMatches, Party!IdentifierMatches
  <1> QED BY <1>2, <1>3, <1>4 DEF Party!Statements

\* What finds p for q finds q for p.
LEMMA FoundBack ==
    ASSUME PartyInv, NEW p \in Party!Parties, NEW q \in Party!Parties, Party!Uncut(p),
           NEW found \in Party!Statements(q), NEW r \in found, r.party = p
    PROVE  \E back \in Party!Statements(p) : \E b \in back : b.party = q
  <1>1. rows \subseteq RowRecord /\ IsFiniteSet(rows)  BY DEF PartyInv, PartyRows
  <1>2. Party!Verified(p) \subseteq rows /\ Party!Of("identifier", p) \subseteq rows
    BY DEF Party!Verified, Party!Of
  <1>3. IsFiniteSet(Party!Verified(p)) /\ IsFiniteSet(Party!Of("identifier", p))  BY <1>1, <1>2, FS_Subset
  <1>4. /\ Party!Verified(p) \subseteq Party!Page(Party!Verified(p), 0, MatchRows)
        /\ Party!Of("identifier", p) \subseteq Party!Page(Party!Of("identifier", p), 0, MatchRows)
    BY <1>1, <1>2, <1>3, WholePage, PartyAssumption, PartyCardinality DEF Party!Uncut
  <1>5. CASE \E c \in Party!Verified(q) : found = Party!ContactMatches(c)
    <2>1. PICK c \in Party!Verified(q) : found = Party!ContactMatches(c)  BY <1>5
    <2>2. r \in Party!Verified(p) /\ c \in Party!ContactMatches(r) /\ c.party = q
      BY <2>1 DEF Party!Verified, Party!Of, Party!ContactMatches
    <2> QED BY <1>4, <2>2 DEF Party!Statements
  <1>6. CASE \E i \in Party!Of("identifier", q) : found = Party!IdentifierMatches(i)
    <2>1. PICK i \in Party!Of("identifier", q) : found = Party!IdentifierMatches(i)  BY <1>6
    <2>2. r \in Party!Of("identifier", p) /\ i \in Party!IdentifierMatches(r) /\ i.party = q
      BY <2>1 DEF Party!Of, Party!IdentifierMatches
    <2> QED BY <1>4, <2>2 DEF Party!Statements
  <1>7. CASE found = Party!ProfileMatches(q)
    <2>1. Party!Alike(q, p)  BY <1>7 DEF Party!ProfileMatches
    <2>2. Party!Alike(p, q)  BY <2>1 DEF Party!Alike
    <2>3. [party |-> q] \in Party!ProfileMatches(p) /\ Party!ProfileMatches(p) \in Party!Statements(p)
      BY <2>2 DEF Party!ProfileMatches, Party!Statements
    <2> QED BY <2>3
  <1> QED BY <1>5, <1>6, <1>7 DEF Party!Statements, Party!Page

LEMMA DuplicatesMutual ==
    ASSUME PartyInv, NEW p \in Party!Parties, NEW q \in Party!Parties,
           p \in Party!MatchDuplicates(q), Party!Uncut(p)
    PROVE  q \in Party!MatchDuplicates(p)
  <1>1. Party!Eligible(p, q) /\ \E found \in Party!Statements(q) : p \in Party!Named(found)
    BY DEF Party!MatchDuplicates, Party!Candidates, Party!Eligible
  <1>2. PICK back \in Party!Statements(p) : \E b \in back : b.party = q  BY <1>1, FoundBack DEF Party!Named
  <1>3. PICK b \in back : b.party = q  BY <1>2
  <1>4. q \in Nat /\ MatchRows \in Nat /\ MatchLimit \in Nat  BY PartiesFinite, PartyAssumption
  <1>5. Cardinality({o \in back : o.party < q}) \in 0..(MatchRows - 1)
    <2>1. IsFiniteSet(back) /\ Cardinality(back) <= MatchRows
      BY StatementsFinite, PartyCardinality DEF Party!Uncut
    <2>2. {o \in back : o.party < q} \in SUBSET (back \ {b})  BY <1>3, <1>4
    <2> QED BY <1>4, <2>1, <2>2, Fewer
  <1>6. q \in Party!Candidates(p)
    <2>1. Party!Cardinality({o \in back : o.party < q}) < MatchRows  BY <1>4, <1>5, PartyCardinality
    <2>2. q \in Party!Named(back)  BY <1>3, <2>1 DEF Party!Named
    <2> QED BY <1>1, <2>2 DEF Party!Candidates
  <1>7. Cardinality({o \in Party!Candidates(p) : o < q}) \in 0..(MatchLimit - 1)
    <2>1. IsFiniteSet(Party!Candidates(p)) /\ Cardinality(Party!Candidates(p)) <= MatchLimit
      BY PartiesFinite, FS_Subset, PartyCardinality DEF Party!Uncut, Party!Candidates
    <2>2. {o \in Party!Candidates(p) : o < q} \in SUBSET (Party!Candidates(p) \ {q})  BY <1>4
    <2> QED BY <1>4, <1>6, <2>1, <2>2, Fewer
  <1> QED BY <1>4, <1>6, <1>7, PartyCardinality DEF Party!MatchDuplicates

LEMMA PartiesFollow == PartyInv => Party!PartiesSound
  <1> SUFFICES ASSUME PartyInv PROVE Party!PartiesSound  OBVIOUS
  <1>1. Party!TypeOK
    <2>1. \A p \in Party!Parties : party[p].number \in Numbers /\ party[p].name \in Party!Names
      BY PartyFacts DEF Party!Parties, PartyRecord
    <2>2. \A p \in Party!Ids : custom[p].version \in 0..MaxValuesVersion /\ custom[p].revision \in 0..MaxSetRevisions
      BY PartyFacts DEF ValuesRecord
    <2>3. fieldset.active \in 0..fieldset.latest  BY DEF PartyInv, PartyTypes
    <2> QED BY <2>1, <2>2, <2>3 DEF Party!TypeOK
  <1>2. \A p, q \in Party!Parties : party[p].number = party[q].number => p = q
    BY DEF PartyInv, PartyNumbers, Party!Parties
  <1>3. \A p \in Party!Ids : custom[p].version > 0 => custom[p].revision \in 1..fieldset.latest
    BY DEF PartyInv, PartyWriters
  <1>4. ASSUME NEW r \in Party!Providers, NEW v \in Values
        PROVE  Cardinality(Party!ResolveByExternalId(r, v)) <= 1
    <2>1. \A a, b \in Party!ResolveByExternalId(r, v) : a = b
      BY DEF PartyInv, PartyRows, Party!ResolveByExternalId
    <2> QED BY <2>1, AtMostOne
  <1>5. preader.pc = "done" => preader.owed \subseteq preader.seen  BY DEF PartyInv, PartyReads
  <1>6. preader.pc = "done" /\ ~preader.sensitive =>
          ~ \E r \in preader.seen : r.table = "identifier" /\ r.flag
    BY PartyFacts DEF PartyInv, PartyReads
  <1>7. \A p, q \in Party!Parties : p \in Party!MatchDuplicates(q) /\ Party!Uncut(p) => q \in Party!MatchDuplicates(p)
    BY DuplicatesMutual
  <1> QED BY PartyCardinality, <1>1, <1>2, <1>3, <1>4, <1>5, <1>6, <1>7 DEF Party!PartiesSound

LEMMA PartyChanges == PartyInv /\ [Party!Next]_Party!vars => Party!ValuesChanged
  <1> SUFFICES ASSUME PartyInv, [Party!Next]_Party!vars, NEW p \in Party!Ids, custom'[p] # custom[p]
               PROVE
                   /\ party[p] # Party!None /\ party[p].active
                   /\ custom'[p].version = custom[p].version + 1
    BY DEF Party!ValuesChanged
  <1>1. custom' # custom  OBVIOUS
  <1>2. PICK s \in Creators : Party!WriteValues(s)
    BY <1>1 DEF Party!Next, Party!Step, Party!vars, Party!BeginCreate, Party!BeginValues, Party!Rollback, Party!DrawNumber, Party!InsertParty, Party!CommitParty,
       Party!LockedFacts, Party!LockValues, Party!ResolveSchema, Party!UpdateParty, Party!AddChild, Party!ChangeFieldset, Party!BeginList,
       Party!NextPage, Party!LoadFullParty, Party!LoadTable
  <1>3.
      /\ ptx[s].pc = "write" /\ ptx[s] \in ValuesTx
      /\ custom' = [custom EXCEPT ![ptx[s].party] =
           [version |-> ptx[s].expected + 1, revision |-> ptx[s].revision, cleared |-> ptx[s].clear]]
    BY <1>2, PartyFacts DEF Party!WriteValues
  <1>4. ptx[s].party \in Party!Ids /\ PartyWriter(ptx[s]) /\ custom \in [Party!Ids -> ValuesRecord]
    BY <1>3 DEF ValuesTx, PartyInv, PartyTypes, PartyWriters
  <1>5. p = ptx[s].party  BY <1>3, <1>4
  <1>6. custom'[p].version = ptx[s].expected + 1  BY <1>3, <1>4, <1>5
  <1> QED BY <1>3, <1>4, <1>5, <1>6 DEF PartyWriter

------------------------
(* Classifications. *)

\* The library's cardinality is the instance's
LEMMA ClassCardinality == \A S : Class!Cardinality(S) = Cardinality(S)
  BY DEF Class!Cardinality, Cardinality

VersionRecord == [version : Nat \ {0}, from : 1..MaxClassTime, until : 1..Class!Forever, controls : Class!Controls]
DefinitionRecord == [active : BOOLEAN, versions : SUBSET VersionRecord]
Outcome == {Class!Denied} \cup [version : Nat \ {0}, controls : Class!Controls]
ReferenceRecord == [kind : {"core", "tenant"}, code : Class!Codes, version : Nat \ {0}, at : 0..MaxClassTime,
                    mask : BOOLEAN]

AssignTx == [pc : {"core", "overlay", "base", "row", "write"}, field : Fields \cup Policies,
             mask : BOOLEAN, legacy : BOOLEAN, kind : {"core", "tenant"}, code : Class!Codes,
             active : BOOLEAN, at : 0..MaxClassTime, result : Outcome]
OverlayTx == [pc : {"lock", "admit", "resolve"}, kind : {"core"}, code : {"c"}]
ChangeTx == [pc : {"put", "revise", "schedule"}, kind : {"core", "tenant"}, code : Class!Codes,
             now : 1..MaxClassTime, controls : Class!Controls]
ClaimTx == [pc : {"claim", "claimed"}, kind : {"core", "tenant"}, code : {"x"}]
ClassTxs == {Class!Idle} \cup AssignTx \cup OverlayTx \cup ChangeTx \cup ClaimTx

ClassTypes ==
    /\ clock \in 1..MaxClassTime
    /\ core \in [Class!Codes -> {Class!None} \cup DefinitionRecord]
    /\ owned \in [Class!Codes -> {Class!None} \cup DefinitionRecord]
    /\ overlays \subseteq VersionRecord
    /\ tags \in [Fields \cup Policies -> {Class!None} \cup ReferenceRecord]
    /\ ctx \in [Sessions -> ClassTxs]

\* From its first instant on a history has one version at a time; the last one is open.
OneAtATime(H) ==
    \A v \in H, at \in 1..MaxClassTime : v.from <= at =>
        \E w \in H : Class!Effective(H, at) = {w}
EndsOpen(H) == H # {} => \E o \in Class!Open(H) : \A v \in H : v.version <= o.version
History(H) == H \subseteq VersionRecord /\ OneAtATime(H) /\ EndsOpen(H)

ClassHistories ==
    /\ \A c \in Class!Codes :
                        /\ core[c] # Class!None => History(core[c].versions)
                        /\ owned[c] # Class!None =>
                                               /\ History(owned[c].versions)
                                               /\ \A v \in owned[c].versions : v.from <= clock
                        /\ core[c] = Class!None \/ owned[c] = Class!None
    /\ core["c"] # Class!None /\ core["c"].active
    /\ History(overlays) /\ \A v \in overlays : v.from <= clock

\* Transactions that exclude each other
HoldsCore(t) ==
                /\ t.pc \in {"overlay", "base", "row", "write", "admit", "resolve", "put"}
                /\ t.kind = "core" \/ Class!HasBase(t.code)
HoldsOverlay(t) ==
                   /\ t.pc \in {"base", "row", "write", "resolve", "put"}
                   /\ t.kind = "core" \/ Class!HasBase(t.code)
Clash(t, u) ==
    \/ t.pc = "schedule" /\ (u.pc = "schedule" \/ HoldsCore(u))
    \/ t.pc \in {"resolve", "put"} /\ HoldsOverlay(u)
    \/ t.pc = "revise" /\ u.pc \in {"write", "revise"} /\ u.kind = "tenant" /\ u.code = t.code
    \/ t.pc = "claimed" /\ u.pc = "claimed"
ClassLocks == \A s, o \in Sessions : s # o => ~ Clash(ctx[s], ctx[o])

\* What a reference has resolved is still what the tables say.
StillResolved(t) ==
    /\ t.result # Class!Denied /\ t.result = Class!Resolve(t.kind, t.code, t.at) /\ Class!IsActive(t.kind, t.code)
    /\ t.kind = "core" \/ Class!HasBase(t.code) => \A v \in overlays : v.from <= t.at
    /\ t.kind = "tenant" => \A v \in owned[t.code].versions : v.from <= t.at

ClassTx(t) ==
    /\ t.pc \in {"core", "overlay", "base", "row", "write"} =>
         /\ t.kind = "core" => t.code = "c" /\ t.pc # "row"
         /\ t.kind = "tenant" => owned[t.code] # Class!None
         /\ t.pc \in {"core", "overlay", "base"} => t.kind = "core" \/ Class!HasBase(t.code)
    /\ t.pc = "write" => StillResolved(t)
    /\ t.pc = "put" => t.now <= clock /\ t.kind = "core"
    /\ t.pc = "revise" => t.now <= clock /\ t.kind = "tenant" /\ owned[t.code] # Class!None
    /\ t.pc = "schedule" => Class!Closable(core["c"].versions, t.now)
    /\ t.pc = "claimed" => core["x"] = Class!None /\ owned["x"] = Class!None

ClassInv ==
    /\ ClassTypes /\ ClassHistories /\ ClassLocks
    /\ \A s \in Sessions : ClassTx(ctx[s])

------------------------
LEMMA LatestVersion ==
    ASSUME NEW H, History(H)
    PROVE  Class!Latest(H) \in Nat /\ \A v \in H : v.version \in Nat /\ v.version <= Class!Latest(H)
  <1> DEFINE N == {v.version : v \in H} \cup {0}
  <1>1. \A v \in H : v.version \in Nat  BY DEF History, VersionRecord
  <1>2. PICK m \in N : \A n \in N : m >= n
    <2>1. CASE H = {}  BY <2>1
    <2>2. CASE H # {}
      <3>1. PICK o \in H : \A v \in H : v.version <= o.version  BY <2>2 DEF History, EndsOpen, Class!Open
      <3>2. o.version \in N /\ o.version >= 0  BY <1>1
      <3>3. \A n \in N : o.version >= n  BY <1>1, <3>1, <3>2
      <3> QED BY <3>2, <3>3
    <2> QED BY <2>1, <2>2
  <1>3. Class!Latest(H) = CHOOSE x \in N : \A y \in N : x >= y  BY DEF Class!Latest, Class!Max
  <1> HIDE DEF N
  <1>4. Class!Latest(H) \in N /\ \A y \in N : Class!Latest(H) >= y  BY <1>2, <1>3
  <1>5. \A n \in N : n \in Nat  BY <1>1 DEF N
  <1>6. \A v \in H : v.version \in N  BY DEF N
  <1> QED BY <1>4, <1>5, <1>6

\* A version that begins after the open one continues the history.
LEMMA HistorySucceeds ==
    ASSUME NEW H, History(H), NEW from \in 1..MaxClassTime, Class!Closable(H, from), NEW c \in Class!Controls
    PROVE
        /\ History(Class!Succeed(H, from, c)) /\ Class!Succeed(H, from, c) # {}
        /\ \A k \in Nat : from <= k /\ (\A v \in H : v.from <= k) =>
             \A v \in Class!Succeed(H, from, c) : v.from <= k
  <1> DEFINE n == Class!Version(Class!Latest(H) + 1, from, c)
             closed(v) == IF v.until = Class!Forever THEN [v EXCEPT !.until = from] ELSE v
             G == Class!Succeed(H, from, c)
  <1>1.
      /\ n \in VersionRecord /\ n.from = from /\ n.until = Class!Forever
      /\ n.version = Class!Latest(H) + 1
    BY LatestVersion, ClassAssumption DEF Class!Version, VersionRecord, Class!Forever
  <1>2. Class!Forever \in Nat /\ Class!Forever = MaxClassTime + 1 /\ from \in Nat /\ from < Class!Forever
    BY ClassAssumption DEF Class!Forever
  <1>3. G = {closed(v) : v \in H} \cup {n}  BY DEF Class!Succeed
  <1>4. ASSUME NEW v \in H
        PROVE
            /\ v \in VersionRecord /\ closed(v) \in VersionRecord /\ closed(v).from = v.from
            /\ closed(v).version = v.version
            /\ closed(v).until = IF v.until = Class!Forever THEN from ELSE v.until
            /\ v.from \in Nat /\ v.until \in Nat
    <2>1. v \in VersionRecord  BY DEF History
    <2>2. v.from \in Nat /\ v.until \in Nat /\ from \in 1..Class!Forever
      BY <1>2, <2>1, ClassAssumption DEF VersionRecord
    <2> QED BY <2>1, <2>2 DEF VersionRecord
  <1>5. \A v \in H : v.until = Class!Forever => v.from < from  BY DEF Class!Closable, Class!Open
  <1> HIDE DEF n, closed, G
  <1>6. G \subseteq VersionRecord  BY <1>1, <1>3, <1>4
  <1>7. EndsOpen(G)
    <2>1. n \in Class!Open(G)  BY <1>1, <1>3 DEF Class!Open
    <2>2. \A v \in G : v.version <= n.version
      <3>1. Class!Latest(H) \in Nat /\ \A v \in H : v.version \in Nat /\ v.version <= Class!Latest(H)
        BY LatestVersion
      <3> QED BY <1>1, <1>3, <1>4, <3>1
    <2> QED BY <2>1, <2>2 DEF EndsOpen
  <1>8. ASSUME NEW a \in G, NEW at \in 1..MaxClassTime, a.from <= at
        PROVE  \E w \in G : Class!Effective(G, at) = {w}
    <2>1. at \in Nat /\ at < Class!Forever  BY <1>2, ClassAssumption
    <2>2. CASE at < from
      <3>1. PICK v \in H : v.from <= at
        <4>1. a # n  BY <1>1, <1>2, <1>8, <2>1, <2>2
        <4> QED BY <1>3, <1>4, <1>8, <4>1
      <3>2. PICK w \in H : Class!Effective(H, at) = {w}  BY <3>1 DEF History, OneAtATime
      <3>3. \A x \in H : x \in Class!Effective(H, at) <=> closed(x) \in Class!Effective(G, at)
        BY <1>2, <1>3, <1>4, <2>1, <2>2 DEF Class!Effective
      <3>4. n \notin Class!Effective(G, at)  BY <1>1, <1>2, <2>1, <2>2 DEF Class!Effective
      <3>5. closed(w) \in Class!Effective(G, at)  BY <3>2, <3>3
      <3>6. ASSUME NEW x \in Class!Effective(G, at) PROVE x = closed(w)
        <4>1. PICK z \in H : x = closed(z)  BY <1>3, <3>4 DEF Class!Effective
        <4>2. z \in Class!Effective(H, at)  BY <3>3, <4>1
        <4> QED BY <3>2, <4>1, <4>2
      <3>7. closed(w) \in G  BY <1>3
      <3> QED BY <3>5, <3>6, <3>7
    <2>3. CASE ~ (at < from)
      <3>1. n \in Class!Effective(G, at)  BY <1>1, <1>2, <1>3, <2>1, <2>3 DEF Class!Effective
      <3>2. ASSUME NEW x \in Class!Effective(G, at), x # n PROVE FALSE
        <4>1. PICK z \in H : x = closed(z)  BY <1>3, <3>2 DEF Class!Effective
        <4>2. closed(z).from <= at /\ at < closed(z).until  BY <4>1 DEF Class!Effective
        <4>3. z.until # Class!Forever /\ z.from <= at /\ at < z.until  BY <1>2, <1>4, <2>1, <2>3, <4>2
        <4>4. PICK o \in H : o.until = Class!Forever  BY DEF History, EndsOpen, Class!Open
        <4>5. o.from <= at /\ at < o.until  BY <1>2, <1>4, <1>5, <2>1, <2>3, <4>4
        <4>6. o \in Class!Effective(H, at) /\ z \in Class!Effective(H, at)  BY <4>3, <4>5 DEF Class!Effective
        <4>7. PICK w \in H : Class!Effective(H, at) = {w}  BY <4>3 DEF History, OneAtATime
        <4> QED BY <4>3, <4>4, <4>6, <4>7
      <3>3. n \in G  BY <1>3
      <3> QED BY <3>1, <3>2, <3>3
    <2> QED BY <2>2, <2>3
  <1>9. History(G) /\ G # {}  BY <1>3, <1>6, <1>7, <1>8 DEF History, OneAtATime
  <1>10. ASSUME NEW k \in Nat, from <= k, \A v \in H : v.from <= k, NEW v \in G
         PROVE  v.from <= k
    BY <1>1, <1>3, <1>4, <1>10
  <1> QED BY <1>9, <1>10 DEF G

LEMMA HistoryBegins ==
    ASSUME NEW at \in 1..MaxClassTime
    PROVE
        /\ Class!Definition(Class!Least, at) \in DefinitionRecord /\ Class!Definition(Class!Least, at).active = TRUE
        /\ History(Class!Definition(Class!Least, at).versions)
        /\ \A v \in Class!Definition(Class!Least, at).versions : v.from = at
  <1> DEFINE v == Class!Version(1, at, Class!Least)
  <1>1. v \in VersionRecord /\ v.from = at /\ v.until = Class!Forever /\ v.version = 1
    BY ClassAssumption DEF Class!Version, VersionRecord, Class!Least, Class!Controls, Class!Forever
  <1> HIDE DEF v
  <1>2. Class!Definition(Class!Least, at) = [active |-> TRUE, versions |-> {v}]  BY DEF Class!Definition, v
  <1>3. History({v})
    <2>1. \A i \in 1..MaxClassTime : v.from <= i => Class!Effective({v}, i) = {v}
      BY <1>1, ClassAssumption DEF Class!Effective, Class!Forever
    <2>2. OneAtATime({v})  BY <2>1 DEF OneAtATime
    <2>3. EndsOpen({v})  BY <1>1 DEF EndsOpen, Class!Open
    <2> QED BY <1>1, <2>2, <2>3 DEF History
  <1> QED BY <1>1, <1>2, <1>3 DEF DefinitionRecord

LEMMA NoHistory == History({})
  BY DEF History, OneAtATime, EndsOpen

LEMMA DefinitionsExist == \A d \in DefinitionRecord : d # Class!None
  <1> SUFFICES ASSUME NEW d \in DefinitionRecord, d = Class!None PROVE FALSE  OBVIOUS
  <1>1. "versions" \in DOMAIN d  BY DEF DefinitionRecord
  <1>2. "versions" \notin DOMAIN Class!None  BY DEF Class!None
  <1> QED BY <1>1, <1>2

LEMMA ClassInitially == Class!Init => ClassInv
  <1> SUFFICES ASSUME Class!Init PROVE ClassInv  OBVIOUS
  <1>1. 1 \in 1..MaxClassTime  BY ClassAssumption
  <1> DEFINE d == Class!Definition(Class!Least, 1)
  <1>2.
      /\ d \in DefinitionRecord /\ d # Class!None /\ d.active = TRUE /\ History(d.versions)
      /\ \A v \in d.versions : v.from = 1
    BY <1>1, HistoryBegins, DefinitionsExist
  <1> HIDE DEF d
  <1>3.
      /\ clock = 1 /\ core = [c \in Class!Codes |-> IF c = "c" THEN d ELSE Class!None]
      /\ owned = [c \in Class!Codes |-> IF c = "t" THEN d ELSE Class!None] /\ overlays = {}
      /\ tags = [f \in Fields \cup Policies |-> Class!None] /\ ctx = [s \in Sessions |-> Class!Idle]
    BY DEF Class!Init, d
  <1>4. ClassTypes  BY <1>1, <1>2, <1>3 DEF ClassTypes, ClassTxs
  <1>5. ClassHistories  BY <1>2, <1>3, NoHistory DEF ClassHistories, Class!Codes
  <1>6. \A s \in Sessions : ctx[s].pc = "idle"  BY <1>3 DEF Class!Idle
  <1>7. ClassLocks /\ \A s \in Sessions : ClassTx(ctx[s])
    BY <1>6 DEF ClassLocks, Clash, HoldsCore, HoldsOverlay, ClassTx
  <1> QED BY <1>4, <1>5, <1>7 DEF ClassInv

------------------------
LEMMA ClassKinds ==
    ASSUME ClassInv, NEW s \in Sessions
    PROVE
        /\ ctx[s].pc \in {"core", "overlay", "base", "row", "write"} => ctx[s] \in AssignTx
        /\ ctx[s].pc \in {"lock", "admit", "resolve"} => ctx[s] \in OverlayTx
        /\ ctx[s].pc \in {"put", "revise", "schedule"} => ctx[s] \in ChangeTx
        /\ ctx[s].pc \in {"claim", "claimed"} => ctx[s] \in ClaimTx
        /\ ClassTx(ctx[s]) /\ Class!Idle.pc = "idle"
  <1>1. ctx[s] \in ClassTxs /\ ClassTx(ctx[s])  BY DEF ClassInv, ClassTypes
  <1>2.
      /\ \A t \in AssignTx : t.pc \in {"core", "overlay", "base", "row", "write"}
      /\ \A t \in OverlayTx : t.pc \in {"lock", "admit", "resolve"}
      /\ \A t \in ChangeTx : t.pc \in {"put", "revise", "schedule"}
      /\ \A t \in ClaimTx : t.pc \in {"claim", "claimed"}
      /\ Class!Idle.pc = "idle"
    BY DEF AssignTx, OverlayTx, ChangeTx, ClaimTx, Class!Idle
  <1> QED BY <1>1, <1>2 DEF ClassTxs

LEMMA CanonicalSame ==
    ASSUME NEW at, core'["c"] = core["c"], overlays' = overlays
    PROVE  Class!Canonical("c", at)' = Class!Canonical("c", at)
  <1>1. Class!CanonicalFor("c", overlays, at)' = Class!CanonicalFor("c", overlays, at)
    BY DEF Class!CanonicalFor
  <1> QED BY <1>1 DEF Class!Canonical

\* What a reference resolves to changes only with the tables it is resolved by.
LEMMA StaysResolved ==
    ASSUME NEW t, StillResolved(t), t.kind = "core" \/ t.kind = "tenant",
           t.kind = "core" => t.code = "c",
           t.kind = "core" \/ Class!HasBase(t.code) => core'["c"] = core["c"] /\ overlays' = overlays,
           t.kind = "tenant" => owned'[t.code] = owned[t.code]
    PROVE  StillResolved(t)'
  <1>1. CASE t.kind = "core"
    <2>1. Class!Canonical("c", t.at)' = Class!Canonical("c", t.at)  BY <1>1, CanonicalSame
    <2>2. Class!Resolve(t.kind, t.code, t.at)' = Class!Resolve(t.kind, t.code, t.at)
      BY <1>1, <2>1 DEF Class!Resolve
    <2> QED BY <1>1, <2>2 DEF StillResolved, Class!IsActive
  <1>2. CASE t.kind = "tenant"
    <2>1. Class!BaseOf(t.code, t.at)' = Class!BaseOf(t.code, t.at)
      <3>1. CASE Class!HasBase(t.code)
        <4>1. Class!Canonical("c", t.at)' = Class!Canonical("c", t.at)  BY <3>1, CanonicalSame
        <4> QED BY <3>1, <4>1 DEF Class!BaseOf
      <3>2. CASE ~ Class!HasBase(t.code)  BY <3>2 DEF Class!BaseOf
      <3> QED BY <3>1, <3>2
    <2>2. ASSUME NEW b PROVE Class!Owned(t.code, b, t.at)' = Class!Owned(t.code, b, t.at)
      <3>1. owned'[t.code] = owned[t.code]  BY <1>2
      <3> QED BY <3>1 DEF Class!Owned
    <2>3. Class!Resolve(t.kind, t.code, t.at) = Class!Owned(t.code, Class!BaseOf(t.code, t.at), t.at)
      BY <1>2 DEF Class!Resolve
    <2>4. Class!Resolve(t.kind, t.code, t.at)' = Class!Owned(t.code, Class!BaseOf(t.code, t.at), t.at)'
      BY <1>2 DEF Class!Resolve
    <2>5. PICK b : b = Class!BaseOf(t.code, t.at)  OBVIOUS
    <2>6. Class!Owned(t.code, Class!BaseOf(t.code, t.at), t.at)' = Class!Owned(t.code, b, t.at)'
      BY <2>1, <2>5 DEF Class!Owned
    <2>7. Class!Resolve(t.kind, t.code, t.at)' = Class!Resolve(t.kind, t.code, t.at)
      BY <2>2, <2>3, <2>4, <2>5, <2>6
    <2> QED BY <1>2, <2>7 DEF StillResolved, Class!IsActive
  <1> QED BY <1>1, <1>2

LEMMA DefinitionsActive == \A d \in {Class!None} \cup DefinitionRecord : d.active \in BOOLEAN
  <1>1. Class!None.active = FALSE  BY DEF Class!None
  <1>2. \A d \in DefinitionRecord : d.active \in BOOLEAN  BY DEF DefinitionRecord
  <1> QED BY <1>1, <1>2

\* One transaction goes on, and the tables stay as they are.
LEMMA ClassTurn ==
    ASSUME ClassInv, NEW s \in Sessions, NEW y \in ClassTxs,
           UNCHANGED <<clock, core, owned, overlays, tags>>, ctx' = [ctx EXCEPT ![s] = y],
           ClassTx(y), \A o \in Sessions \ {s} : ~ Clash(y, ctx[o]) /\ ~ Clash(ctx[o], y)
    PROVE  ClassInv'
  <1>1. \A o \in Sessions : ctx'[o] = IF o = s THEN y ELSE ctx[o]  BY DEF ClassInv, ClassTypes
  <1>2. ClassTypes'  BY DEF ClassInv, ClassTypes
  <1>3. ClassHistories'  BY DEF ClassInv, ClassHistories
  <1>4. ClassLocks'
    <2> SUFFICES ASSUME NEW a \in Sessions, NEW b \in Sessions, a # b PROVE ~ Clash(ctx'[a], ctx'[b])
      BY DEF ClassLocks, Clash, HoldsCore, HoldsOverlay
    <2>1. ~ Clash(ctx[a], ctx[b])  BY DEF ClassInv, ClassLocks
    <2> QED BY <1>1, <2>1
  <1>5. ASSUME NEW o \in Sessions PROVE ClassTx(ctx[o])'
    <2>1. PICK t \in ClassTxs : t = ctx'[o] /\ ClassTx(t)  BY <1>1 DEF ClassInv, ClassTypes
    <2>2. t.pc = "write" => t.kind = "core" \/ t.kind = "tenant"
      BY <2>1 DEF ClassTxs, AssignTx, OverlayTx, ChangeTx, ClaimTx, Class!Idle
    <2>3. t.pc = "write" => StillResolved(t)'  BY <2>1, <2>2, StaysResolved DEF ClassTx
    <2>4. ClassTx(t)'  BY <2>1, <2>3 DEF ClassTx
    <2> QED BY <2>1, <2>4 DEF ClassTx, StillResolved, Class!Resolve, Class!IsActive
  <1> QED BY <1>2, <1>3, <1>4, <1>5 DEF ClassInv

LEMMA ClassEnds ==
    ASSUME ClassInv, NEW s \in Sessions, UNCHANGED <<clock, core, owned, overlays, tags>>, Class!End(s)
    PROVE  ClassInv'
  <1>1. ctx' = [ctx EXCEPT ![s] = Class!Idle] /\ Class!Idle \in ClassTxs  BY DEF Class!End, ClassTxs
  <1>2. ClassTx(Class!Idle) /\ \A u : ~ Clash(Class!Idle, u) /\ ~ Clash(u, Class!Idle)
    BY DEF ClassTx, Clash, HoldsCore, HoldsOverlay, Class!Idle
  <1> QED BY <1>1, <1>2, ClassTurn

\* Locks are waited for; what nobody else has excludes nobody.
LEMMA OthersExclude ==
    ASSUME ClassInv, NEW s \in Sessions, NEW o \in Sessions \ {s}
    PROVE
        /\ Class!CoreFree(s) => ctx[o].pc # "schedule"
        /\ Class!CoreExclusive(s) => ~ HoldsCore(ctx[o]) /\ ctx[o].pc # "schedule"
        /\ Class!OverlayFree(s) => ctx[o].pc \notin {"resolve", "put"}
        /\ Class!OverlayExclusive(s) => ~ HoldsOverlay(ctx[o])
        /\ \A code : Class!RowFree(s, code) => ~ (ctx[o].pc = "revise" /\ ctx[o].code = code)
        /\ \A code : Class!RowExclusive(s, code) =>
             ~ (ctx[o].pc \in {"write", "revise"} /\ ctx[o].kind = "tenant" /\ ctx[o].code = code)
        /\ Class!IdentityFree(s) => ctx[o].pc # "claimed"
  <1>1. ctx[o].pc # "idle" => o \in Class!Others(s)  BY DEF Class!Others
  <1> QED
    BY <1>1 DEF Class!CoreFree, Class!CoreExclusive, Class!OverlayFree, Class!OverlayExclusive, Class!RowFree, Class!RowExclusive,
       Class!IdentityFree, HoldsCore, HoldsOverlay, Class!CoreShared, Class!Based

LEMMA BeginAssignKeeps ==
    ASSUME ClassInv, NEW s \in Sessions, Class!BeginAssign(s)
    PROVE  ClassInv'
  <1>1. PICK field \in Fields \cup Policies, mask \in BOOLEAN, legacy \in BOOLEAN,
             kind \in {"core", "tenant"}, code \in Class!Codes :
          /\ field \in Policies => ~mask
          /\ IF kind = "core" THEN code = "c" ELSE owned[code] # Class!None /\ ~legacy
          /\ ctx' = [ctx EXCEPT ![s] =
              [pc |-> IF kind = "core" \/ Class!HasBase(code) THEN "core" ELSE "row", field |-> field,
               mask |-> mask, legacy |-> legacy, kind |-> kind, code |-> code,
               active |-> Class!IsActive(kind, code), at |-> 0, result |-> Class!Denied]]
    BY Zenon DEF Class!BeginAssign
  <1>2. UNCHANGED <<clock, core, owned, overlays, tags>>  BY DEF Class!BeginAssign
  <1>3. PICK pc \in {"core", "row"} : pc = IF kind = "core" \/ Class!HasBase(code) THEN "core" ELSE "row"
    OBVIOUS
  <1>4. PICK active \in BOOLEAN : active = Class!IsActive(kind, code)
    <2>1. core[code] \in {Class!None} \cup DefinitionRecord /\ owned[code] \in {Class!None} \cup DefinitionRecord
      BY DEF ClassInv, ClassTypes
    <2>2. core[code].active \in BOOLEAN /\ owned[code].active \in BOOLEAN  BY <2>1, DefinitionsActive
    <2>3. CASE kind = "core"  BY <2>2, <2>3 DEF Class!IsActive
    <2>4. CASE kind # "core"  BY <2>2, <2>4 DEF Class!IsActive
    <2> QED BY <2>3, <2>4
  <1> DEFINE y == [pc |-> pc, field |-> field, mask |-> mask, legacy |-> legacy, kind |-> kind,
                   code |-> code, active |-> active, at |-> 0, result |-> Class!Denied]
  <1>5. ctx' = [ctx EXCEPT ![s] = y]  BY <1>1, <1>3, <1>4
  <1>6. y \in AssignTx  BY ClassAssumption DEF AssignTx, Outcome
  <1>7. ClassTx(y)  BY <1>1, <1>3 DEF ClassTx
  <1>8. \A o \in Sessions \ {s} : ~ Clash(y, ctx[o]) /\ ~ Clash(ctx[o], y)
    BY <1>3 DEF Clash, HoldsCore, HoldsOverlay
  <1> HIDE DEF y
  <1> QED BY <1>2, <1>5, <1>6, <1>7, <1>8, ClassTurn DEF ClassTxs

LEMMA LockKeeps ==
    ASSUME ClassInv, NEW s \in Sessions, Class!LockCore(s) \/ Class!LockOverlay(s)
    PROVE  ClassInv'
  <1>1. PICK pc \in {"overlay", "base"} :
          /\ ctx[s].pc \in {"core", "overlay"} /\ ctx' = [ctx EXCEPT ![s].pc = pc]
          /\ pc = "overlay" => ctx[s].pc = "core" /\ Class!CoreFree(s)
          /\ pc = "base" => ctx[s].pc = "overlay" /\ Class!OverlayFree(s)
    BY DEF Class!LockCore, Class!LockOverlay, Class!Go
  <1>2. UNCHANGED <<clock, core, owned, overlays, tags>>  BY DEF Class!LockCore, Class!LockOverlay
  <1>3. ctx[s] \in AssignTx /\ ClassTx(ctx[s])  BY <1>1, ClassKinds
  <1> DEFINE y == [ctx[s] EXCEPT !.pc = pc]
  <1>4. y \in AssignTx /\ y.pc = pc /\ y.kind = ctx[s].kind /\ y.code = ctx[s].code  BY <1>3 DEF AssignTx
  <1>5. ctx' = [ctx EXCEPT ![s] = y]  BY <1>1, <1>3 DEF ClassInv, ClassTypes
  <1>6. ClassTx(y)  BY <1>1, <1>3, <1>4 DEF ClassTx
  <1>7. ASSUME NEW o \in Sessions \ {s} PROVE ~ Clash(y, ctx[o]) /\ ~ Clash(ctx[o], y)
    <2>1. ~ Clash(ctx[s], ctx[o]) /\ ~ Clash(ctx[o], ctx[s])  BY DEF ClassInv, ClassLocks
    <2>2. CASE pc = "overlay"  BY <1>1, <1>4, <2>2, OthersExclude DEF Clash, HoldsCore, HoldsOverlay
    <2>3. CASE pc = "base"
      BY <1>1, <1>3, <1>4, <2>1, <2>3, OthersExclude DEF Clash, HoldsCore, HoldsOverlay, ClassTx
    <2> QED BY <2>2, <2>3
  <1> HIDE DEF y
  <1> QED BY <1>2, <1>4, <1>5, <1>6, <1>7, ClassTurn DEF ClassTxs
------------------------
LEMMA ComposeControls ==
    ASSUME NEW a \in Class!Controls, NEW b \in Class!Controls
    PROVE  Class!Compose(a, b) \in Class!Controls
  <1>1. PICK i \in 1..MaxLevel, j \in 1..MaxLevel : i = a.level /\ j = b.level  BY DEF Class!Controls
  <1>2. Class!Max({i, j}) \in {i, j}
    <2>1. \E x \in {i, j} : \A y \in {i, j} : x >= y  BY ClassAssumption
    <2>2. Class!Max({i, j}) = CHOOSE x \in {i, j} : \A y \in {i, j} : x >= y  BY DEF Class!Max
    <2> QED BY <2>1, <2>2
  <1>3. Class!Max({a.level, b.level}) \in 1..MaxLevel  BY <1>1, <1>2
  <1>4. a.mask \in BOOLEAN /\ b.mask \in BOOLEAN  BY DEF Class!Controls
  <1>5. (a.mask \/ b.mask) \in BOOLEAN  OBVIOUS
  <1> QED BY <1>3, <1>5 DEF Class!Compose, Class!Controls

LEMMA ResultOutcome ==
    ASSUME NEW v \in VersionRecord, NEW c \in Class!Controls
    PROVE  Class!Result(v, c) \in Outcome
  BY DEF Class!Result, Outcome, VersionRecord

LEMMA OneEffective ==
    ASSUME NEW H \in SUBSET VersionRecord, NEW at, Class!Effective(H, at) # {}
    PROVE
        /\ (CHOOSE w \in Class!Effective(H, at) : TRUE) \in VersionRecord
        /\ (CHOOSE w \in Class!Effective(H, at) : TRUE).controls \in Class!Controls
  <1>1. Class!Effective(H, at) \subseteq VersionRecord  BY DEF Class!Effective
  <1> DEFINE w == CHOOSE w \in Class!Effective(H, at) : TRUE
  <1>2. w \in VersionRecord  BY <1>1
  <1>3. w.controls \in Class!Controls
    <2> HIDE DEF w
    <2> QED BY <1>2 DEF VersionRecord
  <1> QED BY <1>2, <1>3

LEMMA CanonicalOutcome ==
    ASSUME ClassInv, NEW code \in Class!Codes, NEW at
    PROVE  Class!Canonical(code, at) \in Outcome
  <1>1. ASSUME NEW added \in SUBSET VersionRecord PROVE Class!CanonicalFor(code, added, at) \in Outcome
    <2> DEFINE C == Class!CanonicalFor(code, added, at)
    <2>1. C = Class!Denied \/ C # Class!Denied  OBVIOUS
    <2>2. Class!Denied \in Outcome  BY DEF Outcome
    <2>3. CASE core[code] = Class!None \/ Cardinality(Class!Effective(core[code].versions, at)) # 1
               \/ Cardinality(Class!Effective(added, at)) > 1
      BY ClassCardinality, <2>2, <2>3 DEF Class!CanonicalFor
    <2>4. CASE ~ (core[code] = Class!None \/ Cardinality(Class!Effective(core[code].versions, at)) # 1
                  \/ Cardinality(Class!Effective(added, at)) > 1)
      <3>1. core[code] \in DefinitionRecord  BY <2>4 DEF ClassInv, ClassTypes
      <3>2. core[code].versions \in SUBSET VersionRecord  BY <3>1 DEF DefinitionRecord
      <3>3. Class!Effective(core[code].versions, at) # {}  BY <2>4, FS_EmptySet
      <3> DEFINE v == CHOOSE w \in Class!Effective(core[code].versions, at) : TRUE
                 a == (CHOOSE w \in Class!Effective(added, at) : TRUE).controls
      <3>4. v \in VersionRecord /\ v.controls \in Class!Controls  BY <3>2, <3>3, OneEffective
      <3>5. C = IF Class!Effective(added, at) = {}
                THEN IF \E w \in added : w.from <= at THEN Class!Denied ELSE Class!Result(v, v.controls)
                ELSE IF Class!Weakens(v.controls, a) THEN Class!Denied ELSE Class!Result(v, Class!Compose(v.controls, a))
        BY ClassCardinality, <2>4 DEF Class!CanonicalFor
      <3>6. Class!Effective(added, at) # {} => a \in Class!Controls  BY OneEffective
      <3> HIDE DEF v, a, C
      <3>7. Class!Result(v, v.controls) \in Outcome  BY <3>4, ResultOutcome
      <3>8. Class!Effective(added, at) # {} => Class!Result(v, Class!Compose(v.controls, a)) \in Outcome
        BY <3>4, <3>6, ComposeControls, ResultOutcome
      <3>9. C \in Outcome  BY <2>2, <3>5, <3>7, <3>8
      <3> QED BY <3>9 DEF C
    <2> QED BY <2>3, <2>4
  <1>2. overlays \in SUBSET VersionRecord /\ {} \in SUBSET VersionRecord  BY DEF ClassInv, ClassTypes
  <1>3. Class!CanonicalFor(code, overlays, at) \in Outcome /\ Class!CanonicalFor(code, {}, at) \in Outcome
    BY <1>1, <1>2
  <1> QED BY <1>3 DEF Class!Canonical

LEMMA OwnedOutcome ==
    ASSUME ClassInv, NEW code \in Class!Codes, NEW at, NEW base \in Outcome
    PROVE  Class!Owned(code, base, at) \in Outcome
  <1> DEFINE V == Class!Effective(owned[code].versions, at)
             C == Class!Owned(code, base, at)
  <1>2. Class!Denied \in Outcome  BY DEF Outcome
  <1>3. CASE owned[code] = Class!None \/ Cardinality(V) # 1 \/ base = Class!Denied
    BY ClassCardinality, <1>2, <1>3 DEF Class!Owned
  <1>4. CASE ~ (owned[code] = Class!None \/ Cardinality(V) # 1 \/ base = Class!Denied)
    <2>1. owned[code] \in DefinitionRecord  BY <1>4 DEF ClassInv, ClassTypes
    <2>2. owned[code].versions \in SUBSET VersionRecord  BY <2>1 DEF DefinitionRecord
    <2>3. V # {}  BY <1>4, FS_EmptySet
    <2> DEFINE v == CHOOSE w \in V : TRUE
    <2>4. v \in VersionRecord /\ v.controls \in Class!Controls  BY <2>2, <2>3, OneEffective
    <2>5. C = IF ~Class!HasBase(code) THEN Class!Result(v, v.controls)
              ELSE IF Class!Weakens(base.controls, v.controls) THEN Class!Denied
              ELSE Class!Result(v, Class!Compose(base.controls, v.controls))
      BY ClassCardinality, <1>4 DEF Class!Owned
    <2>6. base.controls \in Class!Controls  BY <1>4 DEF Outcome
    <2> HIDE DEF v, C
    <2>7. Class!Result(v, v.controls) \in Outcome /\ Class!Result(v, Class!Compose(base.controls, v.controls)) \in Outcome
      BY <2>4, <2>6, ComposeControls, ResultOutcome
    <2>8. C \in Outcome  BY <1>2, <2>5, <2>7
    <2> QED BY <2>8 DEF C
  <1> QED BY <1>3, <1>4

LEMMA BaseOutcome ==
    ASSUME ClassInv, NEW code \in Class!Codes, NEW at
    PROVE  Class!BaseOf(code, at) \in Outcome
  <1>1. Class!Canonical("c", at) \in Outcome  BY CanonicalOutcome DEF Class!Codes
  <1>2. Class!Result([version |-> 1], Class!Least) \in Outcome
    BY ClassAssumption DEF Class!Result, Outcome, Class!Least, Class!Controls
  <1> QED BY <1>1, <1>2 DEF Class!BaseOf

\* Once a reference is resolved it is what the tables say at that instant.
LEMMA ResolvedKeeps ==
    ASSUME ClassInv, NEW s \in Sessions, NEW r \in Outcome, Class!Resolved(s, r),
           UNCHANGED <<clock, core, owned, overlays, tags>>, ctx[s] \in AssignTx,
           r = Class!Resolve(ctx[s].kind, ctx[s].code, clock),
           ctx[s].active => Class!IsActive(ctx[s].kind, ctx[s].code),
           ClassTx(ctx[s]),
           ctx[s].kind = "tenant" => Class!RowFree(s, ctx[s].code),
           ctx[s].pc = "base" \/ (ctx[s].pc = "row" /\ ctx[s].kind = "tenant")
    PROVE  ClassInv'
  <1>1. CASE ~ (Class!Approved(ctx[s], r) /\ ctx[s].active)
    <2>1. Class!End(s)  BY <1>1 DEF Class!Resolved, Class!End
    <2> QED BY <2>1, ClassEnds
  <1>2. CASE Class!Approved(ctx[s], r) /\ ctx[s].active
    <2> DEFINE y == [ctx[s] EXCEPT !.pc = "write", !.at = clock, !.result = r]
    <2>1. ctx' = [ctx EXCEPT ![s] = y]  BY <1>2 DEF Class!Resolved
    <2>2. clock \in 0..MaxClassTime /\ clock \in Nat  BY ClassAssumption DEF ClassInv, ClassTypes
    <2>3.
        /\ y \in AssignTx /\ y.pc = "write" /\ y.kind = ctx[s].kind /\ y.code = ctx[s].code
        /\ y.at = clock /\ y.result = r
      BY <2>2 DEF AssignTx
    <2>4. r # Class!Denied  BY <1>2 DEF Class!Approved
    <2> HIDE DEF y
    <2>5. y.code \in Class!Codes  BY <2>3 DEF AssignTx
    <2>6. StillResolved(y)
      <3>1. \A v \in overlays : v.from <= clock  BY DEF ClassInv, ClassHistories
      <3>2. y.kind = "tenant" => \A v \in owned[y.code].versions : v.from <= clock
        BY <2>3, <2>5 DEF ClassInv, ClassHistories, ClassTx
      <3> QED BY <1>2, <2>3, <2>4, <3>1, <3>2 DEF StillResolved
    <2>7. ClassTx(y)  BY <2>3, <2>6 DEF ClassTx
    <2>8. ASSUME NEW o \in Sessions \ {s} PROVE ~ Clash(y, ctx[o]) /\ ~ Clash(ctx[o], y)
      <3>1. ~ Clash(ctx[s], ctx[o]) /\ ~ Clash(ctx[o], ctx[s])  BY DEF ClassInv, ClassLocks
      <3>2. HoldsCore(y) => HoldsCore(ctx[s])  BY <2>3 DEF HoldsCore
      <3>3. HoldsOverlay(y) => HoldsOverlay(ctx[s])  BY <2>3 DEF HoldsOverlay
      <3>4. y.kind = "tenant" => ~ (ctx[o].pc = "revise" /\ ctx[o].code = y.code)  BY <2>3, OthersExclude
      <3> QED BY <2>3, <3>1, <3>2, <3>3, <3>4 DEF Clash
    <2> QED BY <2>1, <2>3, <2>7, <2>8, ClassTurn DEF ClassTxs
  <1> QED BY <1>1, <1>2

LEMMA ResolveBaseKeeps ==
    ASSUME ClassInv, NEW s \in Sessions, Class!ResolveBase(s)
    PROVE  ClassInv'
  <1>1. ctx[s].pc = "base" /\ UNCHANGED <<clock, core, owned, overlays, tags>>  BY DEF Class!ResolveBase
  <1>2. ctx[s] \in AssignTx /\ ClassTx(ctx[s])  BY <1>1, ClassKinds
  <1>3. PICK base \in Outcome : base = Class!Canonical("c", clock)  BY CanonicalOutcome DEF Class!Codes
  <1>4. CASE ctx[s].kind = "core"
    <2>1. Class!Resolved(s, base)  BY <1>3, <1>4 DEF Class!ResolveBase
    <2>2. ctx[s].code = "c"  BY <1>1, <1>2, <1>4 DEF ClassTx
    <2>3. base = Class!Resolve(ctx[s].kind, ctx[s].code, clock) /\ Class!IsActive(ctx[s].kind, ctx[s].code)
      BY <1>3, <1>4, <2>2 DEF Class!Resolve, Class!IsActive, ClassInv, ClassHistories
    <2> QED BY <1>1, <1>2, <1>4, <2>1, <2>3, ResolvedKeeps
  <1>5. CASE ctx[s].kind # "core" /\ base = Class!Denied
    <2>1. Class!End(s)  BY <1>3, <1>5 DEF Class!ResolveBase, Class!End
    <2> QED BY <1>1, <2>1, ClassEnds
  <1>6. CASE ctx[s].kind # "core" /\ base # Class!Denied
    <2> DEFINE y == [ctx[s] EXCEPT !.pc = "row", !.result = base]
    <2>1. ctx' = [ctx EXCEPT ![s] = y]  BY <1>3, <1>6 DEF Class!ResolveBase
    <2>2. y \in AssignTx /\ y.pc = "row" /\ y.kind = ctx[s].kind /\ y.code = ctx[s].code  BY <1>2 DEF AssignTx
    <2> HIDE DEF y
    <2>3. ClassTx(y)  BY <1>1, <1>2, <1>6, <2>2 DEF ClassTx
    <2>4. ASSUME NEW o \in Sessions \ {s} PROVE ~ Clash(y, ctx[o]) /\ ~ Clash(ctx[o], y)
      <3>1. ~ Clash(ctx[s], ctx[o]) /\ ~ Clash(ctx[o], ctx[s])  BY DEF ClassInv, ClassLocks
      <3> QED BY <1>1, <2>2, <3>1 DEF Clash, HoldsCore, HoldsOverlay
    <2> QED BY <1>1, <2>1, <2>2, <2>3, <2>4, ClassTurn DEF ClassTxs
  <1> QED BY <1>4, <1>5, <1>6

LEMMA ResolveOwnKeeps ==
    ASSUME ClassInv, NEW s \in Sessions, Class!ResolveOwn(s)
    PROVE  ClassInv'
  <1>1.
      /\ ctx[s].pc = "row" /\ UNCHANGED <<clock, core, owned, overlays, tags>>
      /\ Class!RowFree(s, ctx[s].code)
    BY DEF Class!ResolveOwn
  <1>2. ctx[s] \in AssignTx /\ ClassTx(ctx[s])  BY <1>1, ClassKinds
  <1>3. ctx[s].kind = "tenant" /\ ctx[s].code \in Class!Codes  BY <1>1, <1>2 DEF ClassTx, AssignTx
  <1>4. CASE owned[ctx[s].code].active # ctx[s].active
    <2>1. Class!End(s)  BY <1>4 DEF Class!ResolveOwn
    <2> QED BY <1>1, <2>1, ClassEnds
  <1>5. CASE ~ (owned[ctx[s].code].active # ctx[s].active)
    <2>1. PICK base \in Outcome : base = Class!BaseOf(ctx[s].code, clock)  BY <1>3, BaseOutcome
    <2>2. PICK r \in Outcome : r = Class!Owned(ctx[s].code, base, clock)  BY <1>3, OwnedOutcome
    <2>3. r = Class!Owned(ctx[s].code, Class!BaseAgain(s), clock)  BY <2>1, <2>2 DEF Class!BaseAgain
    <2>4. Class!Resolved(s, r)  BY <1>5, <2>3 DEF Class!ResolveOwn
    <2>5. r = Class!Resolve(ctx[s].kind, ctx[s].code, clock)  BY <1>3, <2>1, <2>2 DEF Class!Resolve
    <2>6. ctx[s].active => Class!IsActive(ctx[s].kind, ctx[s].code)  BY <1>3, <1>5 DEF Class!IsActive
    <2> QED BY <1>1, <1>2, <1>3, <2>4, <2>5, <2>6, ResolvedKeeps
  <1> QED BY <1>4, <1>5
------------------------
\* Who ends excludes nobody.
LEMMA EndExcludes ==
    ASSUME ClassInv, NEW s \in Sessions, Class!End(s)
    PROVE
        /\ \A o \in Sessions : ctx'[o] = IF o = s THEN Class!Idle ELSE ctx[o]
        /\ ClassLocks' /\ ctx' \in [Sessions -> ClassTxs]
  <1>1. \A o \in Sessions : ctx'[o] = IF o = s THEN Class!Idle ELSE ctx[o]
    BY DEF ClassInv, ClassTypes, Class!End
  <1>2. \A u : ~ Clash(Class!Idle, u) /\ ~ Clash(u, Class!Idle)
    BY DEF Clash, HoldsCore, HoldsOverlay, Class!Idle
  <1>3. ClassLocks'
    <2> SUFFICES ASSUME NEW a \in Sessions, NEW b \in Sessions, a # b PROVE ~ Clash(ctx'[a], ctx'[b])
      BY DEF ClassLocks, Clash, HoldsCore, HoldsOverlay
    <2>1. ~ Clash(ctx[a], ctx[b])  BY DEF ClassInv, ClassLocks
    <2> QED BY <1>1, <1>2, <2>1
  <1>4. ctx' \in [Sessions -> ClassTxs]  BY DEF ClassInv, ClassTypes, ClassTxs, Class!End
  <1> QED BY <1>1, <1>3, <1>4

\* What holds of the transactions of the others as the tables change.
LEMMA OthersStay ==
    ASSUME ClassInv, NEW s \in Sessions, Class!End(s), clock' = clock,
           ASSUME NEW t \in ClassTxs, ClassTx(t), ~ Clash(ctx[s], t), ~ Clash(t, ctx[s]) PROVE ClassTx(t)'
    PROVE  \A o \in Sessions : ClassTx(ctx[o])'
  <1> SUFFICES ASSUME NEW o \in Sessions PROVE ClassTx(ctx[o])'  OBVIOUS
  <1>1. CASE o = s
    <2>1. ctx'[o] = Class!Idle /\ Class!Idle.pc = "idle"  BY <1>1, EndExcludes, ClassKinds
    <2> QED BY <2>1 DEF ClassTx
  <1>2. CASE o # s
    <2>1. PICK t \in ClassTxs : t = ctx'[o] /\ t = ctx[o]  BY <1>2, EndExcludes DEF ClassInv, ClassTypes
    <2>2. ClassTx(t) /\ ~ Clash(ctx[s], t) /\ ~ Clash(t, ctx[s])  BY <1>2, <2>1 DEF ClassInv, ClassLocks
    <2>3. ClassTx(t)'  BY <2>2
    <2> QED BY <2>1, <2>3 DEF ClassTx, StillResolved, Class!Resolve, Class!IsActive
  <1> QED BY <1>1, <1>2

\* The kinds and codes of a transaction.
LEMMA ClassCodes ==
    ASSUME NEW t \in ClassTxs
    PROVE
        /\ t.pc \in {"core", "overlay", "base", "row", "write", "put", "revise", "schedule"} =>
             t.kind \in {"core", "tenant"} /\ t.code \in Class!Codes
        /\ t.pc = "write" => t.at \in Nat
  BY ClassAssumption DEF ClassTxs, AssignTx, OverlayTx, ChangeTx, ClaimTx, Class!Idle

LEMMA ReferenceKeeps ==
    ASSUME ClassInv, NEW s \in Sessions, Class!TagSensitiveField(s) \/ Class!CreateRetentionPolicy(s)
    PROVE  ClassInv'
  <1>1.
      /\ ctx[s].pc = "write" /\ UNCHANGED <<clock, core, owned, overlays>> /\ Class!End(s)
      /\ tags' = [tags EXCEPT ![ctx[s].field] = Class!Reference(ctx[s])] \/ tags' = tags
    BY DEF Class!TagSensitiveField, Class!CreateRetentionPolicy
  <1>2. ctx[s] \in AssignTx /\ StillResolved(ctx[s])  BY <1>1, ClassKinds DEF ClassTx
  <1>3. Class!Reference(ctx[s]) \in ReferenceRecord
    <2>1. ctx[s].result \in Outcome /\ ctx[s].result # Class!Denied  BY <1>2 DEF AssignTx, StillResolved
    <2>2. ctx[s].result.version \in Nat \ {0} /\ ctx[s].result.controls.mask \in BOOLEAN
      BY <2>1 DEF Outcome, Class!Controls
    <2>3. ctx[s].mask \in BOOLEAN  BY <1>2 DEF AssignTx
    <2>4. (ctx[s].mask \/ ctx[s].result.controls.mask) \in BOOLEAN  OBVIOUS
    <2>5. ctx[s].kind \in {"core", "tenant"} /\ ctx[s].code \in Class!Codes /\ ctx[s].at \in 0..MaxClassTime
      BY <1>2 DEF AssignTx
    <2> QED BY <2>2, <2>4, <2>5 DEF Class!Reference, ReferenceRecord
  <1>4. ClassTypes'  BY <1>1, <1>3, EndExcludes DEF ClassInv, ClassTypes
  <1>5. ClassHistories'  BY <1>1 DEF ClassInv, ClassHistories
  <1>6. ASSUME NEW t \in ClassTxs, ClassTx(t) PROVE ClassTx(t)'
    <2>1. t.pc = "write" => StillResolved(t)'  BY <1>1, <1>6, ClassCodes, StaysResolved DEF ClassTx
    <2> QED BY <1>1, <1>6, <2>1 DEF ClassTx
  <1>7. \A o \in Sessions : ClassTx(ctx[o])'  BY <1>1, <1>6, OthersStay
  <1> QED BY <1>1, <1>4, <1>5, <1>7, EndExcludes DEF ClassInv

LEMMA OverlayStepsKeep ==
    ASSUME ClassInv, NEW s \in Sessions, Class!BeginOverlay(s) \/ Class!OverlayCore(s) \/ Class!OverlayLock(s)
    PROVE  ClassInv'
  <1>0. UNCHANGED <<clock, core, owned, overlays, tags>>
    BY DEF Class!BeginOverlay, Class!OverlayCore, Class!OverlayLock
  <1>1. PICK pc \in {"lock", "admit", "resolve"} :
          /\ ctx' = [ctx EXCEPT ![s] = [pc |-> pc, kind |-> "core", code |-> "c"]]
          /\ pc = "admit" => ctx[s].pc = "lock" /\ Class!CoreFree(s)
          /\ pc = "resolve" => ctx[s].pc = "admit" /\ Class!OverlayExclusive(s)
    <2>1. CASE Class!BeginOverlay(s)  BY <2>1 DEF Class!BeginOverlay
    <2>2. CASE Class!OverlayCore(s)
      <3>1. ctx[s].pc = "lock" /\ Class!CoreFree(s) /\ ctx' = [ctx EXCEPT ![s].pc = "admit"]
        BY <2>2 DEF Class!OverlayCore, Class!Go
      <3>2. ctx[s] \in OverlayTx  BY <3>1, ClassKinds
      <3>3. [ctx[s] EXCEPT !.pc = "admit"] = [pc |-> "admit", kind |-> "core", code |-> "c"]
        BY <3>2 DEF OverlayTx
      <3> QED BY <3>1, <3>3 DEF ClassInv, ClassTypes
    <2>3. CASE Class!OverlayLock(s)
      <3>1. ctx[s].pc = "admit" /\ Class!OverlayExclusive(s) /\ ctx' = [ctx EXCEPT ![s].pc = "resolve"]
        BY <2>3 DEF Class!OverlayLock, Class!Go
      <3>2. ctx[s] \in OverlayTx  BY <3>1, ClassKinds
      <3>3. [ctx[s] EXCEPT !.pc = "resolve"] = [pc |-> "resolve", kind |-> "core", code |-> "c"]
        BY <3>2 DEF OverlayTx
      <3> QED BY <3>1, <3>3 DEF ClassInv, ClassTypes
    <2> QED BY <2>1, <2>2, <2>3
  <1> DEFINE y == [pc |-> pc, kind |-> "core", code |-> "c"]
  <1>2. y \in OverlayTx /\ y.pc = pc /\ y.kind = "core" /\ y.code = "c"  BY DEF OverlayTx
  <1>3. ctx' = [ctx EXCEPT ![s] = y]  BY <1>1
  <1> HIDE DEF y
  <1>4. ClassTx(y)  BY <1>2 DEF ClassTx
  <1>5. ASSUME NEW o \in Sessions \ {s} PROVE ~ Clash(y, ctx[o]) /\ ~ Clash(ctx[o], y)
    <2>1. ~ Clash(ctx[s], ctx[o]) /\ ~ Clash(ctx[o], ctx[s])  BY DEF ClassInv, ClassLocks
    <2>2. ctx[s].pc = "admit" => HoldsCore(ctx[s])
      <3>1. ctx[s].pc = "admit" => ctx[s].kind = "core"  BY ClassKinds DEF OverlayTx
      <3> QED BY <3>1 DEF HoldsCore
    <2>3. pc \in {"admit", "resolve"} => ctx[o].pc # "schedule"  BY <1>1, <2>1, <2>2, OthersExclude DEF Clash
    <2>4. pc = "resolve" => ~ HoldsOverlay(ctx[o])  BY <1>1, OthersExclude
    <2>5. pc = "resolve" => ctx[o].pc \notin {"resolve", "put"}
      <3>1. ctx[o].pc \in {"resolve", "put"} => ctx[o].kind = "core"  BY ClassKinds DEF OverlayTx, ClassTx
      <3> QED BY <2>4, <3>1 DEF HoldsOverlay
    <2> QED BY <1>2, <2>3, <2>4, <2>5 DEF Clash, HoldsCore, HoldsOverlay
  <1> QED BY <1>0, <1>2, <1>3, <1>4, <1>5, ClassTurn DEF ClassTxs

LEMMA OverlayResolveKeeps ==
    ASSUME ClassInv, NEW s \in Sessions, Class!OverlayResolve(s)
    PROVE  ClassInv'
  <1>0. UNCHANGED <<clock, core, owned, overlays, tags>> /\ ctx[s].pc = "resolve"  BY DEF Class!OverlayResolve
  <1>1. CASE Class!End(s)  BY <1>0, <1>1, ClassEnds
  <1>2. CASE ~ Class!End(s)
    <2>1. PICK addition \in Class!Controls :
            ctx' = [ctx EXCEPT ![s] = [pc |-> "put", kind |-> "core", code |-> "c",
                                     now |-> clock, controls |-> addition]]
      BY <1>2 DEF Class!OverlayResolve
    <2> DEFINE y == [pc |-> "put", kind |-> "core", code |-> "c", now |-> clock, controls |-> addition]
    <2>2. clock \in 1..MaxClassTime /\ clock <= clock  BY ClassAssumption DEF ClassInv, ClassTypes
    <2>3. y \in ChangeTx /\ y.pc = "put" /\ y.kind = "core" /\ y.code = "c" /\ y.now = clock
      BY <2>2 DEF ChangeTx, Class!Codes
    <2>4. ctx' = [ctx EXCEPT ![s] = y]  BY <2>1
    <2> HIDE DEF y
    <2>5. ClassTx(y)  BY <2>2, <2>3 DEF ClassTx
    <2>6. ASSUME NEW o \in Sessions \ {s} PROVE ~ Clash(y, ctx[o]) /\ ~ Clash(ctx[o], y)
      <3>1. ~ Clash(ctx[s], ctx[o]) /\ ~ Clash(ctx[o], ctx[s]) /\ ctx[s].kind = "core"
        BY <1>0, ClassKinds DEF ClassInv, ClassLocks, OverlayTx
      <3> QED BY <1>0, <2>3, <3>1 DEF Clash, HoldsCore, HoldsOverlay
    <2> QED BY <1>0, <2>3, <2>4, <2>5, <2>6, ClassTurn DEF ClassTxs
  <1> QED BY <1>1, <1>2

LEMMA PutOverlayKeeps ==
    ASSUME ClassInv, NEW s \in Sessions, Class!PutOverlay(s)
    PROVE  ClassInv'
  <1>1. ctx[s].pc = "put" /\ Class!End(s) /\ UNCHANGED <<clock, core, owned, tags>>  BY DEF Class!PutOverlay
  <1>2. ctx[s] \in ChangeTx /\ ClassTx(ctx[s])  BY <1>1, ClassKinds
  <1>3. PICK from \in 1..MaxClassTime, c \in Class!Controls :
          from = ctx[s].now /\ c = ctx[s].controls /\ from <= clock
    BY <1>1, <1>2 DEF ChangeTx, ClassTx
  <1>4. overlays' = overlays \/ (Class!Closable(overlays, from) /\ overlays' = Class!Succeed(overlays, from, c))
    BY <1>3 DEF Class!PutOverlay
  <1>5. History(overlays) /\ (\A v \in overlays : v.from <= clock) /\ clock \in Nat
    BY ClassAssumption DEF ClassInv, ClassTypes, ClassHistories
  <1>6. History(overlays') /\ \A v \in overlays' : v.from <= clock
    <2>1. CASE overlays' = overlays  BY <1>5, <2>1
    <2>2. CASE Class!Closable(overlays, from) /\ overlays' = Class!Succeed(overlays, from, c)
      BY <1>3, <1>5, <2>2, HistorySucceeds
    <2> QED BY <1>4, <2>1, <2>2
  <1>7. ClassTypes'  BY <1>1, <1>6, EndExcludes DEF ClassInv, ClassTypes, History
  <1>8. ClassHistories'  BY <1>1, <1>6 DEF ClassInv, ClassHistories
  <1>9. ASSUME NEW t \in ClassTxs, ClassTx(t), ~ Clash(ctx[s], t) PROVE ClassTx(t)'
    <2>1. ~ HoldsOverlay(t)  BY <1>1, <1>9 DEF Clash
    <2>2. t.pc = "write" => StillResolved(t)'
      BY <1>1, <1>9, <2>1, ClassCodes, StaysResolved DEF ClassTx, HoldsOverlay
    <2> QED BY <1>1, <1>9, <2>2 DEF ClassTx
  <1>10. \A o \in Sessions : ClassTx(ctx[o])'  BY <1>1, <1>9, OthersStay
  <1> QED BY <1>1, <1>7, <1>8, <1>10, EndExcludes DEF ClassInv
------------------------
LEMMA BeginReviseKeeps ==
    ASSUME ClassInv, NEW s \in Sessions, Class!BeginRevise(s)
    PROVE  ClassInv'
  <1>0. UNCHANGED <<clock, core, owned, overlays, tags>>  BY DEF Class!BeginRevise
  <1>1. PICK code \in Class!Codes, c \in Class!Controls :
          /\ owned[code].active /\ Class!RowExclusive(s, code)
          /\ ctx' = [ctx EXCEPT ![s] = [pc |-> "revise", kind |-> "tenant", code |-> code,
                                      controls |-> c, now |-> clock]]
    BY DEF Class!BeginRevise
  <1> DEFINE y == [pc |-> "revise", kind |-> "tenant", code |-> code, controls |-> c, now |-> clock]
  <1>2. clock \in 1..MaxClassTime /\ clock <= clock  BY ClassAssumption DEF ClassInv, ClassTypes
  <1>3. y \in ChangeTx /\ y.pc = "revise" /\ y.kind = "tenant" /\ y.code = code /\ y.now = clock
    BY <1>2 DEF ChangeTx
  <1>4. ctx' = [ctx EXCEPT ![s] = y]  BY <1>1
  <1> HIDE DEF y
  <1>5. ClassTx(y)  BY <1>1, <1>2, <1>3 DEF ClassTx, Class!None
  <1>6. ASSUME NEW o \in Sessions \ {s} PROVE ~ Clash(y, ctx[o]) /\ ~ Clash(ctx[o], y)
    <2>1. ~ (ctx[o].pc \in {"write", "revise"} /\ ctx[o].kind = "tenant" /\ ctx[o].code = code)
      BY <1>1, OthersExclude
    <2>2. ctx[o].pc = "revise" => ctx[o].kind = "tenant"  BY ClassKinds DEF ClassTx
    <2> QED BY <1>3, <2>1, <2>2 DEF Clash, HoldsCore, HoldsOverlay
  <1> QED BY <1>0, <1>3, <1>4, <1>5, <1>6, ClassTurn DEF ClassTxs

\* The tenant's definition of one code changes, while nobody else refers to its row.
LEMMA TenantChanges ==
    ASSUME ClassInv, NEW code \in Class!Codes, NEW d \in DefinitionRecord,
           owned' = [owned EXCEPT ![code] = d], UNCHANGED <<clock, overlays>>,
           core' \in [Class!Codes -> {Class!None} \cup DefinitionRecord],
           core'["c"] = core["c"], core'[code] = Class!None,
           \A c \in Class!Codes : core'[c] # Class!None => core'[c] = core[c],
           History(d.versions), \A v \in d.versions : v.from <= clock
    PROVE
        /\ ClassHistories' /\ owned' \in [Class!Codes -> {Class!None} \cup DefinitionRecord]
        /\ \A c \in Class!Codes : owned'[c] = IF c = code THEN d ELSE owned[c]
  <1>1. \A c \in Class!Codes : owned'[c] = IF c = code THEN d ELSE owned[c]  BY DEF ClassInv, ClassTypes
  <1>2. owned' \in [Class!Codes -> {Class!None} \cup DefinitionRecord]  BY DEF ClassInv, ClassTypes
  <1>3. ASSUME NEW c \in Class!Codes
        PROVE
            /\ core'[c] # Class!None => History(core'[c].versions)
            /\ owned'[c] # Class!None =>
                                    /\ History(owned'[c].versions)
                                    /\ \A v \in owned'[c].versions : v.from <= clock'
            /\ core'[c] = Class!None \/ owned'[c] = Class!None
    BY <1>1 DEF ClassInv, ClassHistories
  <1>4. core'["c"] # Class!None /\ core'["c"].active  BY DEF ClassInv, ClassHistories
  <1>5. (History(overlays) /\ \A v \in overlays : v.from <= clock)'  BY DEF ClassInv, ClassHistories
  <1> QED BY <1>1, <1>2, <1>3, <1>4, <1>5 DEF ClassHistories

LEMMA ReviseKeeps ==
    ASSUME ClassInv, NEW s \in Sessions, Class!Revise(s)
    PROVE  ClassInv'
  <1>1. ctx[s].pc = "revise" /\ Class!End(s) /\ UNCHANGED <<clock, core, overlays, tags>>  BY DEF Class!Revise
  <1>2. ctx[s] \in ChangeTx /\ ClassTx(ctx[s])  BY <1>1, ClassKinds
  <1>3. PICK from \in 1..MaxClassTime, c \in Class!Controls, code \in Class!Codes :
          from = ctx[s].now /\ c = ctx[s].controls /\ code = ctx[s].code /\ from <= clock
    BY <1>1, <1>2 DEF ChangeTx, ClassTx
  <1>4.
      /\ owned[code] # Class!None /\ owned[code] \in DefinitionRecord /\ core[code] = Class!None
      /\ History(owned[code].versions) /\ \A v \in owned[code].versions : v.from <= clock
    BY <1>1, <1>2, <1>3 DEF ClassTx, ClassInv, ClassTypes, ClassHistories
  <1> DEFINE d == IF Class!Closable(owned[code].versions, from)
                  THEN [owned[code] EXCEPT !.versions = Class!Succeed(@, from, c)] ELSE owned[code]
  <1>5. owned' = [owned EXCEPT ![code] = d]
    <2>1. CASE Class!Closable(owned[code].versions, from)  BY <1>3, <2>1 DEF Class!Revise
    <2>2. CASE ~ Class!Closable(owned[code].versions, from)
      <3>1. owned' = owned  BY <1>3, <2>2 DEF Class!Revise
      <3> QED BY <2>2, <3>1 DEF ClassInv, ClassTypes
    <2> QED BY <2>1, <2>2
  <1>6. d \in DefinitionRecord /\ History(d.versions) /\ \A v \in d.versions : v.from <= clock
    <2>1. CASE Class!Closable(owned[code].versions, from)
      <3> DEFINE H == Class!Succeed(owned[code].versions, from, c)
      <3>1. clock \in Nat  BY ClassAssumption DEF ClassInv, ClassTypes
      <3>2. History(H) /\ \A v \in H : v.from <= clock  BY <1>3, <1>4, <2>1, <3>1, HistorySucceeds
      <3>3. H \in SUBSET VersionRecord  BY <3>2 DEF History
      <3> HIDE DEF H
      <3>4. [owned[code] EXCEPT !.versions = H] \in DefinitionRecord
            /\ [owned[code] EXCEPT !.versions = H].versions = H
        BY <1>4, <3>3 DEF DefinitionRecord
      <3> QED BY <2>1, <3>2, <3>4 DEF H
    <2>2. CASE ~ Class!Closable(owned[code].versions, from)  BY <1>4, <2>2
    <2> QED BY <2>1, <2>2
  <1> HIDE DEF d
  <1>7. core \in [Class!Codes -> {Class!None} \cup DefinitionRecord]  BY DEF ClassInv, ClassTypes
  <1>8.
      /\ ClassHistories' /\ owned' \in [Class!Codes -> {Class!None} \cup DefinitionRecord]
      /\ \A k \in Class!Codes : owned'[k] = IF k = code THEN d ELSE owned[k]
    BY <1>1, <1>4, <1>5, <1>6, <1>7, TenantChanges
  <1>9. ClassTypes'  BY <1>1, <1>8, EndExcludes DEF ClassInv, ClassTypes
  <1>10. d # Class!None  BY <1>6, DefinitionsExist
  <1>11. ASSUME NEW t \in ClassTxs, ClassTx(t), ~ Clash(ctx[s], t) PROVE ClassTx(t)'
    <2>1. t.pc = "write" => ~ (t.kind = "tenant" /\ t.code = code)  BY <1>1, <1>3, <1>11 DEF Clash
    <2>2. t.pc = "write" => StillResolved(t)'  BY <1>1, <1>8, <1>11, <2>1, ClassCodes, StaysResolved DEF ClassTx
    <2>3. \A k \in Class!Codes : owned[k] # Class!None => owned'[k] # Class!None  BY <1>8, <1>10
    <2>4. \A k \in Class!Codes : owned[k] = Class!None => owned'[k] = Class!None  BY <1>4, <1>8
    <2> QED BY <1>1, <1>11, <2>2, <2>3, <2>4, ClassCodes DEF ClassTx, Class!Codes
  <1>12. \A o \in Sessions : ClassTx(ctx[o])'  BY <1>1, <1>11, OthersStay
  <1> QED BY <1>1, <1>8, <1>9, <1>12, EndExcludes DEF ClassInv

LEMMA DeactivateKeeps ==
    ASSUME ClassInv, NEW s \in Sessions, Class!Deactivate(s)
    PROVE  ClassInv'
  <1>1. ctx[s].pc = "idle" /\ UNCHANGED <<clock, core, overlays, tags, ctx>>  BY DEF Class!Deactivate
  <1>2. PICK code \in Class!Codes :
                              /\ owned[code].active /\ Class!RowExclusive(s, code)
                              /\ owned' = [owned EXCEPT ![code].active = FALSE]
    BY DEF Class!Deactivate
  <1>3. owned[code] # Class!None  BY <1>2 DEF Class!None
  <1>4.
      /\ owned[code] \in DefinitionRecord /\ core[code] = Class!None
      /\ History(owned[code].versions) /\ \A v \in owned[code].versions : v.from <= clock
    BY <1>3 DEF ClassInv, ClassTypes, ClassHistories
  <1> DEFINE d == [owned[code] EXCEPT !.active = FALSE]
  <1>5. d \in DefinitionRecord /\ d.versions = owned[code].versions  BY <1>4 DEF DefinitionRecord
  <1>6. owned' = [owned EXCEPT ![code] = d]  BY <1>2
  <1> HIDE DEF d
  <1>7. core \in [Class!Codes -> {Class!None} \cup DefinitionRecord]  BY DEF ClassInv, ClassTypes
  <1>8.
      /\ ClassHistories' /\ owned' \in [Class!Codes -> {Class!None} \cup DefinitionRecord]
      /\ \A k \in Class!Codes : owned'[k] = IF k = code THEN d ELSE owned[k]
    BY <1>1, <1>4, <1>5, <1>6, <1>7, TenantChanges
  <1>9. ClassTypes'  BY <1>1, <1>8 DEF ClassInv, ClassTypes
  <1>10. d # Class!None  BY <1>5, DefinitionsExist
  <1>11. ASSUME NEW o \in Sessions PROVE ClassTx(ctx[o])'
    <2>1. PICK t \in ClassTxs : t = ctx'[o] /\ t = ctx[o] /\ ClassTx(t)  BY <1>1 DEF ClassInv, ClassTypes
    <2>2. t.pc = "write" => ~ (t.kind = "tenant" /\ t.code = code)
      <3>1. CASE o = s  BY <1>1, <2>1, <3>1
      <3>2. CASE o # s  BY <1>2, <2>1, <3>2, OthersExclude
      <3> QED BY <3>1, <3>2
    <2>3. t.pc = "write" => StillResolved(t)'  BY <1>1, <1>8, <2>1, <2>2, ClassCodes, StaysResolved DEF ClassTx
    <2>4. \A k \in Class!Codes : owned[k] # Class!None => owned'[k] # Class!None  BY <1>8, <1>10
    <2>5. \A k \in Class!Codes : owned[k] = Class!None => owned'[k] = Class!None  BY <1>3, <1>8
    <2>6. ClassTx(t)'  BY <1>1, <2>1, <2>3, <2>4, <2>5, ClassCodes DEF ClassTx, Class!Codes
    <2> QED BY <2>1, <2>6 DEF ClassTx, StillResolved, Class!Resolve, Class!IsActive
  <1> QED BY <1>1, <1>8, <1>9, <1>11 DEF ClassInv, ClassLocks, Clash, HoldsCore, HoldsOverlay

LEMMA BeginClaimKeeps ==
    ASSUME ClassInv, NEW s \in Sessions, Class!BeginClaim(s) \/ Class!IdentityGuard(s)
    PROVE  ClassInv'
  <1>0. UNCHANGED <<clock, core, owned, overlays, tags>>  BY DEF Class!BeginClaim, Class!IdentityGuard
  <1>1. CASE Class!IdentityGuard(s) /\ Class!End(s)  BY <1>0, <1>1, ClassEnds
  <1>2. CASE Class!BeginClaim(s) \/ (Class!IdentityGuard(s) /\ ~ Class!End(s))
    <2>1. PICK pc \in {"claim", "claimed"}, kind \in {"core", "tenant"} :
            /\ ctx' = [ctx EXCEPT ![s] = [pc |-> pc, kind |-> kind, code |-> "x"]]
            /\ pc = "claimed" =>
                                 /\ Class!IdentityFree(s) /\ ctx[s].pc = "claim"
                                 /\ core["x"] = Class!None /\ owned["x"] = Class!None
      <3>1. CASE Class!BeginClaim(s)  BY <3>1 DEF Class!BeginClaim
      <3>2. CASE Class!IdentityGuard(s) /\ ~ Class!End(s)
        <4>1.
            /\ ctx[s].pc = "claim" /\ Class!IdentityFree(s) /\ ctx' = [ctx EXCEPT ![s].pc = "claimed"]
            /\ ~ Class!Shadowed(ctx[s].kind) /\ ~ Class!Duplicate(ctx[s].kind)
          BY <3>2 DEF Class!IdentityGuard, Class!Go
        <4>2. ctx[s] \in ClaimTx  BY <4>1, ClassKinds
        <4>3. PICK kind \in {"core", "tenant"} : kind = ctx[s].kind  BY <4>2 DEF ClaimTx
        <4>4. [ctx[s] EXCEPT !.pc = "claimed"] = [pc |-> "claimed", kind |-> kind, code |-> "x"]
          BY <4>2, <4>3 DEF ClaimTx
        <4>5. core["x"] = Class!None /\ owned["x"] = Class!None  BY <4>1 DEF Class!Shadowed, Class!Duplicate
        <4> QED BY <4>1, <4>4, <4>5 DEF ClassInv, ClassTypes
      <3> QED BY <1>2, <3>1, <3>2
    <2> DEFINE y == [pc |-> pc, kind |-> kind, code |-> "x"]
    <2>2. y \in ClaimTx /\ y.pc = pc  BY DEF ClaimTx
    <2>3. ctx' = [ctx EXCEPT ![s] = y]  BY <2>1
    <2> HIDE DEF y
    <2>4. ClassTx(y)  BY <2>1, <2>2 DEF ClassTx
    <2>5. \A o \in Sessions \ {s} : ~ Clash(y, ctx[o]) /\ ~ Clash(ctx[o], y)
      BY <2>1, <2>2, OthersExclude DEF Clash, HoldsCore, HoldsOverlay
    <2> QED BY <1>0, <2>2, <2>3, <2>4, <2>5, ClassTurn DEF ClassTxs
  <1> QED BY <1>1, <1>2

LEMMA ClaimKeeps ==
    ASSUME ClassInv, NEW s \in Sessions, Class!Claim(s)
    PROVE  ClassInv'
  <1>1. ctx[s].pc = "claimed" /\ Class!End(s) /\ UNCHANGED <<clock, overlays, tags>>  BY DEF Class!Claim
  <1>2. core["x"] = Class!None /\ owned["x"] = Class!None /\ clock \in 1..MaxClassTime /\ clock \in Nat
    BY <1>1, ClassKinds, ClassAssumption DEF ClassTx, ClassInv, ClassTypes
  <1> DEFINE d == Class!Definition(Class!Least, clock)
  <1>3.
      /\ d \in DefinitionRecord /\ d # Class!None /\ History(d.versions)
      /\ \A v \in d.versions : v.from <= clock
    <2>1. d \in DefinitionRecord /\ History(d.versions) /\ \A v \in d.versions : v.from = clock
      BY <1>2, HistoryBegins
    <2> HIDE DEF d
    <2> QED BY <1>2, <2>1, DefinitionsExist
  <1> HIDE DEF d
  <1>4.
      /\ core \in [Class!Codes -> {Class!None} \cup DefinitionRecord]
      /\ owned \in [Class!Codes -> {Class!None} \cup DefinitionRecord]
      /\ "x" \in Class!Codes /\ "c" \in Class!Codes /\ "x" # "c"
    BY DEF ClassInv, ClassTypes, Class!Codes
  <1>5.
      \/ core' = [core EXCEPT !["x"] = d] /\ owned' = owned
      \/ owned' = [owned EXCEPT !["x"] = d] /\ core' = core
    BY DEF Class!Claim, d
  <1>6.
      /\ \A k \in Class!Codes \ {"x"} : owned'[k] = owned[k] /\ core'[k] = core[k]
      /\ owned' \in [Class!Codes -> {Class!None} \cup DefinitionRecord]
      /\ core' \in [Class!Codes -> {Class!None} \cup DefinitionRecord]
      /\
         \/ core'["x"] = d /\ owned'["x"] = Class!None
         \/ owned'["x"] = d /\ core'["x"] = Class!None
    BY <1>2, <1>3, <1>4, <1>5
  <1>7. ClassTypes'  BY <1>1, <1>6, EndExcludes DEF ClassInv, ClassTypes
  <1>8. ClassHistories'
    <2>1. ASSUME NEW c \in Class!Codes
          PROVE
              /\ core'[c] # Class!None => History(core'[c].versions)
              /\ owned'[c] # Class!None =>
                                      /\ History(owned'[c].versions)
                                      /\ \A v \in owned'[c].versions : v.from <= clock'
              /\ core'[c] = Class!None \/ owned'[c] = Class!None
      <3>1. CASE c = "x"  BY <1>1, <1>3, <1>6, <3>1
      <3>2. CASE c # "x"  BY <1>1, <1>6, <3>2 DEF ClassInv, ClassHistories
      <3> QED BY <3>1, <3>2
    <2>2. core'["c"] = core["c"]  BY <1>4, <1>6
    <2> QED BY <1>1, <2>1, <2>2 DEF ClassInv, ClassHistories
  <1>9. ASSUME NEW t \in ClassTxs, ClassTx(t), ~ Clash(ctx[s], t) PROVE ClassTx(t)'
    <2>1. core'["c"] = core["c"]  BY <1>4, <1>6
    <2>2. t.pc \in {"core", "overlay", "base", "row", "write", "revise"} /\ t.kind = "tenant" =>
            owned[t.code] # Class!None /\ owned'[t.code] = owned[t.code]
      BY <1>2, <1>6, <1>9, ClassCodes DEF ClassTx
    <2>3. t.pc = "write" => StillResolved(t)'  BY <1>1, <1>9, <2>1, <2>2, ClassCodes, StaysResolved DEF ClassTx
    <2>4. t.pc # "claimed"  BY <1>1, <1>9 DEF Clash
    <2> QED BY <1>1, <1>9, <2>1, <2>2, <2>3, <2>4, ClassCodes DEF ClassTx
  <1>10. \A o \in Sessions : ClassTx(ctx[o])'  BY <1>1, <1>9, OthersStay
  <1> QED BY <1>1, <1>7, <1>8, <1>10, EndExcludes DEF ClassInv
LEMMA BeginScheduleKeeps ==
    ASSUME ClassInv, NEW s \in Sessions, Class!BeginSchedule(s)
    PROVE  ClassInv'
  <1>0. UNCHANGED <<clock, core, owned, overlays, tags>> /\ Class!CoreExclusive(s)  BY DEF Class!BeginSchedule
  <1>1. PICK c \in Class!Controls, from \in clock..MaxClassTime :
          /\ Class!Closable(core["c"].versions, from)
          /\ ctx' = [ctx EXCEPT ![s] = [pc |-> "schedule", kind |-> "core", code |-> "c",
                                      controls |-> c, now |-> from]]
    BY DEF Class!BeginSchedule
  <1> DEFINE y == [pc |-> "schedule", kind |-> "core", code |-> "c", controls |-> c, now |-> from]
  <1>2. clock \in 1..MaxClassTime  BY DEF ClassInv, ClassTypes
  <1>3. from \in 1..MaxClassTime  BY <1>2, ClassAssumption
  <1>4. y \in ChangeTx /\ y.pc = "schedule" /\ y.kind = "core" /\ y.now = from
    BY <1>3 DEF ChangeTx, Class!Codes
  <1>5. ctx' = [ctx EXCEPT ![s] = y]  BY <1>1
  <1> HIDE DEF y
  <1>6. ClassTx(y)  BY <1>1, <1>4 DEF ClassTx
  <1>7. \A o \in Sessions \ {s} : ~ Clash(y, ctx[o]) /\ ~ Clash(ctx[o], y)
    BY <1>0, <1>4, OthersExclude DEF Clash, HoldsCore, HoldsOverlay
  <1> QED BY <1>0, <1>4, <1>5, <1>6, <1>7, ClassTurn DEF ClassTxs

LEMMA ScheduleKeeps ==
    ASSUME ClassInv, NEW s \in Sessions, Class!Schedule(s)
    PROVE  ClassInv'
  <1>1. ctx[s].pc = "schedule" /\ Class!End(s) /\ UNCHANGED <<clock, owned, overlays, tags>>
    BY DEF Class!Schedule
  <1>2. ctx[s] \in ChangeTx /\ ClassTx(ctx[s])  BY <1>1, ClassKinds
  <1>3. PICK from \in 1..MaxClassTime, c \in Class!Controls :
          from = ctx[s].now /\ c = ctx[s].controls /\ Class!Closable(core["c"].versions, from)
    BY <1>1, <1>2 DEF ChangeTx, ClassTx
  <1>4.
      /\ core["c"] \in DefinitionRecord /\ core["c"].active /\ History(core["c"].versions)
      /\ owned["c"] = Class!None
    BY DEF ClassInv, ClassTypes, ClassHistories, Class!Codes
  <1> DEFINE H == Class!Succeed(core["c"].versions, from, c)
             d == [core["c"] EXCEPT !.versions = H]
  <1>5. History(H) /\ H \in SUBSET VersionRecord  BY <1>3, <1>4, HistorySucceeds DEF History
  <1>6. core' = [core EXCEPT !["c"] = d]  BY <1>3 DEF Class!Schedule
  <1> HIDE DEF H
  <1>7. d \in DefinitionRecord /\ d.versions = H /\ d.active = core["c"].active
    BY <1>4, <1>5 DEF DefinitionRecord
  <1> HIDE DEF d
  <1>8.
      /\ \A k \in Class!Codes : core'[k] = IF k = "c" THEN d ELSE core[k]
      /\ core' \in [Class!Codes -> {Class!None} \cup DefinitionRecord] /\ d # Class!None
    BY <1>6, <1>7, DefinitionsExist DEF ClassInv, ClassTypes, Class!Codes
  <1>9. ClassTypes'  BY <1>1, <1>8, EndExcludes DEF ClassInv, ClassTypes
  <1>10. ClassHistories'
    <2>1. ASSUME NEW k \in Class!Codes
          PROVE
              /\ core'[k] # Class!None => History(core'[k].versions)
              /\ owned'[k] # Class!None =>
                                      /\ History(owned'[k].versions)
                                      /\ \A v \in owned'[k].versions : v.from <= clock'
              /\ core'[k] = Class!None \/ owned'[k] = Class!None
      <3>1. CASE k = "c"  BY <1>1, <1>4, <1>5, <1>7, <1>8, <3>1
      <3>2. CASE k # "c"  BY <1>1, <1>8, <3>2 DEF ClassInv, ClassHistories
      <3> QED BY <3>1, <3>2
    <2>2. core'["c"] # Class!None /\ core'["c"].active  BY <1>4, <1>7, <1>8 DEF Class!Codes
    <2> QED BY <1>1, <2>1, <2>2 DEF ClassInv, ClassHistories
  <1>11. ASSUME NEW t \in ClassTxs, ClassTx(t), ~ Clash(ctx[s], t) PROVE ClassTx(t)'
    <2>1. ~ HoldsCore(t) /\ t.pc # "schedule"  BY <1>1, <1>11 DEF Clash
    <2>2. t.pc = "write" => StillResolved(t)'
      BY <1>1, <1>11, <2>1, ClassCodes, StaysResolved DEF ClassTx, HoldsCore
    <2>3. core'["x"] = core["x"]  BY <1>8 DEF Class!Codes
    <2> QED BY <1>1, <1>11, <2>1, <2>2, <2>3 DEF ClassTx
  <1>12. \A o \in Sessions : ClassTx(ctx[o])'  BY <1>1, <1>11, OthersStay
  <1> QED BY <1>1, <1>9, <1>10, <1>12, EndExcludes DEF ClassInv

LEMMA ClassTickKeeps == ClassInv /\ Class!Tick => ClassInv'
  <1> SUFFICES ASSUME ClassInv, Class!Tick PROVE ClassInv'  OBVIOUS
  <1>1. UNCHANGED <<core, owned, overlays, tags, ctx>> /\ clock < MaxClassTime /\ clock' = clock + 1
    BY DEF Class!Tick
  <1>2. clock \in 1..MaxClassTime /\ clock' \in 1..MaxClassTime /\ clock \in Nat /\ clock' \in Nat /\ clock < clock'
    BY <1>1, ClassAssumption DEF ClassInv, ClassTypes
  <1>3. ClassTypes'  BY <1>1, <1>2 DEF ClassInv, ClassTypes
  <1>4. \A H \in SUBSET VersionRecord :
          (\A v \in H : v.from <= clock) => \A v \in H : v.from <= clock'
    <2> SUFFICES ASSUME NEW v \in VersionRecord, v.from <= clock PROVE v.from <= clock'  OBVIOUS
    <2>1. v.from \in Nat  BY ClassAssumption DEF VersionRecord
    <2> QED BY <1>2, <2>1
  <1>5. ClassHistories'
    <2>1. (\A v \in overlays : v.from <= clock) => \A v \in overlays : v.from <= clock'
      BY <1>4 DEF ClassInv, ClassTypes
    <2>2. ASSUME NEW c \in Class!Codes, owned[c] # Class!None
          PROVE  (\A v \in owned[c].versions : v.from <= clock)
                   => \A v \in owned[c].versions : v.from <= clock'
      <3>1. owned[c].versions \in SUBSET VersionRecord  BY <2>2 DEF ClassInv, ClassHistories, History
      <3> QED BY <1>4, <3>1
    <2> QED BY <1>1, <2>1, <2>2 DEF ClassInv, ClassHistories
  <1>6. ClassLocks'  BY <1>1 DEF ClassInv, ClassLocks, Clash, HoldsCore, HoldsOverlay
  <1>7. ASSUME NEW o \in Sessions PROVE ClassTx(ctx[o])'
    <2>1. PICK t \in ClassTxs : t = ctx'[o] /\ t = ctx[o] /\ ClassTx(t)  BY <1>1 DEF ClassInv, ClassTypes
    <2>2. t.pc = "write" => StillResolved(t)'  BY <1>1, <2>1, ClassCodes, StaysResolved DEF ClassTx
    <2>3. t.pc \in {"put", "revise"} => t.now \in Nat
      BY <2>1, ClassAssumption DEF ClassTxs, AssignTx, OverlayTx, ChangeTx, ClaimTx, Class!Idle
    <2>4. t.pc \in {"put", "revise"} => t.now <= clock'  BY <1>2, <2>1, <2>3 DEF ClassTx
    <2>5. ClassTx(t)'  BY <1>1, <2>1, <2>2, <2>4 DEF ClassTx
    <2> QED BY <2>1, <2>5 DEF ClassTx, StillResolved, Class!Resolve, Class!IsActive
  <1> QED BY <1>3, <1>5, <1>6, <1>7 DEF ClassInv

LEMMA ClassStep == ClassInv /\ [Class!Next]_Class!vars => ClassInv'
  <1> SUFFICES ASSUME ClassInv, [Class!Next]_Class!vars PROVE ClassInv'  OBVIOUS
  <1>1. ASSUME NEW s \in Sessions,
               Class!BeginAssign(s) \/ Class!LockCore(s) \/ Class!LockOverlay(s) \/ Class!ResolveBase(s) \/ Class!ResolveOwn(s)
        PROVE  ClassInv'
    BY <1>1, BeginAssignKeeps, LockKeeps, ResolveBaseKeeps, ResolveOwnKeeps
  <1>2. ASSUME NEW s \in Sessions, Class!TagSensitiveField(s) \/ Class!CreateRetentionPolicy(s) PROVE ClassInv'
    BY <1>2, ReferenceKeeps
  <1>3. ASSUME NEW s \in Sessions,
               Class!BeginOverlay(s) \/ Class!OverlayCore(s) \/ Class!OverlayLock(s) \/ Class!OverlayResolve(s) \/ Class!PutOverlay(s)
        PROVE  ClassInv'
    BY <1>3, OverlayStepsKeep, OverlayResolveKeeps, PutOverlayKeeps
  <1>4. ASSUME NEW s \in Sessions, Class!BeginRevise(s) \/ Class!Revise(s) \/ Class!Deactivate(s) PROVE ClassInv'
    BY <1>4, BeginReviseKeeps, ReviseKeeps, DeactivateKeeps
  <1>5. ASSUME NEW s \in Sessions, Class!BeginClaim(s) \/ Class!IdentityGuard(s) \/ Class!Claim(s) PROVE ClassInv'
    BY <1>5, BeginClaimKeeps, ClaimKeeps
  <1>6. ASSUME NEW s \in Sessions, Class!BeginSchedule(s) \/ Class!Schedule(s) PROVE ClassInv'
    BY <1>6, BeginScheduleKeeps, ScheduleKeeps
  <1>7. ASSUME NEW s \in Sessions, Class!Rollback(s) PROVE ClassInv'  BY <1>7, ClassEnds DEF Class!Rollback
  <1>8. CASE Class!Tick  BY <1>8, ClassTickKeeps
  <1>9. CASE UNCHANGED Class!vars
    <2>1. UNCHANGED <<clock, core, owned, overlays, tags, ctx>>  BY <1>9 DEF Class!vars
    <2>2. ClassTypes' /\ ClassHistories' /\ ClassLocks'
      BY <2>1 DEF ClassInv, ClassTypes, ClassHistories, ClassLocks, Clash, HoldsCore, HoldsOverlay
    <2>3. ASSUME NEW o \in Sessions PROVE ClassTx(ctx[o])'
      <3>1. PICK t \in ClassTxs : t = ctx'[o] /\ t = ctx[o] /\ ClassTx(t)  BY <2>1 DEF ClassInv, ClassTypes
      <3>2. t.pc = "write" => StillResolved(t)'  BY <2>1, <3>1, ClassCodes, StaysResolved DEF ClassTx
      <3>3. ClassTx(t)'  BY <2>1, <3>1, <3>2 DEF ClassTx
      <3> QED BY <3>1, <3>3 DEF ClassTx, StillResolved, Class!Resolve, Class!IsActive
    <2> QED BY <2>2, <2>3 DEF ClassInv
  <1> QED BY <1>1, <1>2, <1>3, <1>4, <1>5, <1>6, <1>7, <1>8, <1>9 DEF Class!Next

LEMMA ClassificationFollows == ClassInv => Class!ClassificationSound
  <1> SUFFICES ASSUME ClassInv PROVE Class!ClassificationSound  OBVIOUS
  <1>1. Class!TypeOK
    <2>1. DOMAIN tags = Fields \cup Policies /\ \A f \in DOMAIN tags : tags[f] \in {Class!None} \cup ReferenceRecord
      BY DEF ClassInv, ClassTypes
    <2>2. \A r \in ReferenceRecord : r.code \in Class!Codes /\ r.version >= 1  BY DEF ReferenceRecord
    <2> QED BY <2>1, <2>2 DEF Class!TypeOK, ClassInv, ClassTypes
  <1>2. ASSUME NEW H, History(H) PROVE Class!Continuous(H)
    <2> SUFFICES ASSUME NEW v \in H, NEW at \in v.from..MaxClassTime
                 PROVE  Cardinality(Class!Effective(H, at)) = 1
      BY ClassCardinality DEF Class!Continuous
    <2>1. v.from \in 1..MaxClassTime  BY <1>2 DEF History, VersionRecord
    <2>2. at \in 1..MaxClassTime /\ v.from <= at  BY <2>1, ClassAssumption
    <2>3. PICK w \in H : Class!Effective(H, at) = {w}  BY <1>2, <2>2 DEF History, OneAtATime
    <2> QED BY <2>3, FS_Singleton
  <1>3. \A c \in Class!Codes : core[c] = Class!None \/ owned[c] = Class!None  BY DEF ClassInv, ClassHistories
  <1>4. \A c \in Class!Codes :
                         /\ core[c] # Class!None => Class!Continuous(core[c].versions)
                         /\ owned[c] # Class!None => Class!Continuous(owned[c].versions)
    BY <1>2 DEF ClassInv, ClassHistories
  <1>5. Class!Continuous(overlays)  BY <1>2 DEF ClassInv, ClassHistories
  <1> QED BY <1>1, <1>3, <1>4, <1>5 DEF Class!ClassificationSound

LEMMA ReferencesAssigned == ClassInv /\ [Class!Next]_Class!vars => Class!Assigned
  <1> SUFFICES ASSUME ClassInv, [Class!Next]_Class!vars, NEW f \in DOMAIN tags, tags'[f] # tags[f]
               PROVE
                   /\ Class!IsActive(tags'[f].kind, tags'[f].code)
                   /\ Class!Resolve(tags'[f].kind, tags'[f].code, tags'[f].at) # Class!Denied
                   /\ Class!Resolve(tags'[f].kind, tags'[f].code, tags'[f].at).version = tags'[f].version
                   /\ Class!Resolve(tags'[f].kind, tags'[f].code, tags'[f].at).controls.mask => tags'[f].mask
                   /\ \A v \in overlays : tags'[f].kind = "core" \/ Class!HasBase(tags'[f].code)
                        => v.from <= tags'[f].at
                   /\ tags'[f].kind = "tenant" =>
                        \A v \in owned[tags'[f].code].versions : v.from <= tags'[f].at
    BY DEF Class!Assigned
  <1>1. tags' # tags  OBVIOUS
  <1>2. PICK s \in Sessions : Class!TagSensitiveField(s) \/ Class!CreateRetentionPolicy(s)
    BY <1>1 DEF Class!Next, Class!vars, Class!BeginAssign, Class!LockCore, Class!LockOverlay, Class!ResolveBase, Class!ResolveOwn, Class!BeginOverlay,
       Class!OverlayCore, Class!OverlayLock, Class!OverlayResolve, Class!PutOverlay, Class!BeginRevise, Class!Revise, Class!Deactivate,
       Class!BeginClaim, Class!IdentityGuard, Class!Claim, Class!BeginSchedule, Class!Schedule, Class!Rollback, Class!Tick
  <1>3. ctx[s].pc = "write" /\ tags' = [tags EXCEPT ![ctx[s].field] = Class!Reference(ctx[s])]
    BY <1>1, <1>2 DEF Class!TagSensitiveField, Class!CreateRetentionPolicy
  <1>4. StillResolved(ctx[s])  BY <1>3, ClassKinds DEF ClassTx
  <1>5. tags'[f] = Class!Reference(ctx[s])  BY <1>3
  <1>6. PICK t : t = ctx[s]  OBVIOUS
  <1>7.
      /\ tags'[f].kind = t.kind /\ tags'[f].code = t.code /\ tags'[f].at = t.at
      /\ tags'[f].version = t.result.version
      /\ tags'[f].mask = (t.mask \/ t.result.controls.mask)
    BY <1>5, <1>6 DEF Class!Reference
  <1>8.
      /\ t.result # Class!Denied /\ t.result = Class!Resolve(t.kind, t.code, t.at) /\ Class!IsActive(t.kind, t.code)
      /\ t.kind = "core" \/ Class!HasBase(t.code) => \A v \in overlays : v.from <= t.at
      /\ t.kind = "tenant" => \A v \in owned[t.code].versions : v.from <= t.at
    BY <1>4, <1>6 DEF StillResolved
  <1>9. t.result.controls.mask => tags'[f].mask  BY <1>7
  <1> QED BY <1>7, <1>8, <1>9

------------------------
(* Custom entities. *)

\* The library's cardinality is the instance's
LEMMA EntityCardinality == \A S : Entities!Cardinality(S) = Cardinality(S)
  BY DEF Entities!Cardinality, Cardinality

EntityDefinition == [active : 0..MaxTypeRevisions, latest : 1..MaxTypeRevisions]
EntityRow == [lifecycle : {"current", "archived"}, type : Types, revision : 0..MaxTypeRevisions,
              version : 1..MaxEntityVersion, ref : {0} \cup Entities!Ids]
Stages == {"quota", "rows", "types", "record", "active", "references", "count", "write", "commit"}
CommandTx == [pc : Stages, kind : {"create", "update", "archive"}, id : {0} \cup Entities!Ids, type : Types,
              expected : 0..MaxEntityVersion, ref : {0} \cup Entities!Ids, rows : SUBSET Entities!Ids,
              types : SUBSET Types, quota : BOOLEAN, revision : 0..MaxTypeRevisions]
Listing == [pc : {"open", "done"}, type : Types, after : {0} \cup Entities!Ids, owed : SUBSET Entities!Ids, seen : SUBSET Entities!Ids]

EntityTypes ==
    /\ definition \in [Types -> EntityDefinition]
    /\ \A t \in Types : definition[t].active <= definition[t].latest
    /\ entity \in [Entities!Ids -> {Entities!None} \cup EntityRow]
    /\ etx \in [Sessions -> {Entities!Idle} \cup CommandTx]
    /\ retiring \in [Types -> 0..MaxTypeRevisions]
    /\ page \in {Entities!NoPage} \cup Listing

\* What the rows refer to
EntityRows ==
    \A i \in Entities!Rows(entity) :
                            /\ entity[i].revision \in 1..definition[entity[i].type].latest
                            /\ entity[i].ref \in {0} \cup Entities!Rows(entity)

EntityLimits ==
    /\ Cardinality(Entities!Rows(entity)) <= MaxPerTenant
    /\ \A t \in Types : Cardinality(Entities!OfType(entity, t)) <= MaxPerType

\* The rows a command names, and the types whose advisory locks it shares
Named(t) == {t.id, t.ref} \ {0}
TypesOf(t) ==
    (IF t.kind = "create" THEN {t.type} ELSE {}) \cup {entity[i].type : i \in t.rows}

\* What a command that has locked and checked so much may rely on.
CommandNames(t) ==
    /\ t.kind = "create" <=> t.id = 0
    /\ t.pc = "quota" => t.kind = "create"
    /\ t.kind # "create" => t.id \in Entities!Rows(entity) /\ entity[t.id].type = t.type /\ t.expected < MaxEntityVersion
    /\ t.ref \in {0} \cup Entities!Rows(entity)
CommandHolds(t) ==
    /\ t.rows \subseteq Named(t)
    /\ t.pc \notin {"quota", "rows"} => Named(t) \subseteq t.rows
    /\ t.pc \notin {"quota", "rows", "types"} => TypesOf(t) \subseteq t.types
    /\ t.kind = "create" /\ t.pc # "quota" => t.quota
CommandChecked(t) ==
    /\ t.kind # "create" /\ t.pc \in {"active", "references", "count", "write", "commit"} =>
         Entities!Current(t.id) /\ entity[t.id].version = t.expected
    /\ t.kind # "archive" /\ t.pc \in {"references", "count", "write", "commit"} =>
         Entities!Published(t.type) /\ t.revision \in 1..definition[t.type].latest
    /\ t.kind # "archive" /\ t.pc \in {"count", "write", "commit"} /\ t.ref # 0 => Entities!Available(t.ref)
    /\ t.kind = "create" /\ t.pc \in {"write", "commit"} =>
         /\ Cardinality(Entities!Rows(entity)) < MaxPerTenant
         /\ Cardinality(Entities!OfType(entity, t.type)) < MaxPerType
CommandInv(t) == t.pc # "idle" => CommandNames(t) /\ CommandHolds(t) /\ CommandChecked(t)

\* Two transactions that would hold one lock
EntityClash(t, u) ==
    t.pc # "idle" /\ u.pc # "idle" /\ ((t.quota /\ u.quota) \/ t.rows \cap u.rows # {})
EntityLocks ==
    /\ \A s, o \in Sessions : s # o => ~ EntityClash(etx[s], etx[o])
    /\ \A s \in Sessions, t \in Types : etx[s].pc # "idle" /\ t \in etx[s].types => retiring[t] = 0

ListInv ==
    page.pc # "idle" =>
        /\ page.owed \subseteq Entities!OfType(entity, page.type)
        /\ page.pc = "open" => \A i \in page.owed : i <= page.after => i \in page.seen
        /\ page.pc = "done" => page.owed \subseteq page.seen

EntityInv ==
    /\ EntityTypes /\ EntityRows /\ EntityLimits /\ EntityLocks /\ ListInv
    /\ \A s \in Sessions : CommandInv(etx[s])

LEMMA FirstNumber ==
    ASSUME NEW S, S \subseteq Nat, S # {}
    PROVE  Entities!Min(S) \in S /\ \A o \in S : Entities!Min(S) <= o
  <1>1. PICK z \in S : \A y \in S : y >= z  BY LeastNumber
  <1>2. Entities!Min(S) = CHOOSE x \in S : \A y \in S : y >= x  BY DEF Entities!Min
  <1>3. Entities!Min(S) \in S /\ \A y \in S : y >= Entities!Min(S)  BY <1>1, <1>2
  <1>4. \A y \in S : y \in Nat  OBVIOUS
  <1> HIDE DEF Entities!Min
  <1> QED BY <1>3, <1>4

LEMMA LastNumber ==
    ASSUME NEW S, S \subseteq Nat, IsFiniteSet(S), S # {}
    PROVE  Entities!Max(S) \in S /\ \A o \in S : o <= Entities!Max(S)
  <1>1. PICK z \in S : \A y \in S : z >= y  BY GreatestNumber
  <1>2. Entities!Max(S) = CHOOSE x \in S : \A y \in S : x >= y  BY DEF Entities!Max
  <1>3. Entities!Max(S) \in S /\ \A y \in S : Entities!Max(S) >= y  BY <1>1, <1>2
  <1>4. \A y \in S : y \in Nat  OBVIOUS
  <1> HIDE DEF Entities!Max
  <1> QED BY <1>3, <1>4

\* The rows of a table are finitely many.
LEMMA EntityCounts ==
    ASSUME NEW S, S \subseteq Entities!Ids
    PROVE  IsFiniteSet(S) /\ Cardinality(S) \in Nat
  <1>1. IsFiniteSet(Entities!Ids)  BY FS_Interval, EntityAssumption DEF Entities!Ids
  <1> QED BY <1>1, FS_Subset, FS_CardinalityType

LEMMA EntityInitially == Entities!Init => EntityInv
  <1> SUFFICES ASSUME Entities!Init PROVE EntityInv  OBVIOUS
  <1>1. Entities!Min(Types) \in Types /\ Entities!Max(Types) \in Types
    BY EntityAssumption, FirstNumber, LastNumber
  <1> DEFINE a == Entities!NewRow(Entities!Min(Types), 1, 0)
             b == Entities!NewRow(Entities!Max(Types), 1, 0)
  <1>2. a \in EntityRow /\ b \in EntityRow /\ a # Entities!None /\ b # Entities!None
    BY <1>1, EntityAssumption DEF Entities!NewRow, EntityRow, Entities!None
  <1>3. entity = [i \in Entities!Ids |-> CASE i = 2 -> a [] i = 3 -> b [] OTHER -> Entities!None]
    BY DEF Entities!Init
  <1>4. a.revision = 1 /\ b.revision = 1 /\ a.ref = 0 /\ b.ref = 0  BY DEF Entities!NewRow
  <1> HIDE DEF a, b
  <1>5. \A i \in Entities!Ids : entity[i] = IF i = 2 THEN a ELSE IF i = 3 THEN b ELSE Entities!None  BY <1>3
  <1>6. EntityTypes
    <2>1. entity \in [Entities!Ids -> {Entities!None} \cup EntityRow]  BY <1>2, <1>3, <1>5
    <2>2. definition \in [Types -> EntityDefinition] /\ \A t \in Types : definition[t].active <= definition[t].latest
      BY EntityAssumption DEF Entities!Init, EntityDefinition
    <2>3. retiring \in [Types -> 0..MaxTypeRevisions] /\ page = Entities!NoPage /\ etx \in [Sessions -> {Entities!Idle}]
      BY EntityAssumption DEF Entities!Init
    <2> QED BY <2>1, <2>2, <2>3 DEF EntityTypes
  <1>7. \A i \in Entities!Rows(entity) : i \in Entities!Ids /\ i \in {2, 3} /\ (entity[i] = a \/ entity[i] = b) /\ entity[i] \in EntityRow
    BY <1>2, <1>5 DEF Entities!Rows
  <1>8. EntityRows
    <2>1. \A t \in Types : definition[t].latest = 1  BY DEF Entities!Init
    <2> QED BY <1>4, <1>7, <2>1 DEF EntityRows, EntityRow
  <1>9. ASSUME NEW S, S \subseteq Entities!Rows(entity) PROVE Cardinality(S) <= 2
    <2>1. S \subseteq {2, 3}  BY <1>7, <1>9
    <2>2. IsFiniteSet({2, 3}) /\ Cardinality({2, 3}) = 2
      <3>1. IsFiniteSet({2}) /\ Cardinality({2}) = 1  BY FS_Singleton
      <3>2. 3 \notin {2} /\ {2, 3} = {2} \cup {3}  OBVIOUS
      <3>3. Cardinality({2} \cup {3}) = 2 /\ IsFiniteSet({2} \cup {3})  BY <3>1, <3>2, FS_AddElement, SMTT(30)
      <3> QED BY <3>2, <3>3
    <2> DEFINE T == {2, 3}
    <2>3. S \in SUBSET T /\ IsFiniteSet(T) /\ Cardinality(T) = 2  BY <2>1, <2>2
    <2> HIDE DEF T
    <2> QED BY <2>3, FS_Subset
  <1>10. EntityLimits
    <2>1. \A t : Entities!OfType(entity, t) \subseteq Entities!Rows(entity)  BY DEF Entities!OfType
    <2>2. ASSUME NEW S, S \subseteq Entities!Rows(entity) PROVE Cardinality(S) <= MaxPerTenant /\ Cardinality(S) <= MaxPerType
      <3>1. Cardinality(S) <= 2 /\ Cardinality(S) \in Nat  BY <1>7, <1>9, <2>2, EntityCounts
      <3> QED BY <3>1, EntityAssumption
    <2> QED BY <2>1, <2>2 DEF EntityLimits
  <1>11. EntityLocks /\ ListInv /\ \A s \in Sessions : CommandInv(etx[s])
    BY DEF Entities!Init, EntityLocks, EntityClash, ListInv, CommandInv, Entities!Idle, Entities!NoPage
  <1> QED BY <1>6, <1>8, <1>10, <1>11 DEF EntityInv

\* What a command relies on survives whatever leaves its rows, types and counts alone.
LEMMA CommandStays ==
    ASSUME NEW t \in CommandTx, CommandInv(t), t.pc # "idle",
           entity \in [Entities!Ids -> {Entities!None} \cup EntityRow],
           definition \in [Types -> EntityDefinition],
           \A i \in Entities!Rows(entity) : i \in Entities!Rows(entity') /\ entity'[i].type = entity[i].type,
           \A i \in t.rows : entity'[i] = entity[i],
           t.quota => Entities!Rows(entity') = Entities!Rows(entity) /\ \A u \in Types : Entities!OfType(entity', u) = Entities!OfType(entity, u),
           \A u \in Types : definition'[u].latest >= definition[u].latest /\ definition'[u].latest \in Nat,
           \A u \in t.types : definition[u].active # 0 => definition'[u].active # 0
    PROVE  CommandInv(t)'
  <1>0. CommandNames(t) /\ CommandHolds(t) /\ CommandChecked(t)  BY DEF CommandInv
  <1>1.
      /\ t.id \in {0} \cup Entities!Ids /\ t.ref \in {0} \cup Entities!Ids /\ t.rows \subseteq Entities!Ids /\ t.type \in Types
      /\ t.types \subseteq Types
    BY DEF CommandTx
  <1>2. Entities!Rows(entity) \subseteq Entities!Rows(entity') /\ Entities!Rows(entity)' = Entities!Rows(entity')
    BY DEF Entities!Rows
  <1>3. CommandNames(t)'  BY <1>0, <1>2 DEF CommandNames
  <1>4. t.rows \subseteq Entities!Rows(entity)  BY <1>0, <1>1 DEF CommandNames, CommandHolds, Named
  <1>5. CommandHolds(t)'
    <2>1. TypesOf(t)' = TypesOf(t)  BY DEF TypesOf
    <2> QED BY <1>0, <2>1 DEF CommandHolds, Named
  <1>6. CommandChecked(t)'
    <2>1. ASSUME t.kind # "create", t.pc \in {"active", "references", "count", "write", "commit"}
          PROVE  (Entities!Current(t.id) /\ entity[t.id].version = t.expected)'
      <3>1. t.id \in t.rows  BY <1>0, <1>1, <2>1 DEF CommandNames, CommandHolds, Named
      <3> QED BY <1>0, <2>1, <3>1 DEF CommandChecked, Entities!Current
    <2>2. ASSUME NEW u \in Types, u \in t.types, Entities!Published(u) PROVE Entities!Published(u)'
      BY <2>2 DEF Entities!Published
    <2>3. ASSUME t.kind # "archive", t.pc \in {"references", "count", "write", "commit"}
          PROVE  (Entities!Published(t.type) /\ t.revision \in 1..definition[t.type].latest)'
      <3>1. t.type \in t.types
        <4>1. CASE t.kind = "create"  BY <1>0, <2>3, <4>1 DEF CommandHolds, TypesOf
        <4>2. CASE t.kind # "create"
          <5>1. t.id \in t.rows /\ entity[t.id].type = t.type
            BY <1>0, <1>1, <2>3, <4>2 DEF CommandNames, CommandHolds, Named
          <5> QED BY <1>0, <2>3, <5>1 DEF CommandHolds, TypesOf
        <4> QED BY <4>1, <4>2
      <3>2. Entities!Published(t.type) /\ t.revision \in 1..definition[t.type].latest
        BY <1>0, <2>3 DEF CommandChecked
      <3>3. definition[t.type].latest \in Nat  BY <1>1 DEF EntityDefinition
      <3> QED BY <1>1, <2>2, <3>1, <3>2, <3>3
    <2>4. ASSUME t.kind # "archive", t.pc \in {"count", "write", "commit"}, t.ref # 0
          PROVE  Entities!Available(t.ref)'
      <3>1. Entities!Available(t.ref) /\ t.ref \in t.rows
        BY <1>0, <1>1, <2>4 DEF CommandChecked, CommandHolds, Named
      <3>2. entity[t.ref].type \in t.types  BY <1>0, <2>4, <3>1 DEF CommandHolds, TypesOf
      <3> QED  BY <1>1, <1>2, <2>2, <3>1, <3>2 DEF Entities!Available, Entities!Current, Entities!Published
    <2>5. ASSUME t.kind = "create", t.pc \in {"write", "commit"}
          PROVE
              /\ Cardinality(Entities!Rows(entity')) < MaxPerTenant
              /\ Cardinality(Entities!OfType(entity', t.type)) < MaxPerType
      BY <1>0, <1>1, <2>5 DEF CommandHolds, CommandChecked
    <2> QED BY <2>1, <2>3, <2>4, <2>5 DEF CommandChecked
  <1> QED BY <1>3, <1>5, <1>6 DEF CommandInv

\* One transaction changes, and nothing else.
LEMMA CommandStep ==
    ASSUME EntityInv, NEW s \in Sessions, NEW u \in {Entities!Idle} \cup CommandTx,
           etx' = [etx EXCEPT ![s] = u], UNCHANGED <<definition, entity, retiring, page>>,
           CommandInv(u),
           u.pc # "idle" =>
                            /\ \A o \in Sessions \ {s} : ~ EntityClash(u, etx[o])
                            /\ \A t \in u.types : retiring[t] = 0
    PROVE  EntityInv'
  <1>1. etx \in [Sessions -> {Entities!Idle} \cup CommandTx]  BY DEF EntityInv, EntityTypes
  <1>2. etx'[s] = u /\ (\A o \in Sessions \ {s} : etx'[o] = etx[o]) /\ etx' \in [Sessions -> {Entities!Idle} \cup CommandTx]
    BY <1>1
  <1>3. EntityTypes' /\ EntityRows' /\ EntityLimits' /\ ListInv'
    BY <1>2 DEF EntityInv, EntityTypes, EntityRows, EntityLimits, ListInv, Entities!Rows, Entities!OfType
  <1>4. EntityLocks'
    <2>1. \A a, b : EntityClash(a, b) => EntityClash(b, a)  BY DEF EntityClash
    <2>2. ASSUME NEW a \in Sessions, NEW o \in Sessions, a # o PROVE ~ EntityClash(etx'[a], etx'[o])
      <3>1. CASE a # s /\ o # s  BY <1>2, <2>2, <3>1 DEF EntityInv, EntityLocks
      <3>2. CASE a = s \/ o = s
        <4>1. CASE u.pc = "idle"  BY <1>2, <3>2, <4>1 DEF EntityClash
        <4>2. CASE u.pc # "idle"  BY <1>2, <2>1, <2>2, <3>2, <4>2
        <4> QED BY <4>1, <4>2
      <3> QED BY <3>1, <3>2
    <2>3. ASSUME NEW o \in Sessions, NEW t \in Types, etx'[o].pc # "idle", t \in etx'[o].types
          PROVE  retiring'[t] = 0
      BY <1>2, <2>3 DEF EntityInv, EntityLocks
    <2> QED BY <2>2, <2>3 DEF EntityLocks, EntityClash
  <1>5. ASSUME NEW o \in Sessions PROVE CommandInv(etx[o])'
    <2>1. PICK t : t = etx'[o]  OBVIOUS
    <2>2. CommandInv(t)  BY <1>2, <2>1 DEF EntityInv
    <2>3. CommandInv(t)'
      BY <2>2 DEF CommandInv, CommandNames, CommandHolds, CommandChecked, Named, TypesOf, Entities!Rows, Entities!OfType,
         Entities!Current, Entities!Published, Entities!Available
    <2> QED  BY <2>1, <2>3 DEF CommandInv, CommandNames, CommandHolds, CommandChecked, Named, TypesOf
  <1> QED BY <1>3, <1>4, <1>5 DEF EntityInv

\* A step of a transaction that takes no lock and writes nothing.
LEMMA CommandMoves ==
    ASSUME EntityInv, NEW s \in Sessions, etx[s].pc # "idle", NEW pc \in Stages, NEW r \in 0..MaxTypeRevisions,
           etx' = [etx EXCEPT ![s].pc = pc, ![s].revision = r],
           UNCHANGED <<definition, entity, retiring, page>>,
           CommandInv([etx[s] EXCEPT !.pc = pc, !.revision = r])
    PROVE  EntityInv'
  <1> DEFINE u == [etx[s] EXCEPT !.pc = pc, !.revision = r]
  <1>1. etx[s] \in CommandTx /\ etx \in [Sessions -> {Entities!Idle} \cup CommandTx]
    BY DEF EntityInv, EntityTypes, Entities!Idle
  <1>2. u \in CommandTx /\ u.quota = etx[s].quota /\ u.rows = etx[s].rows /\ u.types = etx[s].types
    BY <1>1 DEF CommandTx
  <1>3. etx' = [etx EXCEPT ![s] = u]  BY <1>1
  <1>4. CommandInv(u)  OBVIOUS
  <1> HIDE DEF u
  <1>5. \A o \in Sessions \ {s} : ~ EntityClash(u, etx[o])  BY <1>2 DEF EntityInv, EntityLocks, EntityClash
  <1>6. \A t \in u.types : retiring[t] = 0  BY <1>1, <1>2 DEF EntityInv, EntityLocks, CommandTx
  <1> QED BY <1>2, <1>3, <1>4, <1>5, <1>6, CommandStep

LEMMA CommandEnds ==
    ASSUME EntityInv, NEW s \in Sessions, Entities!End(s), UNCHANGED <<definition, entity, retiring, page>>
    PROVE  EntityInv'
  <1>1. etx' = [etx EXCEPT ![s] = Entities!Idle] /\ CommandInv(Entities!Idle) /\ Entities!Idle.pc = "idle"
    BY DEF Entities!End, Entities!Idle, CommandInv
  <1> QED BY <1>1, CommandStep

LEMMA CommandBegins ==
    ASSUME EntityInv, NEW s \in Sessions, NEW kind \in {"create", "update", "archive"}, NEW i \in {0} \cup Entities!Ids,
           NEW t \in Types, NEW expected \in 0..MaxEntityVersion, NEW ref \in Entities!Rows(entity) \cup {0},
           Entities!Begin(s, kind, i, t, expected, ref), kind = "create" <=> i = 0,
           kind # "create" => i \in Entities!Rows(entity) /\ entity[i].type = t /\ expected < MaxEntityVersion
    PROVE  EntityInv'
  <1> DEFINE u == [pc |-> IF kind = "create" THEN "quota" ELSE "rows", kind |-> kind, id |-> i, type |-> t,
                   expected |-> expected, ref |-> ref, rows |-> {}, types |-> {}, quota |-> FALSE,
                   revision |-> 0]
  <1>1. etx' = [etx EXCEPT ![s] = u] /\ UNCHANGED <<definition, entity, retiring, page>>  BY DEF Entities!Begin
  <1>2.
      /\ u.pc = (IF kind = "create" THEN "quota" ELSE "rows") /\ u.kind = kind /\ u.id = i /\ u.type = t
      /\ u.expected = expected /\ u.ref = ref /\ u.rows = {} /\ u.types = {} /\ ~ u.quota
    OBVIOUS
  <1>3. u \in CommandTx  BY EntityAssumption DEF CommandTx, Stages, Entities!Rows
  <1> HIDE DEF u
  <1>4. CommandInv(u)  BY <1>2 DEF CommandInv, CommandNames, CommandHolds, CommandChecked
  <1>5. \A o \in Sessions \ {s} : ~ EntityClash(u, etx[o])  BY <1>2 DEF EntityClash
  <1> QED BY <1>1, <1>2, <1>3, <1>4, <1>5, CommandStep

LEMMA BeginStepsKeep ==
    ASSUME EntityInv, NEW s \in Sessions, Entities!BeginCreate(s) \/ Entities!BeginUpdate(s) \/ Entities!BeginArchive(s)
    PROVE  EntityInv'
  <1>0. \A i \in Entities!Rows(entity) : i \in Entities!Ids /\ i # 0 /\ entity[i] \in EntityRow
    BY DEF EntityInv, EntityTypes, Entities!Rows, Entities!Ids
  <1>1. CASE Entities!BeginCreate(s)
    <2>1. PICK t \in Types, ref \in Entities!Rows(entity) \cup {0} : Entities!Begin(s, "create", 0, t, 0, ref)
      BY <1>1 DEF Entities!BeginCreate
    <2> QED BY <2>1, CommandBegins, EntityAssumption
  <1>2. CASE Entities!BeginUpdate(s)
    <2>1. PICK i \in Entities!Rows(entity), ref \in Entities!Rows(entity) \cup {0} :
             entity[i].version < MaxEntityVersion /\ Entities!Begin(s, "update", i, entity[i].type, entity[i].version, ref)
      BY <1>2 DEF Entities!BeginUpdate
    <2>2. i \in Entities!Ids /\ i # 0 /\ entity[i].type \in Types /\ entity[i].version \in 0..MaxEntityVersion
      BY <1>0 DEF EntityRow
    <2> QED BY <2>1, <2>2, CommandBegins
  <1>3. CASE Entities!BeginArchive(s)
    <2>1. PICK i \in Entities!Rows(entity) :
             entity[i].version < MaxEntityVersion /\ Entities!Begin(s, "archive", i, entity[i].type, entity[i].version, 0)
      BY <1>3 DEF Entities!BeginArchive
    <2>2. i \in Entities!Ids /\ i # 0 /\ entity[i].type \in Types /\ entity[i].version \in 0..MaxEntityVersion
      BY <1>0 DEF EntityRow
    <2> QED BY <2>1, <2>2, CommandBegins
  <1> QED BY <1>1, <1>2, <1>3

LEMMA TakeQuotaKeeps == ASSUME EntityInv, NEW s \in Sessions, Entities!TakeQuota(s) PROVE EntityInv'
  <1> DEFINE t == etx[s]
             u == [t EXCEPT !.quota = TRUE, !.pc = "rows"]
  <1>1. t.pc = "quota" /\ etx' = [etx EXCEPT ![s].quota = TRUE, ![s].pc = "rows"]
        /\ UNCHANGED <<definition, entity, retiring, page>>
    BY DEF Entities!TakeQuota
  <1>2. etx \in [Sessions -> {Entities!Idle} \cup CommandTx] /\ t \in CommandTx /\ CommandInv(t)
    BY <1>1 DEF EntityInv, EntityTypes, Entities!Idle
  <1>3. etx' = [etx EXCEPT ![s] = u]  BY <1>1, <1>2
  <1>4.
      /\ u \in CommandTx /\ u.pc = "rows" /\ u.quota /\ u.kind = t.kind /\ u.id = t.id /\ u.ref = t.ref
      /\ u.type = t.type /\ u.expected = t.expected /\ u.rows = t.rows /\ u.types = t.types
    BY <1>2 DEF CommandTx, Stages
  <1>5. \A o \in Sessions \ {s} : etx[o].pc # "idle" => ~ etx[o].quota
    BY DEF Entities!TakeQuota, Entities!QuotaLock, Entities!QuotaHeld, Entities!Open
  <1> HIDE DEF u
  <1>6. CommandInv(u)  BY <1>1, <1>2, <1>4 DEF CommandInv, CommandNames, CommandHolds, CommandChecked, Named
  <1>7. \A o \in Sessions \ {s} : ~ EntityClash(u, etx[o])
    BY <1>1, <1>4, <1>5 DEF EntityInv, EntityLocks, EntityClash
  <1>8. \A y \in u.types : retiring[y] = 0  BY <1>1, <1>2, <1>4 DEF EntityInv, EntityLocks, CommandTx
  <1> QED BY <1>1, <1>3, <1>4, <1>6, <1>7, <1>8, CommandStep

LEMMA LockRowKeeps == ASSUME EntityInv, NEW s \in Sessions, Entities!LockRow(s) PROVE EntityInv'
  <1> DEFINE t == etx[s]
             rest == Entities!LockedRows(s) \ t.rows
  <1>1. t.pc = "rows" /\ UNCHANGED <<definition, entity, retiring, page>>  BY DEF Entities!LockRow
  <1>2. etx \in [Sessions -> {Entities!Idle} \cup CommandTx] /\ t \in CommandTx /\ CommandInv(t)
    BY <1>1 DEF EntityInv, EntityTypes, Entities!Idle
  <1>3. Entities!LockedRows(s) = Named(t) /\ Named(t) \subseteq Entities!Ids
    BY <1>2 DEF Entities!LockedRows, Named, CommandTx
  <1>4. CASE rest = {}
    <2> DEFINE u == [t EXCEPT !.pc = "types"]
    <2>1. etx' = [etx EXCEPT ![s].pc = "types"]  BY <1>4 DEF Entities!LockRow, Entities!Goto
    <2>2. etx' = [etx EXCEPT ![s] = u]  BY <1>2, <2>1
    <2>3.
        /\ u \in CommandTx /\ u.pc = "types" /\ u.quota = t.quota /\ u.kind = t.kind /\ u.id = t.id /\ u.ref = t.ref
        /\ u.type = t.type /\ u.expected = t.expected /\ u.rows = t.rows /\ u.types = t.types
      BY <1>2 DEF CommandTx, Stages
    <2> HIDE DEF u
    <2>4. CommandInv(u)
      BY <1>1, <1>2, <1>3, <1>4, <2>3 DEF CommandInv, CommandNames, CommandHolds, CommandChecked, Named
    <2>5. \A o \in Sessions \ {s} : ~ EntityClash(u, etx[o])
      BY <1>1, <2>3 DEF EntityInv, EntityLocks, EntityClash
    <2>6. \A y \in u.types : retiring[y] = 0  BY <1>1, <1>2, <2>3 DEF EntityInv, EntityLocks, CommandTx
    <2> QED BY <1>1, <2>2, <2>3, <2>4, <2>5, <2>6, CommandStep
  <1>5. CASE rest # {}
    <2>1. rest \subseteq Nat  BY <1>3, EntityAssumption DEF Entities!Ids
    <2>2. PICK i \in rest : i = Entities!NextRow(s, rest)  BY <1>5, <2>1, FirstNumber DEF Entities!NextRow
    <2> DEFINE u == [t EXCEPT !.rows = @ \cup {i}]
    <2>3. etx' = [etx EXCEPT ![s].rows = @ \cup {i}] /\ ~ Entities!RowHeld(i, s)
      BY <1>5, <2>2 DEF Entities!LockRow
    <2>4. etx' = [etx EXCEPT ![s] = u]  BY <1>2, <2>3
    <2>5. i \in Named(t) /\ i \in Entities!Ids  BY <1>3
    <2>6.
        /\ u \in CommandTx /\ u.pc = "rows" /\ u.quota = t.quota /\ u.kind = t.kind /\ u.id = t.id /\ u.ref = t.ref
        /\ u.type = t.type /\ u.expected = t.expected /\ u.rows = t.rows \cup {i} /\ u.types = t.types
      BY <1>1, <1>2, <2>5 DEF CommandTx
    <2> HIDE DEF u
    <2>7. CommandInv(u)
      BY <1>1, <1>2, <2>5, <2>6 DEF CommandInv, CommandNames, CommandHolds, CommandChecked, Named
    <2>8. ASSUME NEW o \in Sessions \ {s} PROVE ~ EntityClash(u, etx[o])
      <3>1. etx[o].pc # "idle" => i \notin etx[o].rows  BY <2>3 DEF Entities!RowHeld, Entities!Open
      <3> QED BY <1>1, <2>6, <3>1 DEF EntityInv, EntityLocks, EntityClash
    <2>9. \A y \in u.types : retiring[y] = 0  BY <1>1, <1>2, <2>6 DEF EntityInv, EntityLocks, CommandTx
    <2> QED BY <1>1, <2>4, <2>6, <2>7, <2>8, <2>9, CommandStep
  <1> QED BY <1>4, <1>5

LEMMA LockTypeKeeps == ASSUME EntityInv, NEW s \in Sessions, Entities!LockType(s) PROVE EntityInv'
  <1> DEFINE t == etx[s]
             rest == Entities!SharedTypes(s) \ t.types
  <1>1. t.pc = "types" /\ UNCHANGED <<definition, entity, retiring, page>>  BY DEF Entities!LockType
  <1>2. etx \in [Sessions -> {Entities!Idle} \cup CommandTx] /\ t \in CommandTx /\ CommandInv(t)
    BY <1>1 DEF EntityInv, EntityTypes, Entities!Idle
  <1>3. Entities!SharedTypes(s) = TypesOf(t)  BY DEF Entities!SharedTypes, TypesOf
  <1>4. TypesOf(t) \subseteq Types
    <2>1. t.rows \subseteq Entities!Rows(entity) /\ t.type \in Types
      BY <1>1, <1>2 DEF CommandInv, CommandNames, CommandHolds, Named, CommandTx
    <2>2. \A i \in Entities!Rows(entity) : entity[i].type \in Types
      BY DEF EntityInv, EntityTypes, Entities!Rows, EntityRow
    <2> QED BY <2>1, <2>2 DEF TypesOf
  <1>5. CASE rest = {}
    <2> DEFINE u == [t EXCEPT !.pc = "record"]
    <2>1. etx' = [etx EXCEPT ![s].pc = "record"]  BY <1>5 DEF Entities!LockType, Entities!Goto
    <2>2. etx' = [etx EXCEPT ![s] = u]  BY <1>2, <2>1
    <2>3.
        /\ u \in CommandTx /\ u.pc = "record" /\ u.quota = t.quota /\ u.kind = t.kind /\ u.id = t.id /\ u.ref = t.ref
        /\ u.type = t.type /\ u.expected = t.expected /\ u.rows = t.rows /\ u.types = t.types
      BY <1>2 DEF CommandTx, Stages
    <2> HIDE DEF u
    <2>4. TypesOf(u) = TypesOf(t)  BY <2>3 DEF TypesOf
    <2>5. CommandInv(u)
      BY <1>1, <1>2, <1>3, <1>5, <2>3, <2>4 DEF CommandInv, CommandNames, CommandHolds, CommandChecked, Named
    <2>6. \A o \in Sessions \ {s} : ~ EntityClash(u, etx[o])
      BY <1>1, <2>3 DEF EntityInv, EntityLocks, EntityClash
    <2>7. \A y \in u.types : retiring[y] = 0  BY <1>1, <1>2, <2>3 DEF EntityInv, EntityLocks, CommandTx
    <2> QED BY <1>1, <2>2, <2>3, <2>5, <2>6, <2>7, CommandStep
  <1>6. CASE rest # {}
    <2>1. rest \subseteq Nat /\ rest \subseteq Types  BY <1>3, <1>4, EntityAssumption
    <2>2. PICK y \in rest : y = Entities!Min(rest)  BY <1>6, <2>1, FirstNumber
    <2> DEFINE u == [t EXCEPT !.types = @ \cup {y}]
    <2>3. etx' = [etx EXCEPT ![s].types = @ \cup {y}] /\ retiring[y] = 0  BY <1>6, <2>2 DEF Entities!LockType
    <2>4. etx' = [etx EXCEPT ![s] = u]  BY <1>2, <2>3
    <2>5. y \in Types  BY <2>1
    <2>6.
        /\ u \in CommandTx /\ u.pc = "types" /\ u.quota = t.quota /\ u.kind = t.kind /\ u.id = t.id /\ u.ref = t.ref
        /\ u.type = t.type /\ u.expected = t.expected /\ u.rows = t.rows /\ u.types = t.types \cup {y}
      BY <1>1, <1>2, <2>5 DEF CommandTx
    <2> HIDE DEF u
    <2>7. CommandInv(u)  BY <1>1, <1>2, <2>6 DEF CommandInv, CommandNames, CommandHolds, CommandChecked, Named
    <2>8. \A o \in Sessions \ {s} : ~ EntityClash(u, etx[o])
      BY <1>1, <2>6 DEF EntityInv, EntityLocks, EntityClash
    <2>9. \A z \in u.types : retiring[z] = 0  BY <1>1, <1>2, <2>3, <2>6 DEF EntityInv, EntityLocks, CommandTx
    <2> QED BY <1>1, <2>4, <2>6, <2>7, <2>8, <2>9, CommandStep
  <1> QED BY <1>5, <1>6

\* Each check is true when it is made, and stays true (CommandStays).
LEMMA CheckStepsKeep ==
    ASSUME EntityInv, NEW s \in Sessions,
           Entities!Record(s) \/ Entities!Active(s) \/ Entities!References(s) \/ Entities!Quota(s) \/ Entities!Evidence(s)
    PROVE  EntityInv'
  <1> DEFINE t == etx[s]
  <1>1. t.pc \in {"record", "active", "references", "count", "write"}
        /\ UNCHANGED <<definition, entity, retiring, page>>
    BY DEF Entities!Record, Entities!Active, Entities!References, Entities!Quota, Entities!Evidence
  <1>2. etx \in [Sessions -> {Entities!Idle} \cup CommandTx] /\ t \in CommandTx /\ CommandInv(t)
    BY <1>1 DEF EntityInv, EntityTypes, Entities!Idle
  <1>3. t.type \in Types /\ t.ref \in {0} \cup Entities!Ids /\ t.revision \in 0..MaxTypeRevisions
        /\ t.kind \in {"create", "update", "archive"}
    BY <1>2 DEF CommandTx
  <1>4. CommandNames(t) /\ CommandHolds(t) /\ CommandChecked(t)  BY <1>1, <1>2 DEF CommandInv
  <1>5. ASSUME Entities!End(s) PROVE EntityInv'  BY <1>1, <1>5, CommandEnds
  <1>6. ASSUME NEW pc \in Stages \ {"quota", "rows", "types", "record"}, NEW r \in 0..MaxTypeRevisions,
               etx' = [etx EXCEPT ![s].pc = pc, ![s].revision = r],
               t.kind # "create" => Entities!Current(t.id) /\ entity[t.id].version = t.expected,
               t.kind # "archive" /\ pc \in {"references", "count", "write", "commit"} =>
                   Entities!Published(t.type) /\ r \in 1..definition[t.type].latest,
               t.kind # "archive" /\ pc \in {"count", "write", "commit"} /\ t.ref # 0 => Entities!Available(t.ref),
               t.kind = "create" /\ pc \in {"write", "commit"} =>
                   /\ Cardinality(Entities!Rows(entity)) < MaxPerTenant
                   /\ Cardinality(Entities!OfType(entity, t.type)) < MaxPerType
        PROVE  EntityInv'
    <2> DEFINE u == [t EXCEPT !.pc = pc, !.revision = r]
    <2>1.
        /\ u.pc = pc /\ u.quota = t.quota /\ u.kind = t.kind /\ u.id = t.id /\ u.ref = t.ref /\ u.revision = r
        /\ u.type = t.type /\ u.expected = t.expected /\ u.rows = t.rows /\ u.types = t.types
      BY <1>2 DEF CommandTx
    <2>2. pc \in Stages /\ t.pc # "idle"  BY <1>1
    <2>3. CommandInv(u)
      <3> HIDE DEF u
      <3>1. TypesOf(u) = TypesOf(t)  BY <2>1 DEF TypesOf
      <3>2. CommandNames(u) /\ CommandHolds(u)
        BY <1>1, <1>4, <1>6, <2>1, <3>1 DEF CommandNames, CommandHolds, Named
      <3>3. CommandChecked(u)  BY <1>6, <2>1 DEF CommandChecked
      <3> QED BY <3>2, <3>3 DEF CommandInv
    <2> QED BY <1>1, <1>6, <2>2, <2>3, CommandMoves
  <1>7. ASSUME NEW pc, etx' = [etx EXCEPT ![s].pc = pc]
        PROVE  etx' = [etx EXCEPT ![s].pc = pc, ![s].revision = t.revision]
    <2>1. [t EXCEPT !.pc = pc] = [t EXCEPT !.pc = pc, !.revision = t.revision]  BY <1>2 DEF CommandTx
    <2> QED BY <1>2, <1>7, <2>1
  <1>8. CASE Entities!Record(s)
    <2>1. t.pc = "record"  BY <1>8 DEF Entities!Record
    <2>2. CASE t.kind = "create" \/ Entities!StillExpected(s)
      <3>1. PICK pc \in {"write", "active"} :
              etx' = [etx EXCEPT ![s].pc = pc] /\ (pc = "write" => t.kind = "archive")
        BY <1>8, <2>2 DEF Entities!Record, Entities!Goto
      <3>2. t.kind # "create" => Entities!Current(t.id) /\ entity[t.id].version = t.expected
        BY <2>2 DEF Entities!StillExpected
      <3> HIDE DEF t
      <3>3. etx' = [etx EXCEPT ![s].pc = pc, ![s].revision = t.revision]  BY <1>7, <3>1
      <3>4. pc \in Stages \ {"quota", "rows", "types", "record"}  BY DEF Stages
      <3> QED BY <1>3, <1>6, <3>1, <3>2, <3>3, <3>4
    <2>3. CASE ~ (t.kind = "create" \/ Entities!StillExpected(s))  BY <1>5, <1>8, <2>3 DEF Entities!Record
    <2> QED BY <2>2, <2>3
  <1>9. CASE Entities!Active(s)
    <2>1. t.pc = "active" /\ (t.kind # "create" => Entities!Current(t.id) /\ entity[t.id].version = t.expected)
      BY <1>4, <1>9 DEF Entities!Active, CommandChecked
    <2>2. CASE Entities!Published(t.type)
      <3>1. PICK r : r = definition[t.type].active  OBVIOUS
      <3>2. definition[t.type] \in EntityDefinition /\ definition[t.type].active <= definition[t.type].latest
        BY <1>3 DEF EntityInv, EntityTypes
      <3>3. r \in 0..MaxTypeRevisions /\ r \in 1..definition[t.type].latest
        BY <2>2, <3>1, <3>2, EntityAssumption DEF EntityDefinition, Entities!Published
      <3>4. etx' = [etx EXCEPT ![s].revision = r, ![s].pc = "references"]
        BY <1>9, <2>2, <3>1 DEF Entities!Active, Entities!Pinned
      <3>5. etx' = [etx EXCEPT ![s].pc = "references", ![s].revision = r]
        <4>1. [t EXCEPT !.revision = r, !.pc = "references"] = [t EXCEPT !.pc = "references", !.revision = r]
          BY <1>2 DEF CommandTx
        <4> QED BY <1>2, <3>4, <4>1
      <3>6. "references" \in Stages \ {"quota", "rows", "types", "record"}  BY DEF Stages
      <3> HIDE DEF t
      <3> QED BY <1>6, <2>1, <2>2, <3>3, <3>5, <3>6
    <2>3. CASE ~ Entities!Published(t.type)  BY <1>5, <1>9, <2>3 DEF Entities!Active
    <2> QED BY <2>2, <2>3
  <1>10. ASSUME t.pc \in {"references", "count", "write"}
         PROVE
             /\ t.kind # "create" => Entities!Current(t.id) /\ entity[t.id].version = t.expected
             /\ t.kind # "archive" => Entities!Published(t.type) /\ t.revision \in 1..definition[t.type].latest
    BY <1>4, <1>10 DEF CommandChecked
  <1>11. CASE Entities!References(s)
    <2>1. t.pc = "references"  BY <1>11 DEF Entities!References
    <2>2. CASE t.ref = 0 \/ Entities!Available(t.ref)
      <3>1. PICK pc \in {"count", "write"} :
              etx' = [etx EXCEPT ![s].pc = pc] /\ (pc = "write" => t.kind # "create")
        BY <1>11, <2>2 DEF Entities!References, Entities!Goto
      <3> HIDE DEF t
      <3>2. etx' = [etx EXCEPT ![s].pc = pc, ![s].revision = t.revision]  BY <1>7, <3>1
      <3>3. pc \in Stages \ {"quota", "rows", "types", "record"}  BY DEF Stages
      <3> QED BY <1>3, <1>6, <1>10, <2>1, <2>2, <3>1, <3>2, <3>3
    <2>3. CASE ~ (t.ref = 0 \/ Entities!Available(t.ref))  BY <1>5, <1>11, <2>3 DEF Entities!References
    <2> QED BY <2>2, <2>3
  <1>12. CASE Entities!Quota(s)
    <2>1. t.pc = "count" /\ (t.kind # "archive" /\ t.ref # 0 => Entities!Available(t.ref))
      BY <1>4, <1>12 DEF Entities!Quota, CommandChecked
    <2> DEFINE room ==
                       /\ Cardinality(Entities!Rows(entity)) < MaxPerTenant
                       /\ Cardinality(Entities!OfType(entity, t.type)) < MaxPerType
    <2>2. CASE room
      <3>1. etx' = [etx EXCEPT ![s].pc = "write"]
        BY EntityCardinality, <1>12, <2>2 DEF Entities!Quota, Entities!Goto
      <3> HIDE DEF t
      <3>2. etx' = [etx EXCEPT ![s].pc = "write", ![s].revision = t.revision]  BY <1>7, <3>1
      <3>3. "write" \in Stages \ {"quota", "rows", "types", "record"}  BY DEF Stages
      <3> QED BY <1>3, <1>6, <1>10, <2>1, <2>2, <3>2, <3>3
    <2>3. CASE ~ room  BY EntityCardinality, <1>5, <1>12, <2>3 DEF Entities!Quota
    <2> QED BY <2>2, <2>3
  <1>13. CASE Entities!Evidence(s)
    <2>1. t.pc = "write" /\ etx' = [etx EXCEPT ![s].pc = "commit"]
      BY <1>13 DEF Entities!Evidence, Entities!Goto
    <2>2.
        /\ t.kind # "archive" /\ t.ref # 0 => Entities!Available(t.ref)
        /\ t.kind = "create" =>
                                /\ Cardinality(Entities!Rows(entity)) < MaxPerTenant
                                /\ Cardinality(Entities!OfType(entity, t.type)) < MaxPerType
      BY <1>4, <2>1 DEF CommandChecked
    <2> HIDE DEF t
    <2>3. etx' = [etx EXCEPT ![s].pc = "commit", ![s].revision = t.revision]  BY <1>7, <2>1
    <2>4. "commit" \in Stages \ {"quota", "rows", "types", "record"}  BY DEF Stages
    <2> QED BY <1>3, <1>6, <1>10, <2>1, <2>2, <2>3, <2>4
  <1> QED BY <1>8, <1>9, <1>11, <1>12, <1>13

\* What a command writes at its commit, the row it is for and what it names.
LEMMA CommitCreateKeeps == ASSUME EntityInv, NEW s \in Sessions, Entities!CommitCreate(s) PROVE EntityInv'
  <1> DEFINE t == etx[s]
  <1>1. t.pc = "commit" /\ t.kind = "create" /\ etx' = [etx EXCEPT ![s] = Entities!Idle]
        /\ UNCHANGED <<definition, retiring, page>>
    BY DEF Entities!CommitCreate, Entities!End
  <1>2. etx \in [Sessions -> {Entities!Idle} \cup CommandTx] /\ t \in CommandTx /\ CommandInv(t)
    BY <1>1 DEF EntityInv, EntityTypes, Entities!Idle
  <1>3.
      /\ t.quota /\ t.ref \in {0} \cup Entities!Rows(entity) /\ t.revision \in 1..definition[t.type].latest
      /\ Cardinality(Entities!Rows(entity)) < MaxPerTenant /\ Cardinality(Entities!OfType(entity, t.type)) < MaxPerType
    BY <1>1, <1>2 DEF CommandInv, CommandNames, CommandHolds, CommandChecked
  <1>4. PICK i \in Entities!Ids \ Entities!Rows(entity) :
           entity' = [entity EXCEPT ![i] = Entities!NewRow(t.type, t.revision, t.ref)]
    BY DEF Entities!CommitCreate
  <1>5. PICK row : row = Entities!NewRow(t.type, t.revision, t.ref)  OBVIOUS
  <1>6. /\ row \in EntityRow /\ row # Entities!None /\ row.type = t.type /\ row.revision = t.revision /\ row.ref = t.ref
    BY <1>2, <1>5, EntityAssumption DEF Entities!NewRow, EntityRow, CommandTx, Entities!None
  <1>7. entity' = [entity EXCEPT ![i] = row] /\ entity \in [Entities!Ids -> {Entities!None} \cup EntityRow]
    BY <1>4, <1>5 DEF EntityInv, EntityTypes
  <1>8. entity'[i] = row /\ \A j \in Entities!Ids : j # i => entity'[j] = entity[j]  BY <1>7
  <1>9. Entities!Rows(entity') = Entities!Rows(entity) \cup {i} /\ Entities!Rows(entity)' = Entities!Rows(entity')
    BY <1>6, <1>8 DEF Entities!Rows
  <1>10. ASSUME NEW y PROVE Entities!OfType(entity', y) = IF y = t.type THEN Entities!OfType(entity, y) \cup {i} ELSE Entities!OfType(entity, y)
    <2>1. \A j \in Entities!Rows(entity) : j \in Entities!Ids /\ j # i  BY <1>4 DEF Entities!Rows
    <2> QED BY <1>6, <1>8, <1>9, <2>1 DEF Entities!OfType
  <1>11. etx'[s] = Entities!Idle /\ (\A o \in Sessions \ {s} : etx'[o] = etx[o]) /\ etx' \in [Sessions -> {Entities!Idle} \cup CommandTx]
    BY <1>1, <1>2
  <1>12. EntityTypes'
    <2>1. entity' \in [Entities!Ids -> {Entities!None} \cup EntityRow]  BY <1>6, <1>7
    <2> QED BY <1>1, <1>11, <2>1 DEF EntityInv, EntityTypes
  <1>13. EntityRows'
    <2>1. ASSUME NEW j \in Entities!Rows(entity')
          PROVE
              /\ entity'[j].revision \in 1..definition'[entity'[j].type].latest
              /\ entity'[j].ref \in {0} \cup Entities!Rows(entity')
      <3>1. CASE j = i  BY <1>1, <1>3, <1>6, <1>8, <1>9, <3>1
      <3>2. CASE j # i
        <4>1. j \in Entities!Rows(entity) /\ entity'[j] = entity[j]  BY <1>8, <1>9, <3>2 DEF Entities!Rows
        <4> QED BY <1>1, <1>9, <4>1 DEF EntityInv, EntityRows
      <3> QED BY <3>1, <3>2
    <2> QED BY <1>9, <2>1 DEF EntityRows
  <1>14. EntityLimits'
    <2>1. Cardinality(Entities!Rows(entity')) <= MaxPerTenant
      <3>1. Entities!Rows(entity) \subseteq Entities!Ids  BY DEF Entities!Rows
      <3>2. IsFiniteSet(Entities!Rows(entity)) /\ Cardinality(Entities!Rows(entity)) \in Nat
        BY <3>1, EntityCounts
      <3>3. Cardinality(Entities!Rows(entity) \cup {i}) = Cardinality(Entities!Rows(entity)) + 1
        BY <1>4, <3>2, FS_AddElement
      <3> QED BY <1>3, <1>9, <3>2, <3>3, EntityAssumption
    <2>2. ASSUME NEW y \in Types PROVE Cardinality(Entities!OfType(entity', y)) <= MaxPerType
      <3>1. CASE y # t.type  BY <1>10, <3>1 DEF EntityInv, EntityLimits
      <3>2. CASE y = t.type
        <4>1. Entities!OfType(entity, y) \subseteq Entities!Ids /\ i \notin Entities!OfType(entity, y)
          BY <1>4 DEF Entities!OfType, Entities!Rows
        <4>2. IsFiniteSet(Entities!OfType(entity, y)) /\ Cardinality(Entities!OfType(entity, y)) \in Nat
          BY <4>1, EntityCounts
        <4>3. Cardinality(Entities!OfType(entity, y) \cup {i}) = Cardinality(Entities!OfType(entity, y)) + 1
          BY <4>1, <4>2, FS_AddElement
        <4>4. Entities!OfType(entity', y) = Entities!OfType(entity, y) \cup {i}  BY <1>10, <3>2
        <4>5. Cardinality(Entities!OfType(entity, y)) < MaxPerType  BY <1>3, <3>2
        <4> QED BY <4>2, <4>3, <4>4, <4>5, EntityAssumption
      <3> QED BY <3>1, <3>2
    <2> QED BY <2>1, <2>2 DEF EntityLimits, Entities!Rows, Entities!OfType
  <1>15. EntityLocks'  BY <1>1, <1>11 DEF EntityInv, EntityLocks, EntityClash, Entities!Idle
  <1>16. ListInv'
    <2>1. \A y : Entities!OfType(entity, y) \subseteq Entities!OfType(entity', y)  BY <1>10
    <2>2. page' = page /\ Entities!OfType(entity, page.type)' = Entities!OfType(entity', page.type)
      BY <1>1 DEF Entities!OfType, Entities!Rows
    <2> QED BY <2>1, <2>2 DEF EntityInv, ListInv
  <1>17. ASSUME NEW o \in Sessions PROVE CommandInv(etx[o])'
    <2>1. PICK u : u = etx'[o]  OBVIOUS
    <2>2. CommandInv(u)'
      <3>1. CASE u.pc = "idle"  BY <3>1 DEF CommandInv
      <3>2. CASE u.pc # "idle"
        <4>1. o # s /\ u = etx[o] /\ u \in CommandTx /\ CommandInv(u)
          BY <1>2, <1>11, <2>1, <3>2 DEF EntityInv, Entities!Idle
        <4>2. ~ u.quota  BY <1>1, <1>3, <3>2, <4>1 DEF EntityInv, EntityLocks, EntityClash
        <4>3. u.rows \subseteq Entities!Rows(entity)
          BY <3>2, <4>1 DEF CommandInv, CommandNames, CommandHolds, Named
        <4>4. \A j \in Entities!Rows(entity) : j \in Entities!Ids /\ j # i /\ j \in Entities!Rows(entity') /\ entity'[j] = entity[j]
          BY <1>4, <1>8, <1>9 DEF Entities!Rows
        <4>5. definition \in [Types -> EntityDefinition]  BY DEF EntityInv, EntityTypes
        <4>6. \A y \in Types : definition[y].latest \in Nat /\ definition'[y].latest >= definition[y].latest
                               /\ definition'[y].latest \in Nat
          BY <1>1, <4>5 DEF EntityDefinition
        <4> QED BY <1>1, <1>7, <3>2, <4>1, <4>2, <4>3, <4>4, <4>5, <4>6, CommandStays
      <3> QED BY <3>1, <3>2
    <2> QED  BY <2>1, <2>2 DEF CommandInv, CommandNames, CommandHolds, CommandChecked, Named, TypesOf
  <1> QED BY <1>12, <1>13, <1>14, <1>15, <1>16, <1>17 DEF EntityInv

LEMMA CommitMutationKeeps == ASSUME EntityInv, NEW s \in Sessions, Entities!CommitMutation(s) PROVE EntityInv'
  <1> DEFINE t == etx[s]
  <1>1. t.pc = "commit" /\ t.kind # "create" /\ etx' = [etx EXCEPT ![s] = Entities!Idle]
        /\ UNCHANGED <<definition, retiring, page>>
    BY DEF Entities!CommitMutation, Entities!End
  <1>2. etx \in [Sessions -> {Entities!Idle} \cup CommandTx] /\ t \in CommandTx /\ CommandInv(t)
    BY <1>1 DEF EntityInv, EntityTypes, Entities!Idle
  <1>3. PICK i : i = t.id  OBVIOUS
  <1>4.
      /\ i \in Entities!Rows(entity) /\ i \in Entities!Ids /\ i \in t.rows /\ entity[i].type = t.type /\ t.expected < MaxEntityVersion
      /\ t.ref \in {0} \cup Entities!Rows(entity) /\ entity[i].version = t.expected
      /\ t.kind # "archive" => t.revision \in 1..definition[t.type].latest
    BY <1>1, <1>2, <1>3 DEF CommandInv, CommandNames, CommandHolds, CommandChecked, Named, Entities!Rows
  <1>5. PICK row : row = Entities!Written(s)  OBVIOUS
  <1>6. entity' = [entity EXCEPT ![i] = row] /\ entity \in [Entities!Ids -> {Entities!None} \cup EntityRow] /\ entity[i] \in EntityRow
    BY <1>3, <1>4, <1>5 DEF Entities!CommitMutation, EntityInv, EntityTypes, Entities!Rows
  <1>7. t.expected \in 0..MaxEntityVersion /\ t.revision \in 0..MaxTypeRevisions /\ t.ref \in {0} \cup Entities!Ids
    BY <1>2 DEF CommandTx
  <1>8.
      /\ row \in EntityRow /\ row.type = t.type
      /\ row.revision = entity[i].revision \/ (t.kind # "archive" /\ row.revision = t.revision)
      /\ row.ref = entity[i].ref \/ row.ref = t.ref
    <2>1. entity[i].version + 1 \in 1..MaxEntityVersion  BY <1>4, <1>7, EntityAssumption
    <2>2. CASE t.kind = "archive"
      <3>1. row = [entity[i] EXCEPT !.lifecycle = "archived", !.version = @ + 1]
        BY <1>3, <1>5, <2>2 DEF Entities!Written
      <3> QED BY <1>4, <1>6, <2>1, <3>1 DEF EntityRow
    <2>3. CASE t.kind # "archive"
      <3>1. row = [entity[i] EXCEPT !.revision = t.revision, !.ref = t.ref, !.version = @ + 1]
        BY <1>3, <1>5, <2>3 DEF Entities!Written
      <3> QED BY <1>4, <1>6, <1>7, <2>1, <2>3, <3>1 DEF EntityRow
    <2> QED BY <2>2, <2>3
  <1>9. entity'[i] = row /\ \A j \in Entities!Ids : j # i => entity'[j] = entity[j]  BY <1>4, <1>6
  <1>10. row # Entities!None  BY <1>8 DEF EntityRow, Entities!None
  <1>11. Entities!Rows(entity') = Entities!Rows(entity) /\ Entities!Rows(entity)' = Entities!Rows(entity')
    BY <1>4, <1>9, <1>10 DEF Entities!Rows
  <1>12. \A j \in Entities!Rows(entity) : entity'[j].type = entity[j].type
    BY <1>4, <1>8, <1>9 DEF Entities!Rows
  <1>13. \A y : Entities!OfType(entity', y) = Entities!OfType(entity, y)  BY <1>11, <1>12 DEF Entities!OfType
  <1>14. etx'[s] = Entities!Idle /\ (\A o \in Sessions \ {s} : etx'[o] = etx[o]) /\ etx' \in [Sessions -> {Entities!Idle} \cup CommandTx]
    BY <1>1, <1>2
  <1>15. EntityTypes'
    <2>1. entity' \in [Entities!Ids -> {Entities!None} \cup EntityRow]  BY <1>6, <1>8
    <2> QED BY <1>1, <1>14, <2>1 DEF EntityInv, EntityTypes
  <1>16. EntityRows'
    <2>1. ASSUME NEW j \in Entities!Rows(entity')
          PROVE
              /\ entity'[j].revision \in 1..definition'[entity'[j].type].latest
              /\ entity'[j].ref \in {0} \cup Entities!Rows(entity')
      <3>0. entity[j].revision \in 1..definition[entity[j].type].latest /\ entity[j].ref \in {0} \cup Entities!Rows(entity)
        BY <1>11 DEF EntityInv, EntityRows
      <3>1. CASE j = i  BY <1>1, <1>4, <1>8, <1>9, <1>11, <3>0, <3>1
      <3>2. CASE j # i  BY <1>1, <1>9, <1>11, <3>0, <3>2 DEF Entities!Rows
      <3> QED BY <3>1, <3>2
    <2> QED BY <1>11, <2>1 DEF EntityRows
  <1>17. EntityLimits' /\ ListInv'
    <2>1. \A y : Entities!OfType(entity, y)' = Entities!OfType(entity', y)
      BY DEF Entities!OfType, Entities!Rows
    <2> QED
      BY <1>1, <1>11, <1>13, ZenonT(40) DEF EntityInv, EntityLimits, ListInv, Entities!OfType, Entities!Rows
  <1>18. EntityLocks'  BY <1>1, <1>14 DEF EntityInv, EntityLocks, EntityClash, Entities!Idle
  <1>19. ASSUME NEW o \in Sessions PROVE CommandInv(etx[o])'
    <2>1. PICK u : u = etx'[o]  OBVIOUS
    <2>2. CommandInv(u)'
      <3>1. CASE u.pc = "idle"  BY <3>1 DEF CommandInv
      <3>2. CASE u.pc # "idle"
        <4>1. o # s /\ u = etx[o] /\ u \in CommandTx /\ CommandInv(u)
          BY <1>2, <1>14, <2>1, <3>2 DEF EntityInv, Entities!Idle
        <4>2. i \notin u.rows  BY <1>1, <1>4, <3>2, <4>1 DEF EntityInv, EntityLocks, EntityClash
        <4>3. \A j \in u.rows : entity'[j] = entity[j]  BY <1>9, <4>1, <4>2 DEF CommandTx
        <4>4. definition \in [Types -> EntityDefinition]  BY DEF EntityInv, EntityTypes
        <4>5. \A y \in Types : definition[y].latest \in Nat /\ definition'[y].latest >= definition[y].latest
                               /\ definition'[y].latest \in Nat
          BY <1>1, <4>4 DEF EntityDefinition
        <4> QED BY <1>1, <1>6, <1>11, <1>12, <1>13, <3>2, <4>1, <4>3, <4>4, <4>5, CommandStays
      <3> QED BY <3>1, <3>2
    <2> QED  BY <2>1, <2>2 DEF CommandInv, CommandNames, CommandHolds, CommandChecked, Named, TypesOf
  <1> QED BY <1>15, <1>16, <1>17, <1>18, <1>19 DEF EntityInv

\* A type's own commands: what they change, no command that shares the type relies on.
LEMMA DefinitionStep ==
    ASSUME EntityInv, UNCHANGED <<entity, etx, page>>,
           definition' \in [Types -> EntityDefinition], retiring' \in [Types -> 0..MaxTypeRevisions],
           \A u \in Types :
                            /\ definition'[u].active <= definition'[u].latest
                            /\ definition'[u].latest >= definition[u].latest
                            /\
                               \/ definition[u].active # 0 => definition'[u].active # 0
                               \/ retiring[u] # 0
                            /\
                               \/ retiring'[u] = 0 \/ retiring'[u] = retiring[u]
                               \/ ~ Entities!Shared(u)
    PROVE  EntityInv'
  <1>1. EntityTypes'  BY DEF EntityInv, EntityTypes
  <1>2. definition \in [Types -> EntityDefinition] /\ entity \in [Entities!Ids -> {Entities!None} \cup EntityRow]
        /\ etx \in [Sessions -> {Entities!Idle} \cup CommandTx]
    BY DEF EntityInv, EntityTypes
  <1>3. \A u \in Types : definition[u].latest \in Nat /\ definition'[u].latest \in Nat
                         /\ definition'[u].latest >= definition[u].latest
    BY <1>2 DEF EntityDefinition
  <1>4. EntityRows'
    <2>1. ASSUME NEW i \in Entities!Rows(entity)
          PROVE  entity[i].revision \in 1..definition'[entity[i].type].latest /\ entity[i].ref \in {0} \cup Entities!Rows(entity)
      <3>1. entity[i].type \in Types /\ entity[i].revision \in 1..definition[entity[i].type].latest
            /\ entity[i].ref \in {0} \cup Entities!Rows(entity)
        BY <1>2 DEF EntityInv, EntityRows, Entities!Rows, EntityRow
      <3> QED BY <1>3, <3>1
    <2> QED BY <2>1 DEF EntityRows, Entities!Rows
  <1>5. EntityLimits' /\ ListInv'  BY DEF EntityInv, EntityLimits, ListInv, Entities!OfType, Entities!Rows
  <1>6. EntityLocks'
    <2>1. ASSUME NEW s \in Sessions, NEW u \in Types, etx'[s].pc # "idle", u \in etx'[s].types
          PROVE  retiring'[u] = 0
      <3>1. Entities!Shared(u) /\ retiring[u] = 0
        BY <2>1 DEF EntityInv, EntityLocks, Entities!Shared, Entities!Open
      <3> QED BY <3>1
    <2>2. \A s, o \in Sessions : s # o => ~ EntityClash(etx[s], etx[o])  BY DEF EntityInv, EntityLocks
    <2> QED BY <2>1, <2>2 DEF EntityLocks, EntityClash
  <1>7. ASSUME NEW s \in Sessions PROVE CommandInv(etx[s])'
    <2>1. PICK t : t = etx'[s]  OBVIOUS
    <2>2. CommandInv(t)'
      <3>1. CASE t.pc = "idle"  BY <3>1 DEF CommandInv
      <3>2. CASE t.pc # "idle"
        <4>1. t = etx[s] /\ t \in CommandTx /\ CommandInv(t)  BY <1>2, <2>1, <3>2 DEF EntityInv, Entities!Idle
        <4>2. \A u \in t.types : definition[u].active # 0 => definition'[u].active # 0
          <5>1. \A u \in t.types : u \in Types /\ retiring[u] = 0
            BY <3>2, <4>1 DEF EntityInv, EntityLocks, CommandTx
          <5> QED BY <5>1
        <4>3. \A i \in t.rows : entity'[i] = entity[i]  OBVIOUS
        <4>4. \A i \in Entities!Rows(entity) : i \in Entities!Rows(entity') /\ entity'[i].type = entity[i].type
          BY DEF Entities!Rows
        <4>5. Entities!Rows(entity') = Entities!Rows(entity) /\ \A u \in Types : Entities!OfType(entity', u) = Entities!OfType(entity, u)
          OBVIOUS
        <4> QED BY <1>2, <1>3, <3>2, <4>1, <4>2, <4>3, <4>4, <4>5, CommandStays
      <3> QED BY <3>1, <3>2
    <2> QED  BY <2>1, <2>2 DEF CommandInv, CommandNames, CommandHolds, CommandChecked, Named, TypesOf
  <1> QED BY <1>1, <1>4, <1>5, <1>6, <1>7 DEF EntityInv

LEMMA TypeStepsKeep ==
    ASSUME EntityInv, NEW t \in Types, Entities!BeginRetire(t) \/ Entities!CommitRetire(t) \/ Entities!PublishType(t)
    PROVE  EntityInv'
  <1>1. definition \in [Types -> EntityDefinition] /\ retiring \in [Types -> 0..MaxTypeRevisions]
        /\ \A u \in Types : definition[u].active <= definition[u].latest
    BY DEF EntityInv, EntityTypes
  <1>2. \A u \in Types : definition[u].active \in 0..MaxTypeRevisions /\ definition[u].latest \in 1..MaxTypeRevisions
    BY <1>1 DEF EntityDefinition
  <1>3. \A u \in Types : definition[u].latest >= definition[u].latest  BY <1>2
  <1>4. CASE Entities!BeginRetire(t)
    <2>1. retiring' = [retiring EXCEPT ![t] = definition[t].active] /\ ~ Entities!Shared(t)
          /\ UNCHANGED <<definition, entity, etx, page>>
      BY <1>4 DEF Entities!BeginRetire
    <2>2. retiring' \in [Types -> 0..MaxTypeRevisions] /\ \A u \in Types : u # t => retiring'[u] = retiring[u]
      BY <1>1, <1>2, <2>1
    <2> QED BY <1>1, <1>3, <2>1, <2>2, DefinitionStep
  <1>5. CASE Entities!CommitRetire(t)
    <2>1.
        /\ retiring[t] # 0 /\ retiring' = [retiring EXCEPT ![t] = 0] /\ UNCHANGED <<entity, etx, page>>
        /\ definition' = IF definition[t].active = retiring[t]
                         THEN [definition EXCEPT ![t].active = 0] ELSE definition
      BY <1>5 DEF Entities!CommitRetire
    <2>2. retiring' \in [Types -> 0..MaxTypeRevisions]
          /\ \A u \in Types : retiring'[u] = 0 \/ retiring'[u] = retiring[u]
      BY <1>1, <2>1, EntityAssumption
    <2>3. definition' \in [Types -> EntityDefinition]  BY <1>1, <2>1, EntityAssumption DEF EntityDefinition
    <2>4. ASSUME NEW u \in Types
          PROVE
              /\ definition'[u].active <= definition'[u].latest
              /\ definition'[u].latest >= definition[u].latest
              /\ u # t => definition'[u] = definition[u]
      <3>1. CASE definition' = definition  BY <1>1, <1>2, <3>1
      <3>2. CASE definition' = [definition EXCEPT ![t].active = 0]
        <4>1. u # t => definition'[u] = definition[u]  BY <1>1, <3>2
        <4>2. u = t => definition'[u].active = 0 /\ definition'[u].latest = definition[u].latest
          BY <1>1, <3>2 DEF EntityDefinition
        <4> QED BY <1>1, <1>2, <4>1, <4>2
      <3> QED BY <2>1, <3>1, <3>2
    <2> QED BY <2>1, <2>2, <2>3, <2>4, DefinitionStep
  <1>6. CASE Entities!PublishType(t)
    <2>1.
        /\ definition[t].latest < MaxTypeRevisions /\ UNCHANGED <<entity, etx, retiring, page>>
        /\ definition' = [definition EXCEPT ![t] = [active |-> @.latest + 1, latest |-> @.latest + 1]]
      BY <1>6 DEF Entities!PublishType
    <2>2. PICK next : next = definition[t].latest + 1  OBVIOUS
    <2>3. next \in 1..MaxTypeRevisions /\ next \in 0..MaxTypeRevisions /\ next # 0 /\ next >= definition[t].latest
      BY <1>2, <2>1, <2>2, EntityAssumption
    <2>4. definition' = [definition EXCEPT ![t] = [active |-> next, latest |-> next]]  BY <2>1, <2>2
    <2>5. definition' \in [Types -> EntityDefinition]  BY <1>1, <2>3, <2>4 DEF EntityDefinition
    <2>6. ASSUME NEW u \in Types
          PROVE
              /\ definition'[u].active <= definition'[u].latest
              /\ definition'[u].latest >= definition[u].latest
              /\ definition[u].active # 0 => definition'[u].active # 0
      <3>1. CASE u # t  BY <1>1, <1>3, <2>4, <3>1
      <3>2. CASE u = t
        <4>1. definition'[u] = [active |-> next, latest |-> next]  BY <1>1, <2>4, <3>2
        <4> QED BY <2>3, <3>2, <4>1
      <3> QED BY <3>1, <3>2
    <2> QED BY <1>1, <2>1, <2>5, <2>6, DefinitionStep
  <1> QED BY <1>4, <1>5, <1>6

\* A page shows the rows up to the last it names; there is a next page only if some are left.
LEMMA PageRows ==
    ASSUME NEW R, R \subseteq Entities!Ids
    PROVE  LET shown == {i \in R : Cardinality({j \in R : j <= i}) <= PageSize}
               next == Entities!PageAfter(R, PageSize) IN
           /\ next = 0 => shown = R
           /\ next # 0 => next \in R /\ \A i \in R : i <= next => i \in shown
  <1> DEFINE Upto(i) == {j \in R : j <= i}
             shown == {i \in R : Cardinality(Upto(i)) <= PageSize}
             next == Entities!PageAfter(R, PageSize)
  <1>1. R \subseteq Nat /\ (\A i \in R : i > 0) /\ IsFiniteSet(R) /\ Cardinality(R) \in Nat
    <2>1. \A i \in R : i \in Nat /\ i > 0  BY EntityAssumption DEF Entities!Ids
    <2> QED BY <2>1, EntityCounts
  <1>2. \A i \in R :
                     /\ IsFiniteSet(Upto(i)) /\ Cardinality(Upto(i)) \in Nat
                     /\ Cardinality(Upto(i)) <= Cardinality(R)
    <2>1. \A i : Upto(i) \subseteq R  OBVIOUS
    <2> HIDE DEF Upto
    <2> QED BY <1>1, <2>1, FS_Subset, FS_CardinalityType
  <1>3. PageSize \in Nat \ {0}  BY EntityAssumption
  <1>4. CASE ~ (PageSize < Cardinality(R))
    <2>1. next = 0  BY EntityCardinality, <1>4 DEF Entities!PageAfter
    <2>2. \A i \in R : Cardinality(Upto(i)) <= PageSize
      <3> HIDE DEF Upto
      <3> QED BY <1>1, <1>2, <1>3, <1>4
    <2>3. shown = R  BY <2>2
    <2> QED BY <2>1, <2>3
  <1>5. CASE PageSize < Cardinality(R)
    <2>1. next = Entities!Max(shown)  BY EntityCardinality, <1>5 DEF Entities!PageAfter
    <2>2. shown # {}
      <3>1. R # {}  BY <1>1, <1>3, <1>5, FS_EmptySet
      <3>2. PICK a \in R : \A y \in R : a <= y  BY <1>1, <3>1, LeastNumber
      <3>3. Upto(a) = {a}
        <4>1. \A j \in R : j <= a => j = a
          <5> SUFFICES ASSUME NEW j \in R, j <= a PROVE j = a  OBVIOUS
          <5>1. j \in Nat /\ a \in Nat /\ a <= j  BY <1>1, <3>2
          <5> HIDE DEF Upto, shown, next
          <5> QED BY <5>1
        <4>2. a <= a  BY <1>1
        <4> QED BY <4>1, <4>2
      <3>4. Cardinality(Upto(a)) = 1  BY <3>3, FS_Singleton
      <3> HIDE DEF Upto
      <3> QED BY <1>3, <3>4
    <2>3. shown \subseteq R /\ shown \subseteq Nat /\ IsFiniteSet(shown)
      <3>1. shown \subseteq R  OBVIOUS
      <3> HIDE DEF shown
      <3> QED BY <1>1, <3>1, FS_Subset
    <2>4. Entities!Max(shown) \in shown
      <3> HIDE DEF shown
      <3> QED BY <2>2, <2>3, LastNumber
    <2>5. next \in shown /\ next \in R /\ next # 0 /\ Cardinality(Upto(next)) <= PageSize
      BY <1>1, <2>1, <2>3, <2>4
    <2>6. ASSUME NEW i \in R, i <= next PROVE i \in shown
      <3> HIDE DEF next
      <3>1. \A j \in R : j <= i => j <= next
        <4> SUFFICES ASSUME NEW j \in R, j <= i PROVE j <= next  OBVIOUS
        <4>1. j \in Nat /\ i \in Nat /\ next \in Nat  BY <1>1, <2>5
        <4> HIDE DEF shown, Upto
        <4> QED BY <2>6, <4>1
      <3>2. Upto(i) \subseteq Upto(next)  BY <3>1
      <3>3. Cardinality(Upto(i)) <= Cardinality(Upto(next))
        <4> HIDE DEF Upto
        <4> QED BY <1>2, <2>5, <3>2, FS_Subset
      <3>4. Cardinality(Upto(i)) \in Nat /\ Cardinality(Upto(next)) \in Nat  BY <1>2, <2>5
      <3>5. Cardinality(Upto(i)) <= PageSize
        <4> HIDE DEF Upto, shown
        <4> QED BY <1>3, <2>5, <3>3, <3>4
      <3> QED BY <3>5
    <2> HIDE DEF next, shown
    <2> QED BY <2>5, <2>6 DEF next, shown
  <1> QED BY <1>4, <1>5

LEMMA ListStepsKeep == EntityInv /\ ((\E t \in Types : Entities!StartList(t)) \/ Entities!List) => EntityInv'
  <1> SUFFICES ASSUME EntityInv, (\E t \in Types : Entities!StartList(t)) \/ Entities!List PROVE EntityInv'
    OBVIOUS
  <1>1. UNCHANGED <<definition, entity, etx, retiring>>  BY DEF Entities!StartList, Entities!List
  <1>2. ASSUME page' \in {Entities!NoPage} \cup Listing, ListInv' PROVE EntityInv'
    <2>1. EntityTypes' /\ EntityRows' /\ EntityLimits' /\ EntityLocks'
      BY <1>1, <1>2 DEF EntityInv, EntityTypes, EntityRows, EntityLimits, EntityLocks, EntityClash, Entities!Rows, Entities!OfType
    <2>2. ASSUME NEW s \in Sessions PROVE CommandInv(etx[s])'
      <3>1. PICK t : t = etx'[s]  OBVIOUS
      <3>2. CommandInv(t)  BY <1>1, <3>1 DEF EntityInv
      <3>3. CommandInv(t)'
        BY <1>1, <3>2 DEF CommandInv, CommandNames, CommandHolds, CommandChecked, Named, TypesOf, Entities!Rows, Entities!OfType,
           Entities!Current, Entities!Published, Entities!Available
      <3> QED  BY <3>1, <3>3 DEF CommandInv, CommandNames, CommandHolds, CommandChecked, Named, TypesOf
    <2> QED BY <1>2, <2>1, <2>2 DEF EntityInv
  <1>3. \A y : Entities!OfType(entity, y)' = Entities!OfType(entity, y)
    BY <1>1 DEF Entities!OfType, Entities!Rows
  <1>4. CASE \E t \in Types : Entities!StartList(t)
    <2>1. PICK t \in Types :
            page' = [pc |-> "open", type |-> t, after |-> 0, owed |-> Entities!OfType(entity, t), seen |-> {}]
      BY <1>4 DEF Entities!StartList
    <2>2. page' \in Listing  BY <2>1 DEF Listing, Entities!OfType, Entities!Rows
    <2>3. /\ page'.pc = "open" /\ page'.owed = Entities!OfType(entity, t) /\ page'.type = t /\ page'.after = 0
      BY <2>1
    <2>4. \A i \in Entities!OfType(entity, t) : ~ (i <= 0)
      BY EntityAssumption DEF Entities!OfType, Entities!Rows, Entities!Ids
    <2>5. Entities!OfType(entity, page'.type) = page'.owed  BY <2>3
    <2>6. ListInv'  BY <1>1, <2>3, <2>4, <2>5 DEF ListInv, Entities!OfType, Entities!Rows
    <2> QED BY <1>2, <2>2, <2>6
  <1>5. CASE Entities!List
    <2> DEFINE R == {i \in Entities!OfType(entity, page.type) : i > page.after}
               shown == {i \in R : Cardinality({j \in R : j <= i}) <= PageSize}
               next == Entities!PageAfter(R, PageSize)
    <2>1. page.pc = "open" /\ page' = [page EXCEPT !.after = next, !.seen = @ \cup shown,
                                                   !.pc = IF next = 0 THEN "done" ELSE "open"]
      BY EntityCardinality, <1>5 DEF Entities!List
    <2>2. page \in Listing  BY <2>1 DEF EntityInv, EntityTypes, Entities!NoPage
    <2>3. R \subseteq Entities!Ids /\ R \subseteq Entities!OfType(entity, page.type) /\ Entities!OfType(entity, page.type) \subseteq Entities!Ids
      BY DEF Entities!OfType, Entities!Rows
    <2>4.
        /\ next = 0 => shown = R
        /\ next # 0 => next \in R /\ \A i \in R : i <= next => i \in shown
      <3> HIDE DEF R
      <3> QED BY <2>3, PageRows
    <2>5. \A i \in Entities!OfType(entity, page.type) : i \in R \/ i <= page.after
      <3>1. \A i \in Entities!OfType(entity, page.type) : i \in Nat  BY <2>3, EntityAssumption DEF Entities!Ids
      <3>2. page.after \in Nat  BY <2>2, EntityAssumption DEF Listing, Entities!Ids
      <3> QED BY <3>1, <3>2
    <2>6. shown \subseteq Entities!Ids  BY <2>3
    <2> HIDE DEF R, shown, next
    <2>7. PICK pc \in {"open", "done"} :
            pc = (IF next = 0 THEN "done" ELSE "open") /\ page' = [page EXCEPT !.after = next, !.seen = @ \cup shown, !.pc = pc]
      BY <2>1
    <2>8.
        /\ page' \in Listing /\ page'.type = page.type /\ page'.owed = page.owed /\ page'.after = next
        /\ page'.seen = page.seen \cup shown /\ page'.pc = pc
      BY <2>2, <2>3, <2>4, <2>6, <2>7 DEF Listing
    <2>9. page.owed \subseteq Entities!OfType(entity, page.type) /\ \A i \in page.owed : i <= page.after => i \in page.seen
      BY <2>1 DEF EntityInv, ListInv
    <2>10. ListInv'
      <3>1. page'.owed \subseteq Entities!OfType(entity, page'.type)  BY <2>8, <2>9
      <3>2. page'.pc = "open" => \A i \in page'.owed : i <= page'.after => i \in page'.seen
        BY <2>4, <2>5, <2>7, <2>8, <2>9
      <3>3. page'.pc = "done" => page'.owed \subseteq page'.seen  BY <2>4, <2>5, <2>7, <2>8, <2>9
      <3> QED BY <1>1, <3>1, <3>2, <3>3 DEF ListInv, Entities!OfType, Entities!Rows
    <2> QED BY <1>2, <2>8, <2>10
  <1> QED BY <1>4, <1>5

LEMMA EntityStep == EntityInv /\ [Entities!Next]_Entities!vars => EntityInv'
  <1> SUFFICES ASSUME EntityInv, [Entities!Next]_Entities!vars PROVE EntityInv'  OBVIOUS
  <1>1. CASE UNCHANGED Entities!vars
    <2>1. \A u \in Types : definition[u].active <= definition[u].latest  BY DEF EntityInv, EntityTypes
    <2>2. definition \in [Types -> EntityDefinition] /\ retiring \in [Types -> 0..MaxTypeRevisions]
      BY DEF EntityInv, EntityTypes
    <2>3. \A u \in Types : definition[u].latest >= definition[u].latest  BY <2>2 DEF EntityDefinition
    <2>4. UNCHANGED <<entity, etx, page>> /\ UNCHANGED <<definition, retiring>>  BY <1>1 DEF Entities!vars
    <2> QED BY <2>1, <2>2, <2>3, <2>4, DefinitionStep
  <1>2. ASSUME NEW s \in Sessions,
               Entities!BeginCreate(s) \/ Entities!BeginUpdate(s) \/ Entities!BeginArchive(s) \/ Entities!Refused(s) \/ Entities!Step(s)
        PROVE  EntityInv'
    <2>1. CASE Entities!Refused(s)
      <3>1. Entities!End(s) /\ UNCHANGED <<definition, entity, retiring, page>>  BY <2>1 DEF Entities!Refused
      <3> QED BY <3>1, CommandEnds
    <2>2. CASE Entities!BeginCreate(s) \/ Entities!BeginUpdate(s) \/ Entities!BeginArchive(s)
      BY <2>2, BeginStepsKeep
    <2>3. CASE Entities!Step(s)
      BY <2>3, TakeQuotaKeeps, LockRowKeeps, LockTypeKeeps, CheckStepsKeep, CommitCreateKeeps,
         CommitMutationKeeps DEF Entities!Step
    <2> QED BY <1>2, <2>1, <2>2, <2>3
  <1>3. CASE Entities!Next  BY <1>2, <1>3, TypeStepsKeep, ListStepsKeep DEF Entities!Next
  <1> QED BY <1>1, <1>3

LEMMA EntitiesFollow == EntityInv => Entities!EntitiesSound
  <1> SUFFICES ASSUME EntityInv PROVE Entities!EntitiesSound  OBVIOUS
  <1>1. Entities!TypeOK
    <2>1. \A t \in Types :
                           /\ definition[t].active \in 0..definition[t].latest
                           /\ definition[t].latest \in 1..MaxTypeRevisions
                           /\ retiring[t] \in 0..MaxTypeRevisions
      <3>1. \A t \in Types :
                             /\ definition[t] \in EntityDefinition /\ retiring[t] \in 0..MaxTypeRevisions
                             /\ definition[t].active <= definition[t].latest
        BY DEF EntityInv, EntityTypes
      <3>2. \A t \in Types : definition[t].active \in 0..MaxTypeRevisions /\ definition[t].latest \in 1..MaxTypeRevisions
        BY <3>1 DEF EntityDefinition
      <3>3. ASSUME NEW t \in Types PROVE definition[t].active \in 0..definition[t].latest
        <4>1. PICK a, b : a = definition[t].active /\ b = definition[t].latest  OBVIOUS
        <4>2. a \in 0..MaxTypeRevisions /\ b \in 1..MaxTypeRevisions /\ a <= b  BY <3>1, <3>2, <4>1
        <4>3. a \in 0..b  BY <4>2, EntityAssumption
        <4> QED BY <4>1, <4>3
      <3> QED BY <3>1, <3>2, <3>3
    <2>2. \A i \in Entities!Rows(entity) : entity[i] \in EntityRow /\ entity[i].ref \in {0} \cup Entities!Rows(entity)
      BY DEF EntityInv, EntityTypes, EntityRows, Entities!Rows
    <2> QED BY <2>1, <2>2 DEF Entities!TypeOK, EntityRow
  <1>2. page.pc = "done" => page.owed \subseteq page.seen  BY DEF EntityInv, ListInv
  <1> QED  BY EntityCardinality, <1>1, <1>2 DEF EntityInv, EntityLimits, EntityRows, Entities!EntitiesSound

\* A commit is the only step that changes a row.
LEMMA EntityChanges == EntityInv /\ [Entities!Next]_Entities!vars => Entities!WriteIsLive
  <1> SUFFICES ASSUME EntityInv, [Entities!Next]_Entities!vars, NEW i \in Entities!Ids, entity'[i] # entity[i]
               PROVE
                   /\ i \in Entities!Rows(entity) => Entities!Envelope(entity[i], entity'[i])
                   /\ entity'[i].lifecycle = "current" =>
                         /\ Entities!Published(entity'[i].type)
                         /\ entity'[i].ref # 0 => Entities!Available(entity'[i].ref)
    BY DEF Entities!WriteIsLive
  <1>1. PICK s \in Sessions : Entities!CommitCreate(s) \/ Entities!CommitMutation(s)
    <2>1. CASE ~ \E s \in Sessions : Entities!CommitCreate(s) \/ Entities!CommitMutation(s)
      <3>1. entity' = entity
        BY <2>1 DEF Entities!Next, Entities!Step, Entities!vars, Entities!BeginCreate, Entities!BeginUpdate, Entities!BeginArchive, Entities!Begin, Entities!Refused, Entities!TakeQuota, Entities!LockRow,
           Entities!LockType, Entities!Record, Entities!Active, Entities!References, Entities!Quota, Entities!Evidence, Entities!BeginRetire, Entities!CommitRetire, Entities!PublishType,
           Entities!StartList, Entities!List
      <3> QED BY <3>1
    <2> QED BY <2>1
  <1> DEFINE t == etx[s]
  <1>2. t.pc = "commit"  BY <1>1 DEF Entities!CommitCreate, Entities!CommitMutation
  <1>3. t \in CommandTx /\ CommandNames(t) /\ CommandHolds(t) /\ CommandChecked(t)
    BY <1>2 DEF EntityInv, EntityTypes, CommandInv, Entities!Idle
  <1>4. t.kind # "archive" => Entities!Published(t.type) /\ (t.ref # 0 => Entities!Available(t.ref))
    BY <1>2, <1>3 DEF CommandChecked
  <1>5. entity \in [Entities!Ids -> {Entities!None} \cup EntityRow]  BY DEF EntityInv, EntityTypes
  <1>6. CASE Entities!CommitCreate(s)
    <2>1. t.kind = "create" /\ \E j \in Entities!Ids \ Entities!Rows(entity) :
             entity' = [entity EXCEPT ![j] = Entities!NewRow(t.type, t.revision, t.ref)]
      BY <1>6 DEF Entities!CommitCreate
    <2>2. i \notin Entities!Rows(entity) /\ entity'[i] = Entities!NewRow(t.type, t.revision, t.ref)
      BY <1>5, <2>1
    <2>3. entity'[i].type = t.type /\ entity'[i].ref = t.ref  BY <2>2 DEF Entities!NewRow
    <2> QED BY <1>4, <2>1, <2>2, <2>3
  <1>7. CASE Entities!CommitMutation(s)
    <2>1. t.kind # "create" /\ Entities!Envelope(entity[t.id], Entities!Written(s))
          /\ entity' = [entity EXCEPT ![t.id] = Entities!Written(s)]
      BY <1>7 DEF Entities!CommitMutation
    <2>2. i = t.id /\ entity'[i] = Entities!Written(s)  BY <1>5, <2>1
    <2>3. i \in Entities!Rows(entity) /\ entity[i].type = t.type  BY <1>3, <2>1, <2>2 DEF CommandNames
    <2>4. Entities!Written(s) = IF t.kind = "archive" THEN [entity[i] EXCEPT !.lifecycle = "archived", !.version = @ + 1]
                       ELSE [entity[i] EXCEPT !.revision = t.revision, !.ref = t.ref, !.version = @ + 1]
      BY <2>2 DEF Entities!Written
    <2>5. entity[i] \in EntityRow  BY <1>5, <2>3 DEF Entities!Rows
    <2>6. CASE t.kind = "archive"
      <3>1. entity'[i].lifecycle = "archived"  BY <2>2, <2>4, <2>5, <2>6 DEF EntityRow
      <3> QED BY <2>1, <2>2, <3>1
    <2>7. CASE t.kind # "archive"
      <3>1. entity'[i].type = t.type /\ entity'[i].ref = t.ref  BY <2>2, <2>3, <2>4, <2>5, <2>7 DEF EntityRow
      <3> QED BY <1>4, <2>1, <2>2, <2>7, <3>1
    <2> QED BY <2>6, <2>7
  <1> QED BY <1>1, <1>6, <1>7

------------------------
(* A tenant. *)

WorkKinds == {"export", "delete", "restore"}
OperationRecord == [kind : WorkKinds \cup {"none"}, state : {"none", "pending", "completed", "skipped"}]
DirectoryRecord == [user : {"none", "user", "break_glass"}, mapped : BOOLEAN,
                    member : {"none", "active", "revoked", "expired"}, provider : 0..MaxConfigs,
                    policy : Tenant!Strengths \cup {"none"}]
WorkTx == [pc : {"hooks"}, version : Tenant!Versions, todo : SUBSET Owners]
LoginTx == [pc : {"verify", "tenant", "provider", "identity", "policy", "commit", "admitted"},
            provider : 0..MaxConfigs, strength : Tenant!Strengths, policy : Tenant!Strengths \cup {"none"}]
CheckTx == [pc : {"idle", "start", "member", "valid"}, was : BOOLEAN]

TenantTypes ==
    /\ tenant \in [status : DOMAIN Tenant!Transitions, version : 0..MaxTenantVersion]
    /\ operation \in [Tenant!Versions -> OperationRecord]
    /\ worker \in {Tenant!Resting} \cup WorkTx
    /\ ran \subseteq WorkKinds \X Tenant!Versions \X Owners
    /\ directory \in DirectoryRecord
    /\ login \in {Tenant!Resting} \cup LoginTx
    /\ session \in {"none", "active", "revoked"}
    /\ check \in CheckTx

\* An operation is recorded with its transition, a deletion only after its completed export.
TenantOperations ==
    /\ \A v \in Tenant!Versions :
                           /\ v > tenant.version => operation[v].kind = "none"
                           /\ operation[v].kind = "none" <=> operation[v].state = "none"
                           /\ operation[v].kind = "delete" => v > 1 /\ Tenant!ExportDone(v - 1)
                           /\ operation[v].state = "completed" => Tenant!Ran(operation[v].kind, v) = Owners
    /\ \A call \in ran : operation[call[2]].kind = call[1]
    /\ \A v \in Tenant!Versions : \A o \in Tenant!Ran("delete", v) :
           {p \in Owners : p > o} \subseteq Tenant!Ran("delete", v)

\* While the hooks run the tenant's row is locked on the version they run for.
TenantWorker ==
    worker.pc = "hooks" =>
        /\ worker.version = tenant.version /\ operation[worker.version].state = "pending"
        /\ Owners \ worker.todo \subseteq Tenant!Ran(operation[worker.version].kind, worker.version)

\* What the second transaction of a login has read and locked
TenantLogin ==
    /\ Tenant!TenantShared => tenant.status = "active"
    /\ Tenant!ProviderShared => directory.provider = login.provider
    /\ Tenant!MemberShared => directory.member \notin {"none", "revoked"}
    /\ Tenant!PolicyShared => directory.policy = login.policy

\* A validation has seen the membership it ends with.
TenantCheck ==
    /\ check.pc = "member" /\ directory.member = "active" => check.was
    /\ check.pc = "valid" => check.was

TenantInv == TenantTypes /\ TenantOperations /\ TenantWorker /\ TenantLogin /\ TenantCheck

LEMMA TenantInitially == Tenant!Init => TenantInv
  <1> SUFFICES ASSUME Tenant!Init PROVE TenantInv  OBVIOUS
  <1>1. TenantTypes
    BY TenantAssumption DEF Tenant!Init, TenantTypes, OperationRecord, DirectoryRecord, CheckTx, Tenant!NoOperation,
       Tenant!NoCheck, Tenant!Resting, Tenant!Transitions, Tenant!Versions, Tenant!Strengths
  <1>2. TenantOperations
    <2>1. \A k, v : Tenant!Ran(k, v) = {}  BY DEF Tenant!Init, Tenant!Ran
    <2> QED BY <2>1 DEF Tenant!Init, TenantOperations, Tenant!NoOperation
  <1>3. TenantWorker /\ TenantLogin /\ TenantCheck
    BY DEF Tenant!Init, TenantWorker, TenantLogin, TenantCheck, Tenant!Resting, Tenant!NoCheck, Tenant!TenantShared, Tenant!ProviderShared,
       Tenant!MemberShared, Tenant!PolicyShared
  <1> QED BY <1>1, <1>2, <1>3 DEF TenantInv

\* The last of some owners
LEMMA LastOwner ==
    ASSUME NEW S \in SUBSET Owners, S # {}
    PROVE  Tenant!Max(S) \in S /\ \A o \in S : o <= Tenant!Max(S)
  <1>1. S \subseteq Nat /\ IsFiniteSet(S)  BY TenantAssumption, FS_Subset
  <1>2. PICK z \in S : \A o \in S : z >= o  BY <1>1, GreatestNumber
  <1>3. Tenant!Max(S) = CHOOSE x \in S : \A y \in S : x >= y  BY DEF Tenant!Max
  <1>4. Tenant!Max(S) \in S /\ \A o \in S : Tenant!Max(S) >= o  BY <1>2, <1>3
  <1>5. Tenant!Max(S) \in Nat  BY <1>1, <1>4
  <1> QED BY <1>1, <1>4, <1>5

LEMMA FirstOwner ==
    ASSUME NEW S \in SUBSET Owners, S # {}
    PROVE  Tenant!Min(S) \in S
  <1>1. S \subseteq Nat  BY TenantAssumption
  <1>2. PICK z \in S : \A y \in S : y >= z  BY <1>1, LeastNumber
  <1>3. Tenant!Min(S) = CHOOSE x \in S : \A y \in S : y >= x  BY DEF Tenant!Min
  <1> QED BY <1>2, <1>3

\* A hook that runs runs for the tenant's version, and a deletion's in reverse.
LEMMA HookRuns ==
    ASSUME TenantInv, Tenant!CallHook
    PROVE  \E k \in WorkKinds, o \in Owners :
             /\ k = operation[worker.version].kind /\ worker.version = tenant.version
             /\ worker.version \in Tenant!Versions /\ worker.pc = "hooks" /\ worker \in WorkTx
             /\ ran' = ran \cup {<<k, worker.version, o>>}
             /\ worker' = [worker EXCEPT !.todo = @ \ {o}]
             /\ k = "delete" => {p \in Owners : p > o} \subseteq Tenant!Ran(k, worker.version)
  <1>1. worker.pc = "hooks" /\ worker.todo # {}  BY DEF Tenant!CallHook
  <1>2. worker \in WorkTx  BY <1>1 DEF TenantInv, TenantTypes, Tenant!Resting
  <1>3. worker.version \in Tenant!Versions /\ worker.todo \subseteq Owners  BY <1>2 DEF WorkTx
  <1> DEFINE k == operation[worker.version].kind
             o == Tenant!NextOwner(k, worker.todo)
  <1>4. worker.version = tenant.version /\ operation[worker.version].state = "pending"
        /\ Owners \ worker.todo \subseteq Tenant!Ran(k, worker.version)
    BY <1>1 DEF TenantInv, TenantWorker
  <1>5. k \in WorkKinds  BY <1>3, <1>4 DEF TenantInv, TenantTypes, TenantOperations, OperationRecord
  <1>6. o \in worker.todo /\ (k = "delete" => \A p \in worker.todo : p <= o)
    BY <1>1, <1>3, LastOwner, FirstOwner DEF Tenant!NextOwner
  <1>7. ran' = ran \cup {<<k, worker.version, o>>} /\ worker' = [worker EXCEPT !.todo = @ \ {o}]
    BY DEF Tenant!CallHook
  <1>8. ASSUME k = "delete", NEW p \in Owners, p > o PROVE p \in Tenant!Ran(k, worker.version)
    <2>1. p \in Int /\ o \in Int
      <3> HIDE DEF k, o
      <3>1. p \in Owners /\ o \in Owners  BY <1>3, <1>6
      <3> QED BY <3>1, TenantAssumption
    <2>2. p \notin worker.todo  BY <1>6, <1>8, <2>1
    <2> QED BY <1>4, <2>2
  <1> HIDE DEF k, o
  <1>9. k = operation[worker.version].kind  BY DEF k
  <1>10. o \in Owners  BY <1>3, <1>6
  <1> QED BY <1>1, <1>2, <1>3, <1>4, <1>5, <1>7, <1>8, <1>9, <1>10
\* What is recorded for a version stays recorded with its kind.
LEMMA OperationsFollow ==
    ASSUME TenantInv, operation' \in [Tenant!Versions -> OperationRecord], tenant'.version \in 0..MaxTenantVersion,
           tenant'.version >= tenant.version, UNCHANGED ran,
           \A v \in Tenant!Versions :
             \/ operation'[v] = operation[v]
             \/
                /\ operation[v].state = "pending" /\ operation'[v].kind = operation[v].kind
                /\ operation'[v].state \in {"completed", "skipped"}
                /\ operation'[v].state = "completed" => Tenant!Ran(operation[v].kind, v) = Owners
             \/
                /\ v = tenant.version + 1 /\ tenant'.version = v
                /\ operation'[v].kind \in WorkKinds /\ operation'[v].state = "pending"
                /\ operation'[v].kind = "delete" => Tenant!ExportDone(tenant.version)
    PROVE  TenantOperations'
  <1>0. \A k, v : Tenant!Ran(k, v)' = Tenant!Ran(k, v)  BY DEF Tenant!Ran
  <1>2. tenant.version \in 0..MaxTenantVersion /\ operation \in [Tenant!Versions -> OperationRecord]
    BY DEF TenantInv, TenantTypes
  <1>1. ASSUME NEW u \in Tenant!Versions, operation[u].state = "completed"
        PROVE  operation'[u] = operation[u]
    <2>1. operation[u].kind # "none" /\ ~ (u > tenant.version)  BY <1>1 DEF TenantInv, TenantOperations
    <2>2. u # tenant.version + 1  BY <1>2, <2>1 DEF Tenant!Versions
    <2> QED BY <1>1, <2>2
  <1>3. ASSUME NEW v \in Tenant!Versions
        PROVE
            /\ v > tenant'.version => operation'[v].kind = "none"
            /\ operation'[v].kind = "none" <=> operation'[v].state = "none"
            /\ operation'[v].kind = "delete" => v > 1 /\ Tenant!ExportDone(v - 1)'
            /\ operation'[v].state = "completed" => Tenant!Ran(operation[v].kind, v)' = Owners
    <2>0.
        /\ v > tenant.version => operation[v].kind = "none"
        /\ operation[v].kind = "none" <=> operation[v].state = "none"
        /\ operation[v].kind = "delete" => v > 1 /\ Tenant!ExportDone(v - 1)
        /\ operation[v].state = "completed" => Tenant!Ran(operation[v].kind, v) = Owners
      BY DEF TenantInv, TenantOperations
    <2>4. Tenant!ExportDone(v - 1) => Tenant!ExportDone(v - 1)'  BY <1>1 DEF Tenant!ExportDone
    <2>5. v > tenant'.version => v > tenant.version  BY <1>2 DEF Tenant!Versions
    <2>1. CASE operation'[v] = operation[v]
      <3>1. Tenant!Ran(operation[v].kind, v)' = Tenant!Ran(operation[v].kind, v)  BY <2>1 DEF Tenant!Ran
      <3> QED BY <2>0, <2>1, <2>4, <2>5, <3>1
    <2>2. CASE
               /\ operation[v].state = "pending" /\ operation'[v].kind = operation[v].kind
               /\ operation'[v].state \in {"completed", "skipped"}
               /\ operation'[v].state = "completed" => Tenant!Ran(operation[v].kind, v) = Owners
      <3>1. Tenant!Ran(operation[v].kind, v)' = Tenant!Ran(operation[v].kind, v)  BY <2>2 DEF Tenant!Ran
      <3> QED BY <2>0, <2>2, <2>4, <2>5, <3>1
    <2>3. CASE
               /\ v = tenant.version + 1 /\ tenant'.version = v
               /\ operation'[v].kind \in WorkKinds /\ operation'[v].state = "pending"
               /\ operation'[v].kind = "delete" => Tenant!ExportDone(tenant.version)
      <3>1. Tenant!ExportDone(tenant.version) => tenant.version >= 1
        BY TenantAssumption DEF Tenant!ExportDone, Tenant!Versions
      <3>2. v - 1 = tenant.version  BY <1>2, <2>3, TenantAssumption
      <3> QED BY <1>2, <2>3, <2>4, <3>1, <3>2, TenantAssumption DEF WorkKinds
    <2> QED BY <2>1, <2>2, <2>3
  <1>4. ASSUME NEW call \in ran' PROVE operation'[call[2]].kind = call[1]
    <2>1. call \in ran /\ call[2] \in Tenant!Versions /\ call[1] \in WorkKinds /\ operation[call[2]].kind = call[1]
      BY DEF TenantInv, TenantTypes, TenantOperations
    <2>2. operation[call[2]].kind # "none" /\ ~ (call[2] > tenant.version)
      BY <2>1 DEF TenantInv, TenantOperations, WorkKinds
    <2>3. call[2] # tenant.version + 1  BY <1>2, <2>1, <2>2, TenantAssumption DEF Tenant!Versions
    <2> QED BY <2>1, <2>3
  <1>5. \A v \in Tenant!Versions : \A o \in Tenant!Ran("delete", v) : {p \in Owners : p > o} \subseteq Tenant!Ran("delete", v)
    BY DEF TenantInv, TenantOperations
  <1>6. ASSUME NEW v \in Tenant!Versions, NEW o \in Tenant!Ran("delete", v)'
        PROVE  {p \in Owners : p > o} \subseteq Tenant!Ran("delete", v)'
    BY <1>5 DEF Tenant!Ran
  <1> QED BY <1>3, <1>4, <1>6 DEF TenantOperations

LEMMA TransitionKeeps == TenantInv /\ Tenant!Transition => TenantInv'
  <1> SUFFICES ASSUME TenantInv, Tenant!Transition PROVE TenantInv'  OBVIOUS
  <1>1. ~Tenant!TenantShared /\ worker.pc = "idle" /\ tenant.version < MaxTenantVersion
    BY DEF Tenant!Transition, Tenant!TenantLocked
  <1>2. UNCHANGED <<worker, ran, directory, login, session, check>>  BY DEF Tenant!Transition
  <1>3. PICK to \in Tenant!Transitions[tenant.status] :
           LET kind == Tenant!WorkFor(tenant.status, to)
               version == tenant.version + 1 IN
           /\ kind = "delete" => Tenant!ExportDone(tenant.version)
           /\ tenant' = [status |-> to, version |-> version]
           /\ operation' = IF kind = "none" THEN operation
                           ELSE [operation EXCEPT ![version] = [kind |-> kind, state |-> "pending"]]
    BY DEF Tenant!Transition
  <1> DEFINE kind == Tenant!WorkFor(tenant.status, to)
             version == tenant.version + 1
  <1>4. tenant.status \in DOMAIN Tenant!Transitions /\ tenant.version \in 0..MaxTenantVersion
        /\ operation \in [Tenant!Versions -> OperationRecord]
    BY DEF TenantInv, TenantTypes
  <1>5. to \in DOMAIN Tenant!Transitions  BY <1>4 DEF Tenant!Transitions
  <1>6. kind \in WorkKinds \cup {"none"}  BY DEF Tenant!WorkFor, WorkKinds
  <1>7. version \in Tenant!Versions /\ version \in 0..MaxTenantVersion
    BY <1>1, <1>4, TenantAssumption DEF Tenant!Versions
  <1>8. tenant' = [status |-> to, version |-> version] /\ (kind = "delete" => Tenant!ExportDone(tenant.version))
        /\ operation' = IF kind = "none" THEN operation
                        ELSE [operation EXCEPT ![version] = [kind |-> kind, state |-> "pending"]]
    BY <1>3
  <1>9. version >= tenant.version /\ version = tenant.version + 1  BY <1>4
  <1> HIDE DEF kind, version
  <1>10. tenant' \in [status : DOMAIN Tenant!Transitions, version : 0..MaxTenantVersion]  BY <1>5, <1>7, <1>8
  <1>11. operation' \in [Tenant!Versions -> OperationRecord]  BY <1>4, <1>6, <1>7, <1>8 DEF OperationRecord
  <1>12. TenantTypes'  BY <1>2, <1>10, <1>11 DEF TenantInv, TenantTypes
  <1>13. TenantOperations'
    <2>1. tenant'.version = version  BY <1>8
    <2>2. ASSUME NEW v \in Tenant!Versions
          PROVE
              \/ operation'[v] = operation[v]
              \/
                 /\ v = tenant.version + 1 /\ tenant'.version = v
                 /\ operation'[v].kind \in WorkKinds /\ operation'[v].state = "pending"
                 /\ operation'[v].kind = "delete" => Tenant!ExportDone(tenant.version)
      <3>1. CASE kind = "none" \/ v # version  BY <1>4, <1>8, <3>1
      <3>2. CASE kind # "none" /\ v = version
        <4>1. operation'[v] = [kind |-> kind, state |-> "pending"]  BY <1>4, <1>7, <1>8, <3>2
        <4> QED BY <1>6, <1>8, <1>9, <2>1, <3>2, <4>1
      <3> QED BY <3>1, <3>2
    <2> QED BY <1>2, <1>4, <1>7, <1>9, <1>11, <2>1, <2>2, OperationsFollow
  <1>14. TenantWorker' /\ TenantLogin' /\ TenantCheck'
    BY <1>1, <1>2 DEF TenantInv, TenantWorker, TenantLogin, TenantCheck, Tenant!TenantShared, Tenant!ProviderShared,
       Tenant!MemberShared, Tenant!PolicyShared
  <1> QED BY <1>12, <1>13, <1>14 DEF TenantInv

LEMMA ProvisionKeeps == TenantInv /\ Tenant!Provision => TenantInv'
  <1> SUFFICES ASSUME TenantInv, Tenant!Provision PROVE TenantInv'  OBVIOUS
  <1>1. tenant.status = "none" /\ tenant' = [tenant EXCEPT !.status = "requested"]
        /\ UNCHANGED <<operation, worker, ran, directory, login, session, check>>
    BY DEF Tenant!Provision
  <1>2. tenant'.version = tenant.version /\ tenant' \in [status : DOMAIN Tenant!Transitions, version : 0..MaxTenantVersion]
    BY <1>1 DEF TenantInv, TenantTypes, Tenant!Transitions
  <1>3. TenantTypes'  BY <1>1, <1>2 DEF TenantInv, TenantTypes
  <1>4. TenantOperations'
    <2>1. tenant.version \in 0..MaxTenantVersion /\ operation' \in [Tenant!Versions -> OperationRecord]
      BY <1>1 DEF TenantInv, TenantTypes
    <2> QED BY <1>1, <1>2, <2>1, OperationsFollow
  <1>5. TenantWorker' /\ TenantCheck'  BY <1>1, <1>2 DEF TenantInv, TenantWorker, TenantCheck, Tenant!Ran
  <1>6. TenantLogin'
    BY <1>1 DEF TenantInv, TenantLogin, Tenant!TenantShared, Tenant!ProviderShared, Tenant!MemberShared, Tenant!PolicyShared
  <1> QED BY <1>3, <1>4, <1>5, <1>6 DEF TenantInv

LEMMA DeliverKeeps == ASSUME TenantInv, NEW v \in Tenant!Versions, Tenant!Deliver(v) PROVE TenantInv'
  <1>1. worker.pc = "idle" /\ operation[v].state = "pending"
        /\ UNCHANGED <<tenant, ran, directory, login, session, check>>
    BY DEF Tenant!Deliver
  <1>2. operation \in [Tenant!Versions -> OperationRecord] /\ tenant.version \in 0..MaxTenantVersion
    BY DEF TenantInv, TenantTypes
  <1>3. TenantLogin' /\ TenantCheck'
    BY <1>1 DEF TenantInv, TenantLogin, TenantCheck, Tenant!TenantShared, Tenant!ProviderShared, Tenant!MemberShared, Tenant!PolicyShared
  <1>4. CASE Tenant!Stale(v)
    <2>1. operation' = [operation EXCEPT ![v].state = "skipped"] /\ UNCHANGED worker
      BY <1>4 DEF Tenant!Deliver, Tenant!Settle
    <2>2. operation' \in [Tenant!Versions -> OperationRecord]  BY <1>2, <2>1 DEF OperationRecord
    <2>3. \A u \in Tenant!Versions :
            \/ operation'[u] = operation[u]
            \/
               /\ operation[u].state = "pending" /\ operation'[u].kind = operation[u].kind
               /\ operation'[u].state = "skipped"
      BY <1>1, <1>2, <2>1 DEF OperationRecord
    <2>4. TenantOperations'  BY <1>1, <1>2, <2>2, <2>3, OperationsFollow
    <2>5. TenantTypes'  BY <1>1, <2>1, <2>2 DEF TenantInv, TenantTypes
    <2>6. TenantWorker'  BY <1>1, <2>1 DEF TenantWorker
    <2> QED BY <1>3, <2>4, <2>5, <2>6 DEF TenantInv
  <1>5. CASE ~ Tenant!Stale(v)
    <2>1. worker' = [pc |-> "hooks", version |-> v, todo |-> Owners] /\ UNCHANGED operation
      BY <1>5 DEF Tenant!Deliver
    <2>2. tenant.version = v  BY <1>5 DEF Tenant!Stale
    <2>3. TenantTypes'  BY <1>1, <2>1 DEF TenantInv, TenantTypes, WorkTx
    <2>4. TenantOperations'  BY <1>1, <1>2, <2>1, OperationsFollow
    <2>5. TenantWorker'  BY <1>1, <2>1, <2>2 DEF TenantWorker
    <2> QED BY <1>3, <2>3, <2>4, <2>5 DEF TenantInv
  <1> QED BY <1>4, <1>5

LEMMA CallHookKeeps == TenantInv /\ Tenant!CallHook => TenantInv'
  <1> SUFFICES ASSUME TenantInv, Tenant!CallHook PROVE TenantInv'  OBVIOUS
  <1>1. PICK k \in WorkKinds, o \in Owners :
             /\ k = operation[worker.version].kind /\ worker.version = tenant.version
             /\ worker.version \in Tenant!Versions /\ worker.pc = "hooks" /\ worker \in WorkTx
             /\ ran' = ran \cup {<<k, worker.version, o>>}
             /\ worker' = [worker EXCEPT !.todo = @ \ {o}]
             /\ k = "delete" => {p \in Owners : p > o} \subseteq Tenant!Ran(k, worker.version)
    BY HookRuns
  <1>2. UNCHANGED <<tenant, operation, directory, login, session, check>>  BY DEF Tenant!CallHook
  <1>3. worker' \in WorkTx /\ worker'.version = worker.version /\ worker'.todo = worker.todo \ {o}
    BY <1>1 DEF WorkTx
  <1>4. TenantTypes'  BY <1>1, <1>2, <1>3 DEF TenantInv, TenantTypes
  <1>5. \A j, v : Tenant!Ran(j, v) \subseteq Tenant!Ran(j, v)' /\ (Tenant!Ran(j, v) = Owners => Tenant!Ran(j, v)' = Owners)
    BY <1>1 DEF Tenant!Ran
  <1>6. o \in Tenant!Ran(k, worker.version)'  BY <1>1 DEF Tenant!Ran
  <1>7. \A v : Tenant!ExportDone(v)' = Tenant!ExportDone(v)  BY <1>2 DEF Tenant!ExportDone
  <1>8. TenantOperations'
    <2>1. ASSUME NEW call \in ran' PROVE operation'[call[2]].kind = call[1]
      BY <1>1, <1>2 DEF TenantInv, TenantOperations
    <2>2. ASSUME NEW v \in Tenant!Versions, NEW x \in Tenant!Ran("delete", v)'
          PROVE  {p \in Owners : p > x} \subseteq Tenant!Ran("delete", v)'
      <3>1. CASE x \in Tenant!Ran("delete", v)  BY <1>5, <3>1 DEF TenantInv, TenantOperations
      <3>2. CASE x \notin Tenant!Ran("delete", v)
        <4>1. k = "delete" /\ v = worker.version /\ x = o  BY <1>1, <2>2, <3>2 DEF Tenant!Ran
        <4> QED BY <1>1, <1>5, <4>1
      <3> QED BY <3>1, <3>2
    <2> QED BY <1>2, <1>5, <1>7, <2>1, <2>2 DEF TenantInv, TenantOperations
  <1>9. TenantWorker'
    <2>1. Owners \ worker.todo \subseteq Tenant!Ran(k, worker.version)
          /\ operation[worker.version].state = "pending"
      BY <1>1 DEF TenantInv, TenantWorker
    <2>2. Owners \ worker'.todo \subseteq Tenant!Ran(k, worker.version)'  BY <1>3, <1>5, <1>6, <2>1
    <2>3. operation'[worker'.version].kind = k  BY <1>1, <1>2, <1>3
    <2>4. Tenant!Ran(operation[worker.version].kind, worker.version)' = Tenant!Ran(k, worker.version)'
      BY <1>1, <1>2, <1>3 DEF Tenant!Ran
    <2> QED BY <1>1, <1>2, <1>3, <2>1, <2>2, <2>4 DEF TenantWorker
  <1>10. TenantLogin' /\ TenantCheck'
    BY <1>2 DEF TenantInv, TenantLogin, TenantCheck, Tenant!TenantShared, Tenant!ProviderShared, Tenant!MemberShared, Tenant!PolicyShared
  <1> QED BY <1>4, <1>8, <1>9, <1>10 DEF TenantInv

LEMMA HooksEnd == TenantInv /\ (Tenant!HookFails \/ Tenant!HooksDone) => TenantInv'
  <1> SUFFICES ASSUME TenantInv, Tenant!HookFails \/ Tenant!HooksDone PROVE TenantInv'  OBVIOUS
  <1>1. worker.pc = "hooks" /\ worker' = Tenant!Resting /\ UNCHANGED <<tenant, ran, directory, login, session, check>>
    BY DEF Tenant!HookFails, Tenant!HooksDone
  <1>2. operation \in [Tenant!Versions -> OperationRecord] /\ tenant.version \in 0..MaxTenantVersion
        /\ worker \in WorkTx /\ worker.version \in Tenant!Versions
    BY <1>1 DEF TenantInv, TenantTypes, Tenant!Resting, WorkTx
  <1>3. operation' \in [Tenant!Versions -> OperationRecord] /\ TenantOperations'
    <2>1. CASE Tenant!HookFails
      <3>1. UNCHANGED operation  BY <2>1 DEF Tenant!HookFails
      <3> QED BY <1>1, <1>2, <3>1, OperationsFollow
    <2>2. CASE Tenant!HooksDone
      <3>1. operation' = [operation EXCEPT ![worker.version].state = "completed"] /\ worker.todo = {}
        BY <2>2 DEF Tenant!HooksDone, Tenant!Settle
      <3>2. operation' \in [Tenant!Versions -> OperationRecord]  BY <1>2, <3>1 DEF OperationRecord
      <3>3. operation[worker.version].state = "pending"
            /\ Tenant!Ran(operation[worker.version].kind, worker.version) = Owners
        BY <1>1, <3>1 DEF TenantInv, TenantWorker, Tenant!Ran
      <3>4. \A u \in Tenant!Versions :
              \/ operation'[u] = operation[u]
              \/
                 /\ operation[u].state = "pending" /\ operation'[u].kind = operation[u].kind
                 /\ operation'[u].state = "completed" /\ Tenant!Ran(operation[u].kind, u) = Owners
        BY <1>2, <3>1, <3>3 DEF OperationRecord
      <3> QED BY <1>1, <1>2, <3>2, <3>4, OperationsFollow
    <2> QED BY <2>1, <2>2
  <1>4. TenantTypes'  BY <1>1, <1>3 DEF TenantInv, TenantTypes
  <1>5. TenantWorker'  BY <1>1 DEF TenantWorker, Tenant!Resting
  <1>6. TenantLogin' /\ TenantCheck'
    BY <1>1 DEF TenantInv, TenantLogin, TenantCheck, Tenant!TenantShared, Tenant!ProviderShared, Tenant!MemberShared, Tenant!PolicyShared
  <1> QED BY <1>3, <1>4, <1>5, <1>6 DEF TenantInv

\* Steps of the directory, a login or a session leave the lifecycle alone.
LEMMA LifecycleStays ==
    ASSUME TenantInv, UNCHANGED <<tenant, operation, worker, ran>>,
           directory' \in DirectoryRecord, login' \in {Tenant!Resting} \cup LoginTx,
           session' \in {"none", "active", "revoked"}, check' \in CheckTx,
           TenantLogin', TenantCheck'
    PROVE  TenantInv'
  <1>1. TenantTypes'  BY DEF TenantInv, TenantTypes
  <1>2. TenantOperations'  BY DEF TenantInv, TenantOperations, Tenant!Ran, Tenant!ExportDone
  <1>3. TenantWorker'  BY DEF TenantInv, TenantWorker, Tenant!Ran
  <1> QED BY <1>1, <1>2, <1>3 DEF TenantInv

LEMMA DirectoryStepsKeep ==
    TenantInv /\ (Tenant!CreateUser \/ Tenant!MapExternal \/ Tenant!GrantMembership \/ Tenant!RevokeMembership \/ Tenant!MembershipExpires
                  \/ Tenant!ConfigureProvider \/ Tenant!SetMFAPolicy) => TenantInv'
  <1> SUFFICES ASSUME TenantInv,
                      Tenant!CreateUser \/ Tenant!MapExternal \/ Tenant!GrantMembership \/ Tenant!RevokeMembership \/ Tenant!MembershipExpires
                      \/ Tenant!ConfigureProvider \/ Tenant!SetMFAPolicy
               PROVE  TenantInv'
    OBVIOUS
  <1>1. UNCHANGED <<tenant, operation, worker, ran, login, session>>
    BY DEF Tenant!CreateUser, Tenant!MapExternal, Tenant!GrantMembership, Tenant!RevokeMembership, Tenant!MembershipExpires,
       Tenant!ConfigureProvider, Tenant!SetMFAPolicy
  <1>2. directory \in DirectoryRecord /\ login \in {Tenant!Resting} \cup LoginTx /\ check \in CheckTx
        /\ session \in {"none", "active", "revoked"}
    BY DEF TenantInv, TenantTypes
  <1>3. ASSUME directory' \in DirectoryRecord, check' \in CheckTx, TenantCheck',
               Tenant!ProviderShared => directory'.provider = directory.provider,
               Tenant!MemberShared => directory'.member \notin {"none", "revoked"},
               Tenant!PolicyShared => directory'.policy = directory.policy
        PROVE  TenantInv'
    <2>1. TenantLogin'
      BY <1>1, <1>3 DEF TenantInv, TenantLogin, Tenant!TenantShared, Tenant!ProviderShared, Tenant!MemberShared, Tenant!PolicyShared
    <2> QED BY <1>1, <1>2, <1>3, <2>1, LifecycleStays
  <1>4. Tenant!MemberShared => directory.member \notin {"none", "revoked"}  BY DEF TenantInv, TenantLogin
  <1>5. UNCHANGED check /\ (directory'.member = "active" => directory.member = "active") => TenantCheck'
    BY DEF TenantInv, TenantCheck
  <1>6. CASE Tenant!CreateUser
    <2>1. PICK kind \in {"user", "break_glass"} : directory' = [directory EXCEPT !.user = kind]
      BY <1>6 DEF Tenant!CreateUser
    <2>2. directory' \in DirectoryRecord /\ UNCHANGED check
      BY <1>2, <1>6, <2>1 DEF DirectoryRecord, Tenant!CreateUser
    <2> QED BY <1>2, <1>3, <1>4, <1>5, <2>1, <2>2 DEF DirectoryRecord
  <1>7. CASE Tenant!MapExternal
    <2>1. directory' = [directory EXCEPT !.mapped = TRUE] /\ UNCHANGED check  BY <1>7 DEF Tenant!MapExternal
    <2>2. directory' \in DirectoryRecord  BY <1>2, <2>1 DEF DirectoryRecord
    <2> QED BY <1>2, <1>3, <1>4, <1>5, <2>1, <2>2 DEF DirectoryRecord
  <1>8. CASE Tenant!GrantMembership
    <2>1. directory' = [directory EXCEPT !.member = "active"] /\ check' = [check EXCEPT !.was = TRUE]
          /\ ~ Tenant!MemberShared
      BY <1>8 DEF Tenant!GrantMembership
    <2>2. directory' \in DirectoryRecord  BY <1>2, <2>1 DEF DirectoryRecord
    <2>3. check' \in CheckTx /\ check'.was  BY <1>2, <2>1 DEF CheckTx
    <2>4. TenantCheck'  BY <2>3 DEF TenantCheck
    <2> QED BY <1>2, <1>3, <2>1, <2>2, <2>3, <2>4 DEF DirectoryRecord
  <1>9. CASE Tenant!RevokeMembership
    <2>1. directory' = [directory EXCEPT !.member = "revoked"] /\ UNCHANGED check /\ ~ Tenant!MemberShared
      BY <1>9 DEF Tenant!RevokeMembership
    <2>2. directory' \in DirectoryRecord  BY <1>2, <2>1 DEF DirectoryRecord
    <2> QED BY <1>2, <1>3, <1>5, <2>1, <2>2 DEF DirectoryRecord
  <1>10. CASE Tenant!MembershipExpires
    <2>1. directory' = [directory EXCEPT !.member = "expired"] /\ UNCHANGED check
      BY <1>10 DEF Tenant!MembershipExpires
    <2>2. directory' \in DirectoryRecord  BY <1>2, <2>1 DEF DirectoryRecord
    <2> QED BY <1>2, <1>3, <1>5, <2>1, <2>2 DEF DirectoryRecord
  <1>11. CASE Tenant!ConfigureProvider
    <2>1. PICK c \in 0..MaxConfigs : directory' = [directory EXCEPT !.provider = c]
      BY <1>11 DEF Tenant!ConfigureProvider
    <2>2. directory' \in DirectoryRecord /\ UNCHANGED check /\ ~ Tenant!ProviderShared
      BY <1>2, <1>11, <2>1 DEF DirectoryRecord, Tenant!ConfigureProvider
    <2> QED BY <1>2, <1>3, <1>4, <1>5, <2>1, <2>2 DEF DirectoryRecord
  <1>12. CASE Tenant!SetMFAPolicy
    <2>1. PICK strength \in Tenant!Strengths : directory' = [directory EXCEPT !.policy = strength]
      BY <1>12 DEF Tenant!SetMFAPolicy
    <2>2. directory' \in DirectoryRecord /\ UNCHANGED check /\ ~ Tenant!PolicyShared
      BY <1>2, <1>12, <2>1 DEF DirectoryRecord, Tenant!SetMFAPolicy
    <2> QED BY <1>2, <1>3, <1>4, <1>5, <2>1, <2>2 DEF DirectoryRecord
  <1> QED BY <1>6, <1>7, <1>8, <1>9, <1>10, <1>11, <1>12

\* Each read of a login's second transaction holds while its row is shared.
LEMMA LoginStepsKeep == TenantInv /\ (Tenant!ReadProvider \/ Tenant!Resolve) => TenantInv'
  <1> SUFFICES ASSUME TenantInv, Tenant!ReadProvider \/ Tenant!Resolve PROVE TenantInv'  OBVIOUS
  <1>1. UNCHANGED <<tenant, operation, worker, ran, directory, session, check>>
    BY DEF Tenant!ReadProvider, Tenant!Resolve, Tenant!VerifyToken, Tenant!RequireActive, Tenant!RereadProvider, Tenant!ReadMembership, Tenant!ReadPolicy,
       Tenant!BindPrincipal, Tenant!Unlogged
  <1>2. directory \in DirectoryRecord /\ login \in {Tenant!Resting} \cup LoginTx /\ check \in CheckTx
        /\ session \in {"none", "active", "revoked"}
    BY DEF TenantInv, TenantTypes
  <1>3. TenantCheck'  BY <1>1 DEF TenantInv, TenantCheck
  <1>4. ASSUME login' \in {Tenant!Resting} \cup LoginTx, TenantLogin' PROVE TenantInv'
    BY <1>1, <1>2, <1>3, <1>4, LifecycleStays
  <1>5. CASE login' = Tenant!Resting
    <2>1. TenantLogin'
      BY <1>5 DEF TenantLogin, Tenant!Resting, Tenant!TenantShared, Tenant!ProviderShared, Tenant!MemberShared, Tenant!PolicyShared
    <2> QED BY <1>4, <1>5, <2>1
  <1>6. CASE Tenant!ReadProvider
    <2>1. PICK strength \in Tenant!Strengths :
             login' = [pc |-> "verify", provider |-> directory.provider, strength |-> strength,
                       policy |-> "none"]
      BY <1>6 DEF Tenant!ReadProvider
    <2>2. login' \in LoginTx  BY <1>2, <2>1 DEF LoginTx, DirectoryRecord
    <2>3. TenantLogin'
      BY <2>1 DEF TenantLogin, Tenant!TenantShared, Tenant!ProviderShared, Tenant!MemberShared, Tenant!PolicyShared
    <2> QED BY <1>4, <2>2, <2>3
  <1>7. ASSUME Tenant!Resolve, login' # Tenant!Resting PROVE TenantInv'
    <2>1. login.pc # "idle"
      BY <1>7 DEF Tenant!Resolve, Tenant!VerifyToken, Tenant!RequireActive, Tenant!RereadProvider, Tenant!ReadMembership, Tenant!ReadPolicy, Tenant!BindPrincipal
    <2>2. login \in LoginTx  BY <1>2, <2>1 DEF Tenant!Resting
    <2>3. CASE Tenant!VerifyToken \/ Tenant!RequireActive \/ Tenant!RereadProvider \/ Tenant!ReadMembership \/ Tenant!BindPrincipal
      <3>1. PICK next \in {"tenant", "provider", "identity", "policy", "admitted"} :
              /\ login' = [login EXCEPT !.pc = next]
              /\ next = "tenant" => login.pc = "verify"
              /\ next = "provider" => login.pc = "tenant" /\ tenant.status = "active"
              /\ next = "identity" => login.pc = "provider" /\ directory.provider = login.provider
              /\ next = "policy" => login.pc = "identity" /\ directory.member = "active"
              /\ next = "admitted" => login.pc = "commit"
        BY <1>7, <2>3 DEF Tenant!VerifyToken, Tenant!RequireActive, Tenant!RereadProvider, Tenant!ReadMembership, Tenant!BindPrincipal,
           Tenant!Require, Tenant!SameProvider
      <3>2. login' \in LoginTx /\ login'.pc = next /\ login'.provider = login.provider
            /\ login'.policy = login.policy
        BY <2>2, <3>1 DEF LoginTx
      <3>3. TenantLogin'
        BY <1>1, <3>1, <3>2 DEF TenantInv, TenantLogin, Tenant!TenantShared, Tenant!ProviderShared, Tenant!MemberShared, Tenant!PolicyShared
      <3> QED BY <1>4, <3>2, <3>3
    <2>4. CASE Tenant!ReadPolicy
      <3>1. login.pc = "policy" /\ login' = [login EXCEPT !.pc = "commit", !.policy = directory.policy]
        BY <2>4 DEF Tenant!ReadPolicy
      <3>2. login' \in LoginTx /\ login'.pc = "commit" /\ login'.provider = login.provider
            /\ login'.policy = directory.policy
        BY <1>2, <2>2, <3>1 DEF LoginTx, DirectoryRecord
      <3>3. TenantLogin'
        BY <1>1, <3>1, <3>2 DEF TenantInv, TenantLogin, Tenant!TenantShared, Tenant!ProviderShared, Tenant!MemberShared, Tenant!PolicyShared
      <3> QED BY <1>4, <3>2, <3>3
    <2> QED BY <1>7, <2>3, <2>4 DEF Tenant!Resolve
  <1> QED BY <1>5, <1>6, <1>7

LEMMA SessionStepsKeep ==
    TenantInv /\ (Tenant!StartSession \/ Tenant!InsertSession \/ Tenant!RevokeSession \/ Tenant!ReadSession \/ Tenant!ValidateSession \/ Tenant!Answered)
      => TenantInv'
  <1> SUFFICES ASSUME TenantInv,
                      Tenant!StartSession \/ Tenant!InsertSession \/ Tenant!RevokeSession \/ Tenant!ReadSession \/ Tenant!ValidateSession \/ Tenant!Answered
               PROVE  TenantInv'
    OBVIOUS
  <1>1. UNCHANGED <<tenant, operation, worker, ran, directory, login>>
    BY DEF Tenant!StartSession, Tenant!InsertSession, Tenant!RevokeSession, Tenant!ReadSession, Tenant!ValidateSession, Tenant!Answered, Tenant!Unchecked
  <1>2. directory \in DirectoryRecord /\ login \in {Tenant!Resting} \cup LoginTx /\ check \in CheckTx
        /\ session \in {"none", "active", "revoked"}
    BY DEF TenantInv, TenantTypes
  <1>3. TenantLogin'
    BY <1>1 DEF TenantInv, TenantLogin, Tenant!TenantShared, Tenant!ProviderShared, Tenant!MemberShared, Tenant!PolicyShared
  <1>4. session' \in {"none", "active", "revoked"}
    BY <1>2 DEF Tenant!StartSession, Tenant!InsertSession, Tenant!RevokeSession, Tenant!ReadSession, Tenant!ValidateSession, Tenant!Answered
  <1>5. check' \in CheckTx /\ TenantCheck'
    <2>1. CASE check' = Tenant!NoCheck  BY <2>1 DEF Tenant!NoCheck, CheckTx, TenantCheck
    <2>2. CASE Tenant!StartSession
      <3>1. check' = [pc |-> "start", was |-> FALSE]  BY <2>2 DEF Tenant!StartSession, Tenant!NoCheck
      <3> QED BY <3>1 DEF CheckTx, TenantCheck
    <2>3. CASE Tenant!RevokeSession  BY <1>1, <1>2, <2>3 DEF Tenant!RevokeSession, TenantInv, TenantCheck
    <2>4. CASE Tenant!ReadSession
      <3>1. check' = [pc |-> "member", was |-> directory.member = "active"]  BY <2>4 DEF Tenant!ReadSession
      <3>2. PICK held \in BOOLEAN : held <=> directory.member = "active"  OBVIOUS
      <3>3. check' = [pc |-> "member", was |-> held]
        <4>1. held = (directory.member = "active")  BY <3>2
        <4> QED BY <3>1, <4>1
      <3>4. check' \in CheckTx /\ check'.pc = "member" /\ check'.was = held  BY <3>3 DEF CheckTx
      <3> QED BY <1>1, <3>2, <3>4 DEF TenantCheck
    <2>5. ASSUME Tenant!ValidateSession, check' # Tenant!NoCheck PROVE check' \in CheckTx /\ TenantCheck'
      <3>1. check.pc = "member" /\ directory.member = "active" /\ check' = [check EXCEPT !.pc = "valid"]
        BY <2>5 DEF Tenant!ValidateSession, Tenant!Member
      <3>2. check' \in CheckTx /\ check'.pc = "valid" /\ check'.was = check.was  BY <1>2, <3>1 DEF CheckTx
      <3> QED BY <3>1, <3>2 DEF TenantInv, TenantCheck
    <2> QED BY <2>1, <2>2, <2>3, <2>4, <2>5 DEF Tenant!InsertSession, Tenant!Answered
  <1> QED BY <1>1, <1>2, <1>3, <1>4, <1>5, LifecycleStays

LEMMA TenantStep == TenantInv /\ [Tenant!Next]_Tenant!vars => TenantInv'
  <1> SUFFICES ASSUME TenantInv, [Tenant!Next]_Tenant!vars PROVE TenantInv'  OBVIOUS
  <1>1. CASE UNCHANGED Tenant!vars
    <2>1. UNCHANGED <<tenant, operation, worker, ran>> /\ UNCHANGED <<directory, login, session, check>>
      BY <1>1 DEF Tenant!vars
    <2>2. TenantLogin' /\ TenantCheck'
      BY <2>1 DEF TenantInv, TenantLogin, TenantCheck, Tenant!TenantShared, Tenant!ProviderShared, Tenant!MemberShared, Tenant!PolicyShared
    <2>3. directory \in DirectoryRecord /\ login \in {Tenant!Resting} \cup LoginTx /\ check \in CheckTx
          /\ session \in {"none", "active", "revoked"}
      BY DEF TenantInv, TenantTypes
    <2> QED BY <2>1, <2>2, <2>3, LifecycleStays
  <1>2. CASE Tenant!Next
    BY <1>2, ProvisionKeeps, TransitionKeeps, DeliverKeeps, CallHookKeeps, HooksEnd, DirectoryStepsKeep,
       LoginStepsKeep, SessionStepsKeep DEF Tenant!Next, Tenant!Lifecycle
  <1> QED BY <1>1, <1>2

LEMMA TenantFollows == TenantInv => Tenant!TenantSound
  <1> SUFFICES ASSUME TenantInv PROVE Tenant!TenantSound  OBVIOUS
  <1>1. Tenant!TypeOK  BY DEF TenantInv, TenantTypes, OperationRecord, DirectoryRecord, WorkKinds, Tenant!TypeOK
  <1>2. ASSUME NEW v \in Tenant!Versions, Tenant!Ran("delete", v) # {}
        PROVE  v > 1 /\ Tenant!Ran("export", v - 1) = Owners
    <2>1. PICK o \in Owners : <<"delete", v, o>> \in ran  BY <1>2 DEF Tenant!Ran
    <2>2. operation[v].kind = "delete"
      <3>1. \A call \in ran : operation[call[2]].kind = call[1]  BY DEF TenantInv, TenantOperations
      <3> QED BY <2>1, <3>1
    <2>3. v > 1 /\ Tenant!ExportDone(v - 1)  BY <2>2 DEF TenantInv, TenantOperations
    <2>4. v - 1 \in Tenant!Versions /\ operation[v - 1].kind = "export" /\ operation[v - 1].state = "completed"
      BY <2>3 DEF Tenant!ExportDone
    <2>5. \A u \in Tenant!Versions : operation[u].state = "completed" => Tenant!Ran(operation[u].kind, u) = Owners
      BY DEF TenantInv, TenantOperations
    <2> QED BY <2>3, <2>4, <2>5
  <1>3. \A v \in Tenant!Versions : \A o \in Tenant!Ran("delete", v) : {p \in Owners : p > o} \subseteq Tenant!Ran("delete", v)
    BY DEF TenantInv, TenantOperations
  <1>4. \A v \in Tenant!Versions : operation[v].state = "completed" => Tenant!Ran(operation[v].kind, v) = Owners
    BY DEF TenantInv, TenantOperations
  <1>5. check.pc = "valid" => check.was  BY DEF TenantInv, TenantCheck
  <1> QED BY <1>1, <1>2, <1>3, <1>4, <1>5 DEF Tenant!TenantSound

LEMMA TenantAdmits == TenantInv /\ [Tenant!Next]_Tenant!vars => Tenant!Admitted
  <1> SUFFICES ASSUME TenantInv, [Tenant!Next]_Tenant!vars PROVE Tenant!Admitted  OBVIOUS
  <1>1. ASSUME login.pc = "commit"
        PROVE
            /\ tenant.status = "active" /\ directory.provider = login.provider
            /\ directory.member \notin {"none", "revoked"}
            /\ login.policy # "none" => directory.policy = login.policy
    BY <1>1 DEF TenantInv, TenantLogin, Tenant!TenantShared, Tenant!ProviderShared, Tenant!MemberShared, Tenant!PolicyShared
  <1>2. ASSUME NEW call \in ran' \ ran PROVE call[2] = tenant.version
    <2>1. CASE Tenant!CallHook  BY <1>2, <2>1, HookRuns
    <2>2. CASE ~ Tenant!CallHook
      <3>1. ran' = ran
        BY <2>2 DEF Tenant!Next, Tenant!vars, Tenant!Lifecycle, Tenant!Resolve, Tenant!Provision, Tenant!Transition, Tenant!HookFails, Tenant!Deliver, Tenant!HooksDone,
           Tenant!CreateUser, Tenant!MapExternal, Tenant!GrantMembership, Tenant!RevokeMembership, Tenant!MembershipExpires, Tenant!ConfigureProvider,
           Tenant!SetMFAPolicy, Tenant!ReadProvider, Tenant!VerifyToken, Tenant!RequireActive, Tenant!RereadProvider, Tenant!ReadMembership, Tenant!ReadPolicy,
           Tenant!BindPrincipal, Tenant!Unlogged, Tenant!StartSession, Tenant!InsertSession, Tenant!RevokeSession, Tenant!ReadSession, Tenant!ValidateSession,
           Tenant!Answered, Tenant!Unchecked
      <3> QED BY <1>2, <3>1
    <2> QED BY <2>1, <2>2
  <1> QED BY <1>1, <1>2 DEF Tenant!Admitted

------------------------
(* A behaviour stays in the scene it begins in. *)

LEMMA AuditScene == MCSpec => [](scene = "audit" => AuditInv)
  <1>1. MCInit => (scene = "audit" => AuditInv)  BY AuditInitially DEF MCInit
  <1>2. (scene = "audit" => AuditInv) /\ [MCNext]_allVars => (scene = "audit" => AuditInv)'
    <2> SUFFICES ASSUME scene = "audit" => AuditInv, [MCNext]_allVars, scene' = "audit"
                 PROVE  AuditInv'
      OBVIOUS
    <2>1. scene = "audit"  BY DEF MCNext, allVars
    <2>2. [Audit!Next]_Audit!vars  BY <2>1 DEF MCNext, allVars, auditVars, Audit!vars
    <2> QED BY <2>1, <2>2, AuditStep
  <1> QED BY <1>1, <1>2, PTL DEF MCSpec

LEMMA PartyScene == MCSpec => [](scene = "party" => PartyInv)
  <1>1. MCInit => (scene = "party" => PartyInv)  BY PartyInitially DEF MCInit
  <1>2. (scene = "party" => PartyInv) /\ [MCNext]_allVars => (scene = "party" => PartyInv)'
    <2> SUFFICES ASSUME scene = "party" => PartyInv, [MCNext]_allVars, scene' = "party"
                 PROVE  PartyInv'
      OBVIOUS
    <2>1. scene = "party"  BY DEF MCNext, allVars
    <2>2. [Party!Next]_Party!vars  BY <2>1 DEF MCNext, allVars, partyVars, Party!vars
    <2> QED BY <2>1, <2>2, PartyStep
  <1> QED BY <1>1, <1>2, PTL DEF MCSpec

LEMMA ClassScene == MCSpec => [](scene = "class" => ClassInv)
  <1>1. MCInit => (scene = "class" => ClassInv)  BY ClassInitially DEF MCInit
  <1>2. (scene = "class" => ClassInv) /\ [MCNext]_allVars => (scene = "class" => ClassInv)'
    <2> SUFFICES ASSUME scene = "class" => ClassInv, [MCNext]_allVars, scene' = "class"
                 PROVE  ClassInv'
      OBVIOUS
    <2>1. scene = "class"  BY DEF MCNext, allVars
    <2>2. [Class!Next]_Class!vars  BY <2>1 DEF MCNext, allVars, classVars, Class!vars
    <2> QED BY <2>1, <2>2, ClassStep
  <1> QED BY <1>1, <1>2, PTL DEF MCSpec

LEMMA EntityScene == MCSpec => [](scene = "entities" => EntityInv)
  <1>1. MCInit => (scene = "entities" => EntityInv)  BY EntityInitially DEF MCInit
  <1>2. (scene = "entities" => EntityInv) /\ [MCNext]_allVars => (scene = "entities" => EntityInv)'
    <2> SUFFICES ASSUME scene = "entities" => EntityInv, [MCNext]_allVars, scene' = "entities"
                 PROVE  EntityInv'
      OBVIOUS
    <2>1. scene = "entities"  BY DEF MCNext, allVars
    <2>2. [Entities!Next]_Entities!vars  BY <2>1 DEF MCNext, allVars, entityVars, Entities!vars
    <2> QED BY <2>1, <2>2, EntityStep
  <1> QED BY <1>1, <1>2, PTL DEF MCSpec

LEMMA TenantScene == MCSpec => [](scene = "tenant" => TenantInv)
  <1>1. MCInit => (scene = "tenant" => TenantInv)  BY TenantInitially DEF MCInit
  <1>2. (scene = "tenant" => TenantInv) /\ [MCNext]_allVars => (scene = "tenant" => TenantInv)'
    <2> SUFFICES ASSUME scene = "tenant" => TenantInv, [MCNext]_allVars, scene' = "tenant"
                 PROVE  TenantInv'
      OBVIOUS
    <2>1. scene = "tenant"  BY DEF MCNext, allVars
    <2>2. [Tenant!Next]_Tenant!vars  BY <2>1 DEF MCNext, allVars, tenantVars, Tenant!vars
    <2> QED BY <2>1, <2>2, TenantStep
  <1> QED BY <1>1, <1>2, PTL DEF MCSpec

------------------------
(* The records. *)

\* However sessions interleave, roll back or repeat and the clock moves: verification finds
\* the audit chain intact and an event projected once; a party number and an external
\* identifier name one party, and readers of pages are shown every row they owe; a code is
\* canonical or the tenant's, and its versions leave no instant out and none ambiguous
\* (AuditModule._append_v3, _insert_party_with_number, PartyModule._load_full_party,
\* classification_version_guard, DataGovernanceModule._set_canonical_overlay_v2).
THEOREM RecordsHold == MCSpec => []RecordsSound
  <1>1. (/\ scene = "audit" => AuditInv
         /\ scene = "party" => PartyInv
         /\ scene = "class" => ClassInv) => RecordsSound
    BY TrailFollows, PartiesFollow, ClassificationFollows DEF RecordsSound
  <1> QED BY <1>1, AuditScene, PartyScene, ClassScene, PTL

\* However commands interleave, neither limit on custom entities is exceeded, every entity is
\* pinned to a revision of its type and a list shows every entity that existed when it
\* began; and whatever fails, nothing is deleted at any owner before the export of the same
\* termination ran at every owner, and an operation is completed only when every hook ran
\* (CustomEntityStore.create, mutate and list, TenantModule._run_lifecycle_hooks).
THEOREM EntitiesHold == MCSpec => []EntitiesSound
  <1>1. (/\ scene = "entities" => EntityInv
         /\ scene = "tenant" => TenantInv) => EntitiesSound
    BY EntitiesFollow, TenantFollows DEF EntitiesSound
  <1> QED BY <1>1, EntityScene, TenantScene, PTL

\* What a transaction read and checked still holds in the tables it commits to: an entity's
\* type is published and its target current, a principal is bound to an active tenant by the
\* provider and membership in force, values change only while their party is active, and a
\* reference carries the classification in force (CustomEntityStore.mutate,
\* OIDCContextResolver._authority, PartyCustomFields._mutate,
\* DataGovernanceModule._tag_sensitive_field_v2).
THEOREM CommitsAreCurrent == MCSpec => CommittedIsCurrent
  <1>1. (/\ scene = "entities" => EntityInv
         /\ scene = "tenant" => TenantInv
         /\ scene = "party" => PartyInv
         /\ scene = "class" => ClassInv) /\ [MCNext]_allVars
        => [/\ scene = "entities" => Entities!WriteIsLive
            /\ scene = "tenant" => Tenant!Admitted
            /\ scene = "party" => Party!ValuesChanged
            /\ scene = "class" => Class!Assigned]_allVars
    <2> SUFFICES ASSUME scene = "entities" => EntityInv, scene = "tenant" => TenantInv,
                        scene = "party" => PartyInv, scene = "class" => ClassInv, MCNext
                 PROVE  /\ scene = "entities" => Entities!WriteIsLive
                        /\ scene = "tenant" => Tenant!Admitted
                        /\ scene = "party" => Party!ValuesChanged
                        /\ scene = "class" => Class!Assigned
      OBVIOUS
    <2>1. scene = "entities" => Entities!Next  BY DEF MCNext
    <2>2. scene = "tenant" => Tenant!Next  BY DEF MCNext
    <2>3. scene = "party" => Party!Next  BY DEF MCNext
    <2>4. scene = "class" => Class!Next  BY DEF MCNext
    <2> QED  BY <2>1, <2>2, <2>3, <2>4, EntityChanges, TenantAdmits, PartyChanges, ReferencesAssigned
  <1> QED  BY <1>1, EntityScene, TenantScene, PartyScene, ClassScene, PTL DEF MCSpec, CommittedIsCurrent

------------------------
(* Rows above a row. *)

\* Lineage of a hierarchy that is not that of the state
Above(h, n) ==
    LET above[m \in 0..MaxNodes] ==
            IF m = 0 \/ h[m].kind = "none" THEN {} ELSE {m} \cup above[h[m].owner] \cup above[h[m].parent]
    IN above[n]

\* The row that the others above n are reached from, 0 at the top
Up(h, n) == IF h[n].parent # 0 THEN h[n].parent ELSE h[n].owner

LEMMA LineageIsAbove == \A n \in 0..MaxNodes : Lineage(n) = Above(node, n)
  BY DEF Lineage, Above, Exists

LEMMA RowFacts ==
    ASSUME NEW h, Hierarchy(h), NEW n \in Nodes
    PROVE  /\ h[n] \in NodeRow \cup {Absent}
           /\ h[n].kind = "none" <=> h[n] = Absent
           /\ h[n].owner \in 0..MaxNodes /\ h[n].parent \in 0..MaxNodes
           /\ h[n] # Absent => h[n].owner < n /\ h[n].parent < n
           /\ h[n].kind \in Kinds \cup {"none"}
  <1>1. h[n] \in NodeRow \cup {Absent}  BY DEF Hierarchy
  <1>2. "none" \notin Kinds  BY DEF Kinds, OwnerKind
  <1>3. CASE h[n] \in NodeRow  BY <1>2, <1>3 DEF NodeRow, Absent, Hierarchy
  <1>4. CASE h[n] = Absent  BY <1>4, OrganizationAssumption DEF Absent, Hierarchy
  <1> QED BY <1>1, <1>3, <1>4

\* The recursion over owners and parents has a solution.
AboveFunction(h, k, f) ==
    /\ f \in [0..k -> SUBSET Nodes]
    /\ \A m \in 0..k : f[m] = IF m = 0 \/ h[m].kind = "none" THEN {}
                              ELSE {m} \cup f[h[m].owner] \cup f[h[m].parent]

LEMMA AboveExists ==
    ASSUME NEW h, Hierarchy(h), NEW k \in 0..MaxNodes
    PROVE  \E f : AboveFunction(h, k, f)
  <1> DEFINE T == {j \in 0..MaxNodes : ~ \E f : AboveFunction(h, j, f)}
  <1> SUFFICES ASSUME T # {} PROVE FALSE  OBVIOUS
  <1>0. MaxNodes \in Nat  BY OrganizationAssumption
  <1>1. PICK j \in T : \A y \in T : j <= y
    <2>1. T \subseteq Nat  BY <1>0
    <2> HIDE DEF T
    <2> QED BY <2>1, LeastNumber
  <1>2. CASE j = 0
    <2>1. AboveFunction(h, 0, [m \in 0..0 |-> {}])  BY DEF AboveFunction
    <2> QED BY <1>2, <2>1
  <1>3. CASE j # 0
    <2>1. j \in Nodes /\ j - 1 \in 0..MaxNodes /\ j - 1 \notin T  BY <1>0, <1>1, <1>3 DEF Nodes
    <2>2. PICK g : AboveFunction(h, j - 1, g)  BY <2>1
    <2> DEFINE new == IF h[j].kind = "none" THEN {} ELSE {j} \cup g[h[j].owner] \cup g[h[j].parent]
               f == [m \in 0..j |-> IF m = j THEN new ELSE g[m]]
    <2>3. h[j].kind # "none" => h[j].owner \in 0..(j - 1) /\ h[j].parent \in 0..(j - 1)  BY <1>0, <2>1, RowFacts
    <2>4. new \in SUBSET Nodes  BY <2>1, <2>2, <2>3 DEF AboveFunction
    <2>5. \A m \in 0..(j - 1) : m \in 0..j /\ m # j  BY <1>0, <2>1
    <2>6. \A m \in 0..j : m # j => m \in 0..(j - 1)  BY <1>0, <2>1
    <2>7. f \in [0..j -> SUBSET Nodes]
      <3>1. \A m \in 0..j : f[m] \in SUBSET Nodes  BY <2>2, <2>4, <2>6 DEF AboveFunction
      <3> QED BY <3>1
    <2>8. ASSUME NEW m \in 0..j
          PROVE  f[m] = IF m = 0 \/ h[m].kind = "none" THEN {}
                        ELSE {m} \cup f[h[m].owner] \cup f[h[m].parent]
      <3>1. CASE m = j
        <4>1. \A i \in 0..(j - 1) : f[i] = g[i]  BY <2>5
        <4> QED BY <3>1, <4>1, <1>3, <2>3
      <3>2. CASE m # j
        <4>1. m \in 0..(j - 1) /\ f[m] = g[m]  BY <3>2, <2>6
        <4>2. CASE m = 0 \/ h[m].kind = "none"  BY <4>1, <4>2, <2>2 DEF AboveFunction
        <4>3. CASE ~ (m = 0 \/ h[m].kind = "none")
          <5>1. m \in Nodes  BY <4>1, <4>3, <2>1, <1>0 DEF Nodes
          <5>2. h[m].owner \in 0..(j - 1) /\ h[m].parent \in 0..(j - 1)
            BY <1>0, <2>1, <4>1, <4>3, <5>1, RowFacts
          <5>3. f[h[m].owner] = g[h[m].owner] /\ f[h[m].parent] = g[h[m].parent]  BY <5>2, <2>5
          <5> QED BY <4>1, <4>3, <5>3, <2>2 DEF AboveFunction
        <4> QED BY <4>2, <4>3
      <3> QED BY <3>1, <3>2
    <2>9. AboveFunction(h, j, f)  BY <2>7, <2>8 DEF AboveFunction
    <2> QED BY <2>9
  <1> QED BY <1>2, <1>3

LEMMA AboveRec ==
    ASSUME NEW h, Hierarchy(h)
    PROVE  /\ Above(h, 0) = {}
           /\ \A n \in Nodes : Above(h, n) \in SUBSET Nodes
           /\ \A n \in Nodes : Above(h, n) = IF h[n].kind = "none" THEN {}
                                 ELSE {n} \cup Above(h, h[n].owner) \cup Above(h, h[n].parent)
  <1>0. MaxNodes \in Nat  BY OrganizationAssumption
  <1>1. PICK f : AboveFunction(h, MaxNodes, f)  BY <1>0, AboveExists
  <1> DEFINE Eq(g) == g = [m \in 0..MaxNodes |-> IF m = 0 \/ h[m].kind = "none" THEN {}
                              ELSE {m} \cup g[h[m].owner] \cup g[h[m].parent]]
             above == CHOOSE g : Eq(g)
  <1>2. Eq(f)  BY <1>1 DEF AboveFunction
  <1>3. PICK a : Eq(a) /\ \A n \in 0..MaxNodes : Above(h, n) = a[n]
    <2>1. Eq(above)  BY <1>2
    <2>2. \A n \in 0..MaxNodes : Above(h, n) = above[n]  BY DEF Above
    <2> HIDE DEF above
    <2> QED BY <2>1, <2>2
  <1>4. \A n \in 0..MaxNodes : Above(h, n) = a[n]  BY <1>3
  <1>5. \A m \in 0..MaxNodes : a[m] = IF m = 0 \/ h[m].kind = "none" THEN {}
                                     ELSE {m} \cup a[h[m].owner] \cup a[h[m].parent]
    BY <1>3
  <1>6. Above(h, 0) = {}
    <2>1. 0 \in 0..MaxNodes  BY <1>0
    <2>2. a[0] = {}  BY <2>1, <1>5
    <2>3. Above(h, 0) = a[0]  BY <1>4, <2>1
    <2> QED BY <2>2, <2>3
  <1>7. ASSUME NEW n \in Nodes
        PROVE  /\ Above(h, n) = a[n] /\ n \in 0..MaxNodes /\ n # 0
               /\ Above(h, h[n].owner) = a[h[n].owner] /\ Above(h, h[n].parent) = a[h[n].parent]
    <2>1. n \in 0..MaxNodes /\ n # 0  BY <1>0 DEF Nodes
    <2>2. h[n].owner \in 0..MaxNodes /\ h[n].parent \in 0..MaxNodes  BY RowFacts
    <2> QED BY <1>4, <2>1, <2>2
  <1>8. ASSUME NEW n \in Nodes
        PROVE  a[n] = IF h[n].kind = "none" THEN {} ELSE {n} \cup a[h[n].owner] \cup a[h[n].parent]
    BY <1>5, <1>7
  <1>9. \A n \in Nodes : a[n] \in SUBSET Nodes
    <2> DEFINE T == {n \in Nodes : a[n] \notin SUBSET Nodes}
    <2> SUFFICES ASSUME T # {} PROVE FALSE  OBVIOUS
    <2>1. T \subseteq Nat  BY <1>0 DEF Nodes
    <2>2. PICK n \in T : \A m \in T : n <= m
      <3> HIDE DEF T
      <3> QED BY <2>1, LeastNumber
    <2>3. h[n].kind # "none"  BY <1>8, <2>2
    <2>4. /\ h[n].owner \in 0..MaxNodes /\ h[n].owner < n
          /\ h[n].parent \in 0..MaxNodes /\ h[n].parent < n
      BY <2>2, <2>3, RowFacts
    <2>5. h[n].owner \notin T /\ h[n].parent \notin T /\ n \in Nat  BY <1>0, <2>1, <2>2, <2>4
    <2>6. a[0] = {}
      <3>1. 0 \in 0..MaxNodes  BY <1>0
      <3> QED BY <3>1, <1>5
    <2>7. a[h[n].owner] \in SUBSET Nodes /\ a[h[n].parent] \in SUBSET Nodes  BY <1>0, <2>4, <2>5, <2>6 DEF Nodes
    <2> QED BY <1>8, <2>2, <2>3, <2>7
  <1>10. ASSUME NEW n \in Nodes
         PROVE  /\ Above(h, n) \in SUBSET Nodes
                /\ Above(h, n) = IF h[n].kind = "none" THEN {}
                                 ELSE {n} \cup Above(h, h[n].owner) \cup Above(h, h[n].parent)
    <2>1. Above(h, n) \in SUBSET Nodes  BY <1>7, <1>9
    <2>2. CASE h[n].kind = "none"  BY <1>7, <1>8, <2>1, <2>2
    <2>3. CASE h[n].kind # "none"
      <3>1. a[n] = {n} \cup a[h[n].owner] \cup a[h[n].parent]  BY <1>8, <2>3
      <3> QED BY <1>7, <2>1, <2>3, <3>1
    <2> QED BY <2>2, <2>3
  <1> QED BY <1>6, <1>10

\* What is not there has no row above it.
LEMMA AboveAbsent ==
    ASSUME NEW h, Hierarchy(h), NEW n \in Nodes
    PROVE  /\ h[n] = Absent <=> Above(h, n) = {}
           /\ h[n] # Absent <=> n \in Above(h, n)
  <1>1. h[n].kind = "none" <=> h[n] = Absent  BY RowFacts
  <1>2. h[n] = Absent => Above(h, n) = {}  BY <1>1, AboveRec
  <1>3. h[n] # Absent => n \in Above(h, n)  BY <1>1, AboveRec
  <1> QED BY <1>2, <1>3

\* What a row fits to is there, before it.
LEMMA FitsFacts ==
    ASSUME NEW h, Hierarchy(h), NEW n \in Nodes, h[n] # Absent
    PROVE  /\ h[n] \in NodeRow /\ n \in Nat
           /\ h[n].owner = 0 <=> h[n].kind = "enterprise_group"
           /\ h[n].owner # 0 => /\ h[n].owner \in Nodes /\ h[h[n].owner] # Absent
                                /\ h[n].owner < n /\ h[h[n].owner].kind = OwnerKind[h[n].kind]
           /\ h[n].parent # 0 => /\ h[n].parent \in Nodes /\ h[h[n].parent] # Absent
                                 /\ h[n].parent < n /\ h[n].kind \in DOMAIN ParentKind
                                 /\ h[h[n].parent].kind = ParentKind[h[n].kind]
                                 /\ h[h[n].parent].owner = h[n].owner
  <1>0. MaxNodes \in Nat  BY OrganizationAssumption
  <1>1. /\ h[n] \in NodeRow \cup {Absent} /\ h[n].owner \in 0..MaxNodes /\ h[n].parent \in 0..MaxNodes
        /\ h[n].owner < n /\ h[n].parent < n
    BY RowFacts
  <1>2. Fits(h, h[n].kind, h[n].owner, h[n].parent) /\ \A m \in 1..n : h[m] # Absent  BY DEF Hierarchy
  <1>3. n \in Nat /\ n \in 1..MaxNodes  BY <1>0 DEF Nodes
  <1>4. h[n].kind \in Kinds  BY <1>1 DEF NodeRow
  <1>5. OwnerKind[h[n].kind] = "nothing" <=> h[n].kind = "enterprise_group"  BY <1>4 DEF Kinds, OwnerKind
  <1>6. \A m \in 0..MaxNodes : m # 0 /\ m < n => m \in Nodes /\ h[m] # Absent  BY <1>0, <1>2, <1>3 DEF Nodes
  <1>7. h[n].owner = 0 <=> h[n].kind = "enterprise_group"  BY <1>2, <1>5 DEF Fits
  <1>8. h[n].owner # 0 => h[h[n].owner].kind = OwnerKind[h[n].kind]  BY <1>2, <1>5, <1>7 DEF Fits
  <1>9. h[n].parent # 0 => /\ h[n].kind \in DOMAIN ParentKind
                           /\ h[h[n].parent].kind = ParentKind[h[n].kind]
                           /\ h[h[n].parent].owner = h[n].owner
    BY <1>2 DEF Fits
  <1> QED BY <1>1, <1>3, <1>6, <1>7, <1>8, <1>9

\* A parent has the same owner, so all rows above are reached by one step up.
LEMMA AboveUp ==
    ASSUME NEW h, Hierarchy(h), NEW n \in Nodes, h[n] # Absent
    PROVE  /\ Above(h, n) = {n} \cup Above(h, Up(h, n))
           /\ Up(h, n) \in 0..MaxNodes /\ Up(h, n) < n
           /\ Up(h, n) # 0 => Up(h, n) \in Nodes /\ h[Up(h, n)] # Absent
  <1>0. h[n].kind # "none" /\ h[n].owner \in 0..MaxNodes /\ h[n].parent \in 0..MaxNodes  BY RowFacts
  <1>1. Above(h, n) = {n} \cup Above(h, h[n].owner) \cup Above(h, h[n].parent)  BY <1>0, AboveRec
  <1>2. Above(h, 0) = {}  BY AboveRec
  <1>3. CASE h[n].parent = 0  BY <1>0, <1>1, <1>2, <1>3, FitsFacts DEF Up
  <1>4. CASE h[n].parent # 0
    <2>1. /\ h[n].parent \in Nodes /\ h[h[n].parent] # Absent /\ h[n].parent < n
          /\ h[h[n].parent].owner = h[n].owner
      BY <1>4, FitsFacts
    <2>2. h[h[n].parent].kind # "none"  BY <2>1, RowFacts
    <2>3. Above(h, h[n].owner) \subseteq Above(h, h[n].parent)  BY <2>1, <2>2, AboveRec
    <2>4. Above(h, n) = {n} \cup Above(h, h[n].parent)  BY <1>1, <2>3
    <2> QED BY <1>0, <1>4, <2>1, <2>4 DEF Up
  <1> QED BY <1>3, <1>4

\* Rows above are there, come before, and have no others above them.
LEMMA AboveBefore ==
    ASSUME NEW h, Hierarchy(h)
    PROVE  \A n \in Nodes : \A m \in Above(h, n) :
             m \in Nodes /\ h[m] # Absent /\ m <= n /\ Above(h, m) \subseteq Above(h, n)
  <1>0. MaxNodes \in Nat  BY OrganizationAssumption
  <1> DEFINE T == {n \in Nodes : ~ \A m \in Above(h, n) :
                     m \in Nodes /\ h[m] # Absent /\ m <= n /\ Above(h, m) \subseteq Above(h, n)}
  <1> SUFFICES ASSUME T # {} PROVE FALSE  OBVIOUS
  <1>1. T \subseteq Nat  BY <1>0 DEF Nodes
  <1>2. PICK n \in T : \A m \in T : n <= m
    <2> HIDE DEF T
    <2> QED BY <1>1, LeastNumber
  <1>3. n \in Nodes /\ n \in Nat  BY <1>1, <1>2
  <1>4. h[n] # Absent  BY <1>2, <1>3, AboveAbsent
  <1>5. /\ Above(h, n) = {n} \cup Above(h, Up(h, n))
        /\ Up(h, n) \in 0..MaxNodes /\ Up(h, n) < n
        /\ Up(h, n) # 0 => Up(h, n) \in Nodes /\ h[Up(h, n)] # Absent
    BY <1>3, <1>4, AboveUp
  <1>6. PICK m \in Above(h, n) :
          ~ (m \in Nodes /\ h[m] # Absent /\ m <= n /\ Above(h, m) \subseteq Above(h, n))
    BY <1>2
  <1>7. m # n  BY <1>3, <1>4, <1>6
  <1>8. m \in Above(h, Up(h, n)) /\ Up(h, n) # 0  BY <1>5, <1>6, <1>7, AboveRec
  <1>9. Up(h, n) \in Nodes /\ Up(h, n) \notin T /\ Up(h, n) \in Nat  BY <1>0, <1>1, <1>2, <1>3, <1>5, <1>8
  <1>10. m \in Nodes /\ h[m] # Absent /\ m <= Up(h, n) /\ Above(h, m) \subseteq Above(h, Up(h, n))
    BY <1>8, <1>9
  <1>11. m \in Nat  BY <1>0, <1>10 DEF Nodes
  <1>12. m <= n  BY <1>3, <1>5, <1>9, <1>10, <1>11
  <1> QED BY <1>5, <1>6, <1>10, <1>12

\* Two rows above a row are in one line.
LEMMA AboveIsChain ==
    ASSUME NEW h, Hierarchy(h)
    PROVE  \A n \in Nodes : \A a, b \in Above(h, n) : a \in Above(h, b) \/ b \in Above(h, a)
  <1>0. MaxNodes \in Nat  BY OrganizationAssumption
  <1> DEFINE T == {n \in Nodes : ~ \A a, b \in Above(h, n) :
                                    a \in Above(h, b) \/ b \in Above(h, a)}
  <1> SUFFICES ASSUME T # {} PROVE FALSE  OBVIOUS
  <1>1. T \subseteq Nat  BY <1>0 DEF Nodes
  <1>2. PICK n \in T : \A m \in T : n <= m
    <2> HIDE DEF T
    <2> QED BY <1>1, LeastNumber
  <1>3. n \in Nodes /\ n \in Nat  BY <1>1, <1>2
  <1>4. h[n] # Absent  BY <1>2, <1>3, AboveAbsent
  <1>5. /\ Above(h, n) = {n} \cup Above(h, Up(h, n))
        /\ Up(h, n) \in 0..MaxNodes /\ Up(h, n) < n
        /\ Up(h, n) # 0 => Up(h, n) \in Nodes /\ h[Up(h, n)] # Absent
    BY <1>3, <1>4, AboveUp
  <1>6. PICK a, b \in Above(h, n) : ~ (a \in Above(h, b) \/ b \in Above(h, a))  BY <1>2
  <1>7. a # n /\ b # n  BY <1>6
  <1>8. a \in Above(h, Up(h, n)) /\ b \in Above(h, Up(h, n)) /\ Up(h, n) # 0  BY <1>5, <1>6, <1>7, AboveRec
  <1>9. Up(h, n) \in Nodes /\ Up(h, n) \notin T  BY <1>0, <1>1, <1>2, <1>3, <1>5, <1>8
  <1> QED BY <1>6, <1>8, <1>9
------------------------
(* Kinds of the rows above a row. *)

Rank == [enterprise_group |-> 0, legal_entity |-> 1, company |-> 2, org_unit |-> 3,
         region |-> 3, financial_dimension |-> 3, operating_site |-> 4, warehouse |-> 5,
         warehouse_location |-> 6]

\* Kinds that have rows of their own kind above them
Nested == {"org_unit", "region", "warehouse_location"}

\* What a row of kind k can have right above it, and what it can have above that
Beneath(u, k) ==
    /\ Rank[u] \in Nat /\ Rank[k] \in Nat /\ Rank[u] <= Rank[k]
    /\ k \notin Nested => Rank[u] < Rank[k]
    /\ u = "org_unit" => k = "org_unit"
    /\ u = "region" => k \notin {"org_unit", "financial_dimension"}
    /\ k \in {"org_unit", "financial_dimension"} => u \notin {"region", "operating_site", "warehouse"}

LEMMA BeneathUp ==
    ASSUME NEW h, Hierarchy(h), NEW n \in Nodes, h[n] # Absent, Up(h, n) # 0
    PROVE  Beneath(h[Up(h, n)].kind, h[n].kind) /\ h[Up(h, n)].kind \in Kinds
  <1>0. /\ h[n] \in NodeRow
        /\ h[n].owner # 0 => h[n].kind # "enterprise_group" /\ h[h[n].owner].kind = OwnerKind[h[n].kind]
        /\ h[n].parent # 0 => h[n].kind \in DOMAIN ParentKind /\ h[h[n].parent].kind = ParentKind[h[n].kind]
    BY FitsFacts
  <1>1. h[n].kind \in Kinds  BY <1>0 DEF NodeRow
  <1>2. CASE h[n].parent # 0
    <2>1. h[Up(h, n)].kind = ParentKind[h[n].kind] /\ h[n].kind \in DOMAIN ParentKind  BY <1>0, <1>2 DEF Up
    <2>2. \A k \in DOMAIN ParentKind : Beneath(ParentKind[k], k) /\ ParentKind[k] \in Kinds
      BY DEF ParentKind, Beneath, Rank, Nested, Kinds, OwnerKind
    <2> QED BY <2>1, <2>2
  <1>3. CASE h[n].parent = 0
    <2>1. /\ h[Up(h, n)].kind = OwnerKind[h[n].kind] /\ h[n].kind # "enterprise_group"  BY <1>0, <1>3 DEF Up
    <2>2. \A k \in Kinds \ {"enterprise_group"} : Beneath(OwnerKind[k], k) /\ OwnerKind[k] \in Kinds
      BY DEF Beneath, Rank, Nested, Kinds, OwnerKind
    <2> QED BY <1>1, <2>1, <2>2
  <1> QED BY <1>2, <1>3

LEMMA RankType == \A k \in Kinds : Rank[k] \in Nat
  BY DEF Kinds, OwnerKind, Rank

\* Only kinds that nest have rows of their own kind above them.
LEMMA RankAbove ==
    ASSUME NEW h, Hierarchy(h)
    PROVE  \A n \in Nodes : \A m \in Above(h, n) :
             /\ Rank[h[m].kind] <= Rank[h[n].kind]
             /\ m # n /\ h[n].kind \notin Nested => Rank[h[m].kind] < Rank[h[n].kind]
             /\ h[m].kind = "org_unit" => h[n].kind = "org_unit"
             /\ h[m].kind = "region" => h[n].kind \notin {"org_unit", "financial_dimension"}
  <1>0. MaxNodes \in Nat  BY OrganizationAssumption
  <1> DEFINE Good(n, m) ==
               /\ Rank[h[m].kind] <= Rank[h[n].kind]
               /\ m # n /\ h[n].kind \notin Nested => Rank[h[m].kind] < Rank[h[n].kind]
               /\ h[m].kind = "org_unit" => h[n].kind = "org_unit"
               /\ h[m].kind = "region" => h[n].kind \notin {"org_unit", "financial_dimension"}
             T == {n \in Nodes : ~ \A m \in Above(h, n) : Good(n, m)}
  <1> SUFFICES ASSUME T # {} PROVE FALSE  OBVIOUS
  <1>1. T \subseteq Nat  BY <1>0 DEF Nodes
  <1>2. PICK n \in T : \A m \in T : n <= m
    <2> HIDE DEF T
    <2> QED BY <1>1, LeastNumber
  <1>3. n \in Nodes /\ n \in Nat  BY <1>1, <1>2
  <1>4. h[n] # Absent  BY <1>2, <1>3, AboveAbsent
  <1>5. /\ Above(h, n) = {n} \cup Above(h, Up(h, n))
        /\ Up(h, n) \in 0..MaxNodes /\ Up(h, n) < n
        /\ Up(h, n) # 0 => Up(h, n) \in Nodes /\ h[Up(h, n)] # Absent
    BY <1>3, <1>4, AboveUp
  <1>6. PICK m \in Above(h, n) : ~ Good(n, m)  BY <1>2
  <1>7. h[n].kind \in Kinds  BY <1>3, <1>4, FitsFacts DEF NodeRow
  <1>8. Rank[h[n].kind] \in Nat  BY <1>7, RankType
  <1>9. m # n  BY <1>6, <1>8 DEF Nested
  <1>10. m \in Above(h, Up(h, n)) /\ Up(h, n) # 0  BY <1>5, <1>6, <1>9, AboveRec
  <1>11. Up(h, n) \in Nodes /\ Up(h, n) \notin T  BY <1>0, <1>1, <1>2, <1>3, <1>5, <1>10
  <1>12. Good(Up(h, n), m) /\ m \in Nodes /\ h[m] # Absent  BY <1>10, <1>11, AboveBefore
  <1>13. h[m].kind \in Kinds  BY <1>12, FitsFacts DEF NodeRow
  <1>14. Rank[h[m].kind] \in Nat  BY <1>13, RankType
  <1>15. Beneath(h[Up(h, n)].kind, h[n].kind)  BY <1>3, <1>4, <1>10, BeneathUp
  <1>16. /\ Rank[h[m].kind] <= Rank[h[n].kind]
         /\ h[n].kind \notin Nested => Rank[h[m].kind] < Rank[h[n].kind]
    BY <1>8, <1>12, <1>14, <1>15 DEF Beneath
  <1>17. h[m].kind = "org_unit" => h[n].kind = "org_unit"  BY <1>12, <1>15 DEF Beneath
  <1>18. h[m].kind = "region" => h[n].kind \notin {"org_unit", "financial_dimension"}
    <2> SUFFICES ASSUME h[m].kind = "region" PROVE h[n].kind \notin {"org_unit", "financial_dimension"}  OBVIOUS
    <2>1. Rank[h[Up(h, n)].kind] >= 3 /\ h[Up(h, n)].kind \in Kinds
      BY <1>3, <1>4, <1>10, <1>12, BeneathUp DEF Rank
    <2>2. h[Up(h, n)].kind \notin {"enterprise_group", "legal_entity", "company"}  BY <2>1 DEF Rank
    <2>3. h[Up(h, n)].kind \notin {"org_unit", "financial_dimension", "warehouse_location"} =>
            h[n].kind \notin {"org_unit", "financial_dimension"}
      BY <1>15, <2>1, <2>2 DEF Beneath, Kinds, OwnerKind
    <2>4. h[Up(h, n)].kind \notin {"org_unit", "financial_dimension"}  BY <1>12
    <2>5. h[Up(h, n)].kind = "warehouse_location" => Rank[h[n].kind] >= 6  BY <1>8, <1>15 DEF Beneath, Rank
    <2> QED BY <2>3, <2>4, <2>5 DEF Rank
  <1> QED BY <1>6, <1>16, <1>17, <1>18

\* Of a kind that does not nest, a row has one row above it.
LEMMA OneAbove ==
    ASSUME NEW h, Hierarchy(h), NEW n \in Nodes, NEW a \in Above(h, n), NEW b \in Above(h, n),
           h[a].kind = h[b].kind, h[a].kind \notin Nested
    PROVE  a = b
  <1>1. a \in Nodes /\ b \in Nodes /\ h[a] # Absent /\ h[b] # Absent  BY AboveBefore
  <1>2. h[a].kind \in Kinds  BY <1>1, FitsFacts DEF NodeRow
  <1>3. Rank[h[a].kind] \in Nat  BY <1>2, RankType
  <1>4. a \in Above(h, b) \/ b \in Above(h, a)  BY AboveIsChain
  <1> QED BY <1>1, <1>3, <1>4, RankAbove

\* Creating rows changes nothing above those that were there.
LEMMA AboveKept ==
    ASSUME NEW h, Hierarchy(h), NEW g, Hierarchy(g), \A n \in Nodes : h[n] # Absent => g[n] = h[n]
    PROVE  \A n \in Nodes : h[n] # Absent => Above(g, n) = Above(h, n)
  <1>0. MaxNodes \in Nat  BY OrganizationAssumption
  <1> DEFINE T == {n \in Nodes : h[n] # Absent /\ Above(g, n) # Above(h, n)}
  <1> SUFFICES ASSUME T # {} PROVE FALSE  OBVIOUS
  <1>1. T \subseteq Nat  BY <1>0 DEF Nodes
  <1>2. PICK n \in T : \A m \in T : n <= m
    <2> HIDE DEF T
    <2> QED BY <1>1, LeastNumber
  <1>3. n \in Nodes /\ n \in Nat /\ h[n] # Absent /\ g[n] = h[n] /\ Above(g, n) # Above(h, n)  BY <1>1, <1>2
  <1>4. /\ Above(h, n) = {n} \cup Above(h, Up(h, n))
        /\ Up(h, n) \in 0..MaxNodes /\ Up(h, n) < n
        /\ Up(h, n) # 0 => Up(h, n) \in Nodes /\ h[Up(h, n)] # Absent
    BY <1>3, AboveUp
  <1>5. Above(g, n) = {n} \cup Above(g, Up(g, n)) /\ Up(g, n) = Up(h, n)  BY <1>3, AboveUp DEF Up
  <1>6. CASE Up(h, n) = 0  BY <1>3, <1>4, <1>5, <1>6, AboveRec
  <1>7. CASE Up(h, n) # 0
    <2>1. Up(h, n) \notin T /\ Up(h, n) \in Nodes /\ h[Up(h, n)] # Absent  BY <1>0, <1>1, <1>2, <1>3, <1>4, <1>7
    <2> QED BY <1>3, <1>4, <1>5, <2>1
  <1> QED BY <1>6, <1>7
------------------------
(* What follows for the state's hierarchy. *)

LEMMA OnlyMember ==
    ASSUME NEW S, IsFiniteSet(S), Cardinality(S) <= 1
    PROVE  \A a, b \in S : a = b
  <1> SUFFICES ASSUME NEW a \in S, NEW b \in S, a # b PROVE FALSE  OBVIOUS
  <1>1. IsFiniteSet({a}) /\ Cardinality({a}) = 1  BY FS_Singleton
  <1>2. b \notin {a} /\ {a, b} = {a} \cup {b}  OBVIOUS
  <1>3. Cardinality({a, b}) = 2  BY <1>1, <1>2, FS_AddElement
  <1>4. Cardinality({a, b}) <= Cardinality(S)  BY FS_Subset
  <1>5. Cardinality(S) \in Nat  BY FS_CardinalityType
  <1> QED BY <1>3, <1>4, <1>5

LEMMA LineageFacts ==
    ASSUME Hierarchy(node), NEW n \in Nodes
    PROVE  /\ Lineage(n) = Above(node, n) /\ Lineage(n) \in SUBSET Nodes
           /\ Exists(n) <=> node[n] # Absent
           /\ Exists(n) => n \in Lineage(n)
  <1>1. n \in 0..MaxNodes  BY OrganizationAssumption DEF Nodes
  <1> QED BY <1>1, LineageIsAbove, AboveRec, AboveAbsent, RowFacts DEF Exists

LEMMA LinesAreSingle == Hierarchy(node) => OneLine
  <1> SUFFICES ASSUME Hierarchy(node), NEW n \in Nodes,
                      NEW k \in {"enterprise_group", "legal_entity", "company", "operating_site",
                                 "warehouse"}
               PROVE  Cardinality(OfKind(Lineage(n), k)) <= 1
    BY DEF OneLine
  <1>1. Lineage(n) = Above(node, n)  BY LineageFacts
  <1>2. \A a, b \in OfKind(Lineage(n), k) : a = b  BY <1>1, OneAbove DEF OfKind, Nested
  <1> QED BY <1>2, AtMostOne

\* A row of kind k that is above x, and one above y, are in one line.
InLine(x, y, k) ==
    \A a \in OfKind(Above(node, x), k), b \in OfKind(Above(node, y), k) :
        a \in Above(node, b) \/ b \in Above(node, a)

LEMMA InLineBeneath ==
    ASSUME Hierarchy(node), NEW x \in Nodes, NEW y \in Nodes, NEW k,
           x \in Above(node, y) \/ y \in Above(node, x)
    PROVE  InLine(x, y, k)
  <1>1. CASE x \in Above(node, y)
    <2>1. Above(node, x) \subseteq Above(node, y)  BY <1>1, AboveBefore
    <2> QED BY <2>1, AboveIsChain DEF InLine, OfKind
  <1>2. CASE y \in Above(node, x)
    <2>1. Above(node, y) \subseteq Above(node, x)  BY <1>2, AboveBefore
    <2> QED BY <2>1, AboveIsChain DEF InLine, OfKind
  <1> QED BY <1>1, <1>2

LEMMA SelectionsLine ==
    ASSUME Hierarchy(node), NEW S \in Selections, Consistent(S)
    PROVE  OneHierarchy(S)
  <1>0. /\ S \subseteq Nodes
        /\ \A x \in S : node[x].kind \in ScopeKinds /\ node[x] # Absent /\ x \in Above(node, x)
                          /\ Lineage(x) = Above(node, x)
    <2>1. S \subseteq Nodes /\ \A x \in S : node[x].kind \in ScopeKinds  BY DEF Selections, Scopes
    <2>2. \A x \in S : node[x] # Absent  BY <2>1, RowFacts DEF ScopeKinds, Kinds, OwnerKind
    <2>3. \A x \in S : x \in Above(node, x)  BY <2>1, <2>2, AboveAbsent
    <2> QED BY <2>1, <2>2, <2>3, LineageFacts
  <1>1. ASSUME NEW k \in ScopeKinds \ {"financial_dimension"}, NEW x \in S, NEW y \in S
        PROVE  InLine(x, y, k)
    <2>0. x \in Nodes /\ y \in Nodes /\ node[x].kind \in ScopeKinds /\ node[y].kind \in ScopeKinds  BY <1>0
    <2>1. CASE k \in {"enterprise_group", "legal_entity", "company"}
      <3> DEFINE L == OfKind(Lineages(S), k)
      <3>1. Cardinality(L) <= 1 /\ IsFiniteSet(L)
        <4>1. IsFiniteSet(Nodes)  BY OrganizationAssumption, FS_Interval DEF Nodes
        <4>2. L \subseteq Nodes  BY <1>0, AboveRec DEF OfKind, Lineages
        <4> QED BY <2>1, <4>1, <4>2, FS_Subset DEF Consistent
      <3>2. \A a, b \in L : a = b
        <4> HIDE DEF L
        <4> QED BY <3>1, OnlyMember
      <3>3. OfKind(Above(node, x), k) \subseteq L /\ OfKind(Above(node, y), k) \subseteq L
        BY <1>0 DEF OfKind, Lineages
      <3>4. \A a \in OfKind(Above(node, x), k) : a \in Above(node, a)
        BY <2>0, AboveBefore, AboveAbsent DEF OfKind
      <3> QED BY <3>2, <3>3, <3>4 DEF InLine
    <2>2. CASE k = "org_unit"
      <3>1. CASE OfKind(Above(node, x), k) = {} \/ OfKind(Above(node, y), k) = {}  BY <3>1 DEF InLine
      <3>2. CASE OfKind(Above(node, x), k) # {} /\ OfKind(Above(node, y), k) # {}
        <4>1. node[x].kind = "org_unit" /\ node[y].kind = "org_unit"  BY <2>0, <2>2, <3>2, RankAbove DEF OfKind
        <4>2. x \in Above(node, y) \/ y \in Above(node, x)  BY <1>0, <4>1 DEF Consistent, SingleChain, OfKind
        <4> QED BY <2>0, <4>2, InLineBeneath
      <3> QED BY <3>1, <3>2
    <2>3. CASE k \in {"region", "operating_site", "warehouse"}
      <3> SUFFICES ASSUME OfKind(Above(node, x), k) # {}, OfKind(Above(node, y), k) # {}
                   PROVE  InLine(x, y, k)
        BY DEF InLine
      <3> DEFINE Three == {"region", "operating_site", "warehouse"}
      <3>1. ASSUME NEW z \in S, OfKind(Above(node, z), k) # {}
            PROVE  /\ node[z].kind \in Three
                   /\ Rank[k] <= Rank[node[z].kind]
        <4>1. PICK a \in Above(node, z) : node[a].kind = k  BY <3>1 DEF OfKind
        <4>2. /\ Rank[k] <= Rank[node[z].kind]
              /\ k = "region" => node[z].kind \notin {"org_unit", "financial_dimension"}
          BY <1>0, <4>1, RankAbove
        <4>3. node[z].kind \in ScopeKinds  BY <1>0
        <4>4. Rank[node[z].kind] >= 3 /\ (k # "region" => Rank[node[z].kind] >= 4)
          BY <2>3, <4>2, <4>3, RankType DEF Rank, ScopeKinds, Kinds, OwnerKind
        <4>5. node[z].kind \in Three  BY <2>3, <4>2, <4>3, <4>4 DEF ScopeKinds, Kinds, OwnerKind, Rank
        <4> QED BY <4>2, <4>5
      <3>2. CASE x = y  BY <2>0, <3>2, <1>0, InLineBeneath
      <3>3. CASE x # y
        <4>1. node[x].kind # node[y].kind
          <5>1. node[x].kind \in Three  BY <3>1
          <5>2. Cardinality(OfKind(S, node[x].kind)) <= 1
            BY <5>1 DEF Selections, Selectable, ScopeKinds, Kinds, OwnerKind
          <5>3. IsFiniteSet(Nodes)  BY OrganizationAssumption, FS_Interval DEF Nodes
          <5>4. IsFiniteSet(OfKind(S, node[x].kind))  BY <1>0, <5>3, FS_Subset DEF OfKind
          <5>5. \A a, b \in OfKind(S, node[x].kind) : a = b  BY <5>2, <5>4, OnlyMember
          <5> QED BY <3>3, <5>5 DEF OfKind
        <4>2. ASSUME NEW u \in S, NEW v \in S, node[u].kind \in Three, node[v].kind \in Three,
                     Rank[node[u].kind] < Rank[node[v].kind], Rank[k] <= Rank[node[u].kind],
                     OfKind(Above(node, v), k) # {}
              PROVE  u \in Above(node, v)
          <5>0. /\ node[u].kind # "financial_dimension" /\ node[u].kind # node[v].kind
                /\ Lineage(v) = Above(node, v)
            BY <1>0, <4>2 DEF Rank
          <5> SUFFICES OfKind(Above(node, v), node[u].kind) # {}  BY <5>0 DEF Consistent, NamesAncestors
          <5>1. CASE node[u].kind = k  BY <4>2, <5>1
          <5>2. CASE node[u].kind # k
            <6>1. k = "region" /\ node[u].kind = "operating_site" /\ node[v].kind = "warehouse"
              BY <2>3, <4>2, <5>2 DEF Rank
            <6>2. /\ Above(node, v) = {v} \cup Above(node, Up(node, v))
                  /\ Up(node, v) # 0 => Up(node, v) \in Nodes /\ node[Up(node, v)] # Absent
              BY <1>0, AboveUp
            <6>3. PICK a \in Above(node, v) : node[a].kind = "region"  BY <4>2, <6>1 DEF OfKind
            <6>4. a \in Above(node, Up(node, v)) /\ Up(node, v) # 0  BY <6>1, <6>2, <6>3, AboveRec
            <6>5. Up(node, v) \in Nodes /\ Up(node, v) \in Above(node, v)  BY <6>2, <6>4, AboveAbsent
            <6>6. node[Up(node, v)].kind \in {"operating_site", "company"}
              <7>1. /\ node[v].owner # 0 => node[node[v].owner].kind = OwnerKind[node[v].kind]
                    /\ node[v].parent # 0 => node[node[v].parent].kind = ParentKind[node[v].kind]
                BY <1>0, FitsFacts
              <7> QED BY <6>1, <6>4, <7>1 DEF Up, OwnerKind, ParentKind
            <6>7. Rank["region"] <= Rank[node[Up(node, v)].kind]  BY <6>3, <6>4, <6>5, RankAbove
            <6>8. node[Up(node, v)].kind = "operating_site"  BY <6>6, <6>7 DEF Rank
            <6> QED BY <6>1, <6>5, <6>8 DEF OfKind
          <5> QED BY <5>1, <5>2
        <4>3. /\ node[x].kind \in Three /\ Rank[k] <= Rank[node[x].kind]
              /\ node[y].kind \in Three /\ Rank[k] <= Rank[node[y].kind]
          BY <3>1
        <4>4. Rank[node[x].kind] < Rank[node[y].kind] \/ Rank[node[y].kind] < Rank[node[x].kind]
          BY <4>1, <4>3 DEF Rank
        <4>5. x \in Above(node, y) \/ y \in Above(node, x)  BY <4>2, <4>3, <4>4
        <4> QED BY <2>0, <4>5, InLineBeneath
      <3> QED BY <3>2, <3>3
    <2> QED BY <2>1, <2>2, <2>3 DEF ScopeKinds, Kinds, OwnerKind
  <1>2. ASSUME NEW k \in ScopeKinds \ {"financial_dimension"},
               NEW a \in OfKind(Lineages(S), k), NEW b \in OfKind(Lineages(S), k)
        PROVE  a \in Lineage(b) \/ b \in Lineage(a)
    <2>1. PICK x \in S, y \in S : a \in Lineage(x) /\ b \in Lineage(y)  BY DEF OfKind, Lineages
    <2>2. a \in Above(node, x) /\ b \in Above(node, y) /\ x \in Nodes /\ y \in Nodes  BY <1>0, <2>1
    <2>3. a \in Nodes /\ b \in Nodes  BY <2>2, AboveRec
    <2>4. a \in Above(node, b) \/ b \in Above(node, a)  BY <1>1, <2>2 DEF InLine, OfKind
    <2> QED BY <2>3, <2>4, LineageFacts
  <1> QED BY <1>2 DEF OneHierarchy
------------------------
(* Delegations above a delegation. *)

PathOf(v, d) ==
    LET up[g \in 0..MaxGrants] == IF g = 0 THEN {} ELSE {g} \cup up[v[g].parent]
    IN up[d]

LEMMA PathIsOf == \A d \in 0..MaxGrants : Path(d) = PathOf(given, d)
  BY DEF Path, PathOf

\* Each delegation names a source that was there before it.
Chained(v) ==
    /\ v \in [Grants -> Delegation \cup {NoGrant}]
    /\ \A g \in Grants : v[g] # NoGrant =>
         /\ v[g].parent < g
         /\ v[g].parent # 0 => v[v[g].parent] # NoGrant
         /\ \A i \in 1..g : v[i] # NoGrant

LEMMA NoGrantIsNone == NoGrant \notin Delegation
  <1>1. DOMAIN NoGrant = {"parent"}  BY DEF NoGrant
  <1>2. \A d \in Delegation : "revoked" \in DOMAIN d  BY DEF Delegation
  <1> QED BY <1>1, <1>2

LEMMA GrantFacts ==
    ASSUME NEW v, Chained(v), NEW g \in Grants
    PROVE  /\ g \in Nat /\ g \in 0..MaxGrants /\ g # 0
           /\ v[g].parent \in 0..MaxGrants /\ v[g].parent < g
           /\ v[g] # NoGrant => v[g] \in Delegation
           /\ v[g] # NoGrant /\ v[g].parent # 0 => v[g].parent \in Grants /\ v[v[g].parent] # NoGrant
           /\ v[g] = NoGrant => v[g].parent = 0
  <1>0. MaxGrants \in Nat /\ g \in 1..MaxGrants  BY OrganizationAssumption DEF Grants
  <1>1. v[g] \in Delegation \cup {NoGrant}  BY DEF Chained
  <1>2. CASE v[g] = NoGrant  BY <1>0, <1>2 DEF NoGrant
  <1>3. CASE v[g] # NoGrant
    <2>1. v[g] \in Delegation /\ v[g].parent \in 0..MaxGrants  BY <1>1, <1>3 DEF Delegation
    <2>2. v[g].parent < g /\ (v[g].parent # 0 => v[v[g].parent] # NoGrant)  BY <1>3 DEF Chained
    <2> QED BY <1>0, <1>3, <2>1, <2>2 DEF Grants
  <1> QED BY <1>2, <1>3

PathFunction(v, k, f) ==
    /\ f \in [0..k -> SUBSET Grants]
    /\ \A m \in 0..k : f[m] = IF m = 0 THEN {} ELSE {m} \cup f[v[m].parent]

LEMMA PathExists ==
    ASSUME NEW v, Chained(v), NEW k \in 0..MaxGrants
    PROVE  \E f : PathFunction(v, k, f)
  <1> DEFINE T == {j \in 0..MaxGrants : ~ \E f : PathFunction(v, j, f)}
  <1> SUFFICES ASSUME T # {} PROVE FALSE  OBVIOUS
  <1>0. MaxGrants \in Nat  BY OrganizationAssumption
  <1>1. PICK j \in T : \A y \in T : j <= y
    <2>1. T \subseteq Nat  BY <1>0
    <2> HIDE DEF T
    <2> QED BY <2>1, LeastNumber
  <1>2. CASE j = 0
    <2>1. PathFunction(v, 0, [m \in 0..0 |-> {}])  BY DEF PathFunction
    <2> QED BY <1>2, <2>1
  <1>3. CASE j # 0
    <2>1. j \in Grants /\ j - 1 \in 0..MaxGrants /\ j - 1 \notin T  BY <1>0, <1>1, <1>3 DEF Grants
    <2>2. PICK g : PathFunction(v, j - 1, g)  BY <2>1
    <2> DEFINE new == {j} \cup g[v[j].parent]
               f == [m \in 0..j |-> IF m = j THEN new ELSE g[m]]
    <2>3. v[j].parent \in 0..(j - 1)  BY <1>0, <2>1, GrantFacts
    <2>4. new \in SUBSET Grants  BY <2>1, <2>2, <2>3 DEF PathFunction
    <2>5. \A m \in 0..(j - 1) : m \in 0..j /\ m # j  BY <1>0, <2>1
    <2>6. \A m \in 0..j : m # j => m \in 0..(j - 1)  BY <1>0, <2>1
    <2>7. f \in [0..j -> SUBSET Grants]
      <3>1. \A m \in 0..j : f[m] \in SUBSET Grants  BY <2>2, <2>4, <2>6 DEF PathFunction
      <3> QED BY <3>1
    <2>8. ASSUME NEW m \in 0..j
          PROVE  f[m] = IF m = 0 THEN {} ELSE {m} \cup f[v[m].parent]
      <3>1. CASE m = j
        <4>1. \A i \in 0..(j - 1) : f[i] = g[i]  BY <2>5
        <4> QED BY <3>1, <4>1, <1>3, <2>3
      <3>2. CASE m # j
        <4>1. m \in 0..(j - 1) /\ f[m] = g[m]  BY <3>2, <2>6
        <4>2. CASE m = 0  BY <4>1, <4>2, <2>2 DEF PathFunction
        <4>3. CASE m # 0
          <5>1. m \in Grants  BY <4>1, <4>3, <2>1, <1>0 DEF Grants
          <5>2. v[m].parent \in 0..(j - 1)  BY <1>0, <2>1, <4>1, <5>1, GrantFacts
          <5>3. f[v[m].parent] = g[v[m].parent]  BY <5>2, <2>5
          <5> QED BY <4>1, <4>3, <5>3, <2>2 DEF PathFunction
        <4> QED BY <4>2, <4>3
      <3> QED BY <3>1, <3>2
    <2>9. PathFunction(v, j, f)  BY <2>7, <2>8 DEF PathFunction
    <2> QED BY <2>9
  <1> QED BY <1>2, <1>3

LEMMA PathRec ==
    ASSUME NEW v, Chained(v)
    PROVE  /\ PathOf(v, 0) = {}
           /\ \A d \in Grants : PathOf(v, d) = {d} \cup PathOf(v, v[d].parent)
  <1>0. MaxGrants \in Nat  BY OrganizationAssumption
  <1>1. PICK f : PathFunction(v, MaxGrants, f)  BY <1>0, PathExists
  <1> DEFINE Eq(g) == g = [m \in 0..MaxGrants |-> IF m = 0 THEN {} ELSE {m} \cup g[v[m].parent]]
             up == CHOOSE g : Eq(g)
  <1>2. Eq(f)  BY <1>1 DEF PathFunction
  <1>3. PICK a : Eq(a) /\ \A d \in 0..MaxGrants : PathOf(v, d) = a[d]
    <2>1. Eq(up)  BY <1>2
    <2>2. \A d \in 0..MaxGrants : PathOf(v, d) = up[d]  BY DEF PathOf
    <2> HIDE DEF up
    <2> QED BY <2>1, <2>2
  <1>4. \A d \in 0..MaxGrants : PathOf(v, d) = a[d]  BY <1>3
  <1>5. \A m \in 0..MaxGrants : a[m] = IF m = 0 THEN {} ELSE {m} \cup a[v[m].parent]  BY <1>3
  <1>6. PathOf(v, 0) = {}
    <2>1. 0 \in 0..MaxGrants  BY <1>0
    <2>2. a[0] = {}  BY <2>1, <1>5
    <2>3. PathOf(v, 0) = a[0]  BY <1>4, <2>1
    <2> QED BY <2>2, <2>3
  <1>7. ASSUME NEW d \in Grants
        PROVE  PathOf(v, d) = {d} \cup PathOf(v, v[d].parent)
    <2>1. d \in 0..MaxGrants /\ d # 0 /\ v[d].parent \in 0..MaxGrants  BY GrantFacts
    <2>2. PathOf(v, d) = a[d] /\ PathOf(v, v[d].parent) = a[v[d].parent]  BY <1>4, <2>1
    <2>3. a[d] = {d} \cup a[v[d].parent]  BY <1>5, <2>1
    <2> QED BY <2>2, <2>3
  <1> QED BY <1>6, <1>7

\* What is on a path is there, before its end.
LEMMA PathBefore ==
    ASSUME NEW v, Chained(v)
    PROVE  \A d \in Grants : \A g \in PathOf(v, d) :
             g \in Grants /\ g <= d /\ (v[d] # NoGrant => v[g] # NoGrant)
  <1>0. MaxGrants \in Nat  BY OrganizationAssumption
  <1> DEFINE T == {d \in Grants : ~ \A g \in PathOf(v, d) :
                     g \in Grants /\ g <= d /\ (v[d] # NoGrant => v[g] # NoGrant)}
  <1> SUFFICES ASSUME T # {} PROVE FALSE  OBVIOUS
  <1>1. T \subseteq Nat  BY <1>0 DEF Grants
  <1>2. PICK d \in T : \A m \in T : d <= m
    <2> HIDE DEF T
    <2> QED BY <1>1, LeastNumber
  <1>3. d \in Grants /\ d \in Nat  BY <1>1, <1>2
  <1> DEFINE p == v[d].parent
  <1>4. PathOf(v, d) = {d} \cup PathOf(v, p)  BY <1>3, PathRec
  <1>5. p \in 0..MaxGrants /\ p < d /\ (v[d] # NoGrant /\ p # 0 => v[p] # NoGrant)  BY <1>3, GrantFacts
  <1>6. PICK g \in PathOf(v, d) : ~ (g \in Grants /\ g <= d /\ (v[d] # NoGrant => v[g] # NoGrant))  BY <1>2
  <1>7. g # d  BY <1>3, <1>6
  <1>8. g \in PathOf(v, p) /\ p # 0  BY <1>4, <1>6, <1>7, PathRec
  <1>9. p \in Grants /\ p \notin T /\ p \in Nat  BY <1>0, <1>1, <1>2, <1>3, <1>5, <1>8 DEF Grants
  <1>10. g \in Grants /\ g <= p /\ (v[p] # NoGrant => v[g] # NoGrant)  BY <1>8, <1>9
  <1>11. g \in Nat  BY <1>0, <1>10 DEF Grants
  <1> HIDE DEF p
  <1>12. g <= d  BY <1>3, <1>5, <1>9, <1>10, <1>11
  <1> QED BY <1>5, <1>6, <1>8, <1>10, <1>12

\* A path begins at one delegation that has a direct source.
LEMMA PathTop ==
    ASSUME NEW v, Chained(v)
    PROVE  \A d \in Grants : \E t \in PathOf(v, d) :
             v[t].parent = 0 /\ \A u \in PathOf(v, d) : v[u].parent = 0 => u = t
  <1>0. MaxGrants \in Nat  BY OrganizationAssumption
  <1> DEFINE T == {d \in Grants : ~ \E t \in PathOf(v, d) :
                     v[t].parent = 0 /\ \A u \in PathOf(v, d) : v[u].parent = 0 => u = t}
  <1> SUFFICES ASSUME T # {} PROVE FALSE  OBVIOUS
  <1>1. T \subseteq Nat  BY <1>0 DEF Grants
  <1>2. PICK d \in T : \A m \in T : d <= m
    <2> HIDE DEF T
    <2> QED BY <1>1, LeastNumber
  <1>3. d \in Grants /\ d \in Nat  BY <1>1, <1>2
  <1>4. PathOf(v, d) = {d} \cup PathOf(v, v[d].parent)  BY <1>3, PathRec
  <1>5. v[d].parent \in 0..MaxGrants /\ v[d].parent < d  BY <1>3, GrantFacts
  <1>6. CASE v[d].parent = 0
    <2>1. PathOf(v, d) = {d}  BY <1>4, <1>6, PathRec
    <2> QED BY <1>2, <1>6, <2>1
  <1>7. CASE v[d].parent # 0
    <2>1. v[d].parent \in Grants /\ v[d].parent \notin T  BY <1>0, <1>1, <1>2, <1>3, <1>5, <1>7 DEF Grants
    <2>2. PICK t \in PathOf(v, v[d].parent) :
            v[t].parent = 0 /\ \A u \in PathOf(v, v[d].parent) : v[u].parent = 0 => u = t
      BY <2>1
    <2>3. t \in PathOf(v, d) /\ \A u \in PathOf(v, d) : v[u].parent = 0 => u = t  BY <1>4, <1>7, <2>2
    <2> QED BY <1>2, <2>2, <2>3
  <1> QED BY <1>6, <1>7

\* v and w have the same delegations, some may be revoked in w and w may have more.
Extends(v, w) ==
    \A g \in Grants : v[g] # NoGrant =>
      /\ w[g] # NoGrant /\ w[g].parent = v[g].parent
      /\ w[g].grantor = v[g].grantor /\ w[g].recipient = v[g].recipient
      /\ w[g].scope = v[g].scope /\ w[g].acts = v[g].acts /\ w[g].window = v[g].window

LEMMA PathKept ==
    ASSUME NEW v, Chained(v), NEW w, Chained(w), Extends(v, w)
    PROVE  \A d \in Grants : v[d] # NoGrant => PathOf(w, d) = PathOf(v, d)
  <1>0. MaxGrants \in Nat  BY OrganizationAssumption
  <1> DEFINE T == {d \in Grants : v[d] # NoGrant /\ PathOf(w, d) # PathOf(v, d)}
  <1> SUFFICES ASSUME T # {} PROVE FALSE  OBVIOUS
  <1>1. T \subseteq Nat  BY <1>0 DEF Grants
  <1>2. PICK d \in T : \A m \in T : d <= m
    <2> HIDE DEF T
    <2> QED BY <1>1, LeastNumber
  <1>3. d \in Grants /\ d \in Nat /\ v[d] # NoGrant /\ PathOf(w, d) # PathOf(v, d)  BY <1>1, <1>2
  <1>4. v[d].parent \in 0..MaxGrants /\ v[d].parent < d /\ w[d].parent = v[d].parent
    BY <1>3, GrantFacts DEF Extends
  <1>5. PathOf(v, d) = {d} \cup PathOf(v, v[d].parent) /\ PathOf(w, d) = {d} \cup PathOf(w, v[d].parent)
    BY <1>3, <1>4, PathRec
  <1>6. v[d].parent # 0  BY <1>3, <1>5, PathRec
  <1>7. v[d].parent \in Grants /\ v[d].parent \notin T /\ v[v[d].parent] # NoGrant
    BY <1>0, <1>1, <1>2, <1>3, <1>4, <1>6, GrantFacts
  <1> QED BY <1>3, <1>5, <1>7
------------------------
(* Whom a path names. *)

RootOf(v, d, c) == IF d = 0 THEN c ELSE v[CHOOSE g \in PathOf(v, d) : v[g].parent = 0].grantor

NamedBy(v, d) == {v[g].recipient : g \in PathOf(v, d)}

LinkedOf(v, d, c) ==
    /\ d # 0 => v[d].recipient = c
    /\ \A g \in PathOf(v, d) : v[g].parent # 0 => v[g].grantor = v[v[g].parent].recipient
    /\ RootOf(v, d, c) \notin NamedBy(v, d)
    /\ Cardinality(NamedBy(v, d)) = Cardinality(PathOf(v, d))

\* A delegation s in the hierarchy h gives no more than those on the path d.
Within(h, v, d, s) ==
    \A g \in PathOf(v, d) : /\ v[g].scope \in Above(h, s.scope)
                            /\ s.acts \subseteq v[g].acts
                            /\ v[g].window.from <= s.window.from
                            /\ s.window.until <= v[g].window.until

Narrow(h, v, d) ==
    /\ v[d].scope \in Nodes /\ h[v[d].scope] # Absent
    /\ LinkedOf(v, d, v[d].recipient)
    /\ Cardinality(PathOf(v, d)) <= MaxChain
    /\ Within(h, v, d, v[d])

LEMMA StateIsOf ==
    \A d \in 0..MaxGrants :
      /\ Path(d) = PathOf(given, d)
      /\ Recipients(d) = NamedBy(given, d)
      /\ \A c : Root(d, c) = RootOf(given, d, c)
      /\ \A c : PrincipalsOf(d, c) = {RootOf(given, d, c)} \cup NamedBy(given, d)
      /\ \A c : Linked(d, c) <=> LinkedOf(given, d, c)
  <1> SUFFICES ASSUME NEW d \in 0..MaxGrants
               PROVE  /\ Path(d) = PathOf(given, d)
                      /\ Recipients(d) = NamedBy(given, d)
                      /\ \A c : Root(d, c) = RootOf(given, d, c)
                      /\ \A c : PrincipalsOf(d, c) = {RootOf(given, d, c)} \cup NamedBy(given, d)
                      /\ \A c : Linked(d, c) <=> LinkedOf(given, d, c)
    OBVIOUS
  <1>1. Path(d) = PathOf(given, d)  BY PathIsOf
  <1>2. Recipients(d) = NamedBy(given, d)  BY <1>1 DEF Recipients, NamedBy
  <1>3. \A c : Root(d, c) = RootOf(given, d, c)  BY <1>1 DEF Root, RootOf
  <1>4. \A c : PrincipalsOf(d, c) = {RootOf(given, d, c)} \cup NamedBy(given, d)  BY <1>2, <1>3 DEF PrincipalsOf
  <1>5. \A c : Linked(d, c) <=> LinkedOf(given, d, c)  BY <1>1, <1>2, <1>3 DEF Linked, LinkedOf
  <1> QED BY <1>1, <1>2, <1>3, <1>4, <1>5

LEMMA RootIsTop ==
    ASSUME NEW v, Chained(v), NEW d \in Grants, NEW c
    PROVE  \E t \in PathOf(v, d) :
             /\ RootOf(v, d, c) = v[t].grantor /\ v[t].parent = 0
             /\ \A u \in PathOf(v, d) : v[u].parent = 0 => u = t
  <1>1. PICK t \in PathOf(v, d) :
          v[t].parent = 0 /\ \A u \in PathOf(v, d) : v[u].parent = 0 => u = t
    BY PathTop
  <1>2. (CHOOSE g \in PathOf(v, d) : v[g].parent = 0) = t  BY <1>1
  <1>3. d # 0  BY GrantFacts
  <1> QED BY <1>1, <1>2, <1>3 DEF RootOf

\* What w adds and revokes changes nothing of this.
LEMMA NamesKept ==
    ASSUME NEW v, Chained(v), NEW w, Chained(w), Extends(v, w),
           NEW d \in 0..MaxGrants, d = 0 \/ v[d] # NoGrant, NEW c
    PROVE  /\ PathOf(w, d) = PathOf(v, d) /\ RootOf(w, d, c) = RootOf(v, d, c)
           /\ NamedBy(w, d) = NamedBy(v, d)
           /\ LinkedOf(v, d, c) => LinkedOf(w, d, c)
           /\ \A h, s : Within(h, v, d, s) => Within(h, w, d, s)
  <1>1. CASE d = 0
    <2>1. PathOf(v, 0) = {} /\ PathOf(w, 0) = {}  BY PathRec
    <2> QED BY <1>1, <2>1 DEF RootOf, NamedBy, LinkedOf, Within
  <1>2. CASE d # 0
    <2>1. d \in Grants /\ v[d] # NoGrant  BY <1>2, OrganizationAssumption DEF Grants
    <2>2. PathOf(w, d) = PathOf(v, d)  BY <2>1, PathKept
    <2>3. \A g \in PathOf(v, d) :
            /\ g \in Grants /\ w[g].parent = v[g].parent
            /\ w[g].grantor = v[g].grantor /\ w[g].recipient = v[g].recipient
            /\ w[g].scope = v[g].scope /\ w[g].acts = v[g].acts /\ w[g].window = v[g].window
      BY <2>1, PathBefore DEF Extends
    <2>4. ASSUME NEW g \in PathOf(v, d), v[g].parent # 0
          PROVE  w[v[g].parent].recipient = v[v[g].parent].recipient
      <3>1. g \in Grants /\ v[g] # NoGrant  BY <2>1, PathBefore
      <3>2. v[g].parent \in 0..MaxGrants /\ v[v[g].parent] # NoGrant  BY <2>4, <3>1, GrantFacts
      <3>3. v[g].parent \in Grants  BY <2>4, <3>2, OrganizationAssumption DEF Grants
      <3> QED BY <3>2, <3>3 DEF Extends
    <2>5. NamedBy(w, d) = NamedBy(v, d)  BY <2>2, <2>3 DEF NamedBy
    <2>6. RootOf(w, d, c) = RootOf(v, d, c)
      <3>1. PICK t \in PathOf(v, d) : RootOf(v, d, c) = v[t].grantor /\ v[t].parent = 0  BY <2>1, RootIsTop
      <3>2. PICK u \in PathOf(w, d) :
              /\ RootOf(w, d, c) = w[u].grantor
              /\ \A x \in PathOf(w, d) : w[x].parent = 0 => x = u
        BY <2>1, RootIsTop
      <3> QED BY <2>2, <2>3, <3>1, <3>2
    <2>7. LinkedOf(v, d, c) => LinkedOf(w, d, c)
      <3>1. w[d].recipient = v[d].recipient  BY <2>1 DEF Extends
      <3> QED BY <2>2, <2>3, <2>4, <2>5, <2>6, <3>1 DEF LinkedOf
    <2>8. \A h, s : Within(h, v, d, s) => Within(h, w, d, s)  BY <2>2, <2>3 DEF Within
    <2> QED BY <2>2, <2>5, <2>6, <2>7, <2>8
  <1> QED BY <1>1, <1>2

LEMMA PathIsFinite ==
    ASSUME NEW v, Chained(v), NEW d \in 0..MaxGrants
    PROVE  /\ PathOf(v, d) \in SUBSET Grants
           /\ IsFiniteSet(PathOf(v, d)) /\ Cardinality(PathOf(v, d)) \in Nat
           /\ IsFiniteSet(NamedBy(v, d)) /\ Cardinality(NamedBy(v, d)) \in Nat
  <1>1. PathOf(v, d) \in SUBSET Grants  BY PathRec, PathBefore, OrganizationAssumption DEF Grants
  <1>2. IsFiniteSet(Grants)  BY OrganizationAssumption, FS_Interval DEF Grants
  <1>3. IsFiniteSet(PathOf(v, d))  BY <1>1, <1>2, FS_Subset
  <1>4. IsFiniteSet(NamedBy(v, d))
    <2> DEFINE f == [g \in PathOf(v, d) |-> v[g].recipient]
    <2>1. f \in Surjection(PathOf(v, d), NamedBy(v, d))  BY DEF Surjection, NamedBy
    <2> QED BY <1>3, <2>1, FS_Surjection
  <1> QED BY <1>1, <1>3, <1>4, FS_CardinalityType

\* A new delegation at the end of a path
LEMMA NewIsNarrow ==
    ASSUME NEW h, Hierarchy(h), NEW v, Chained(v), NEW d \in Grants, v[d] \in Delegation,
           v[d].scope \in Nodes, h[v[d].scope] # Absent,
           LinkedOf(v, v[d].parent, v[d].grantor),
           v[d].recipient \notin {RootOf(v, v[d].parent, v[d].grantor)} \cup NamedBy(v, v[d].parent),
           Cardinality(PathOf(v, v[d].parent)) + 1 <= MaxChain,
           Within(h, v, v[d].parent, v[d])
    PROVE  Narrow(h, v, d)
  <1> DEFINE p == v[d].parent
  <1>1. p \in 0..MaxGrants /\ p < d /\ d \in Nat /\ d # 0  BY GrantFacts
  <1>2. PathOf(v, d) = {d} \cup PathOf(v, p)  BY PathRec
  <1>3. d \notin PathOf(v, p)
    <2>1. CASE p = 0  BY <2>1, PathRec
    <2>2. CASE p # 0
      <3>1. p \in Grants /\ p \in Nat  BY <1>1, <2>2, OrganizationAssumption DEF Grants
      <3>2. \A g \in PathOf(v, p) : g <= p  BY <3>1, PathBefore
      <3> HIDE DEF p
      <3> QED BY <1>1, <3>1, <3>2
    <2> QED BY <2>1, <2>2
  <1>4. NamedBy(v, d) = {v[d].recipient} \cup NamedBy(v, p)  BY <1>2 DEF NamedBy
  <1>5. /\ IsFiniteSet(PathOf(v, p)) /\ Cardinality(PathOf(v, p)) \in Nat
        /\ IsFiniteSet(NamedBy(v, p)) /\ Cardinality(NamedBy(v, p)) \in Nat
    BY <1>1, PathIsFinite
  <1>6. Cardinality(PathOf(v, d)) = Cardinality(PathOf(v, p)) + 1
    <2>1. PathOf(v, d) = PathOf(v, p) \cup {d}  BY <1>2
    <2> HIDE DEF p
    <2>2. Cardinality(PathOf(v, p) \cup {d}) = Cardinality(PathOf(v, p)) + 1  BY <1>3, <1>5, FS_AddElement
    <2> QED BY <2>1, <2>2
  <1>7. Cardinality(NamedBy(v, d)) = Cardinality(NamedBy(v, p)) + 1
    <2>1. NamedBy(v, d) = NamedBy(v, p) \cup {v[d].recipient}  BY <1>4
    <2>2. v[d].recipient \notin NamedBy(v, p)  OBVIOUS
    <2> DEFINE r == v[d].recipient
    <2> HIDE DEF p, r
    <2>3. Cardinality(NamedBy(v, p) \cup {r}) = Cardinality(NamedBy(v, p)) + 1
      BY <1>5, <2>2, FS_AddElement DEF r
    <2> QED BY <2>1, <2>3 DEF r
  <1>8. RootOf(v, d, v[d].recipient) = RootOf(v, p, v[d].grantor)
    <2>1. PICK t \in PathOf(v, d) :
            /\ RootOf(v, d, v[d].recipient) = v[t].grantor /\ v[t].parent = 0
            /\ \A u \in PathOf(v, d) : v[u].parent = 0 => u = t
      BY RootIsTop
    <2>2. CASE p = 0  BY <1>2, <2>1, <2>2 DEF RootOf
    <2>3. CASE p # 0
      <3>1. p \in Grants  BY <1>1, <2>3, OrganizationAssumption DEF Grants
      <3>2. PICK u \in PathOf(v, p) : RootOf(v, p, v[d].grantor) = v[u].grantor /\ v[u].parent = 0
        BY <3>1, RootIsTop
      <3>3. u = t  BY <1>2, <2>1, <3>2
      <3> QED BY <2>1, <3>2, <3>3
    <2> QED BY <2>2, <2>3
  <1>9. Cardinality(NamedBy(v, p)) = Cardinality(PathOf(v, p)) /\ (p # 0 => v[p].recipient = v[d].grantor)
    BY DEF LinkedOf
  <1>10. RootOf(v, p, v[d].grantor) \notin NamedBy(v, p)  BY DEF LinkedOf
  <1>11. \A g \in PathOf(v, d) : v[g].parent # 0 => v[g].grantor = v[v[g].parent].recipient
    BY <1>2, <1>9 DEF LinkedOf
  <1>12. LinkedOf(v, d, v[d].recipient)
    <2>1. RootOf(v, d, v[d].recipient) \notin NamedBy(v, d)  BY <1>4, <1>8, <1>10
    <2>2. Cardinality(NamedBy(v, d)) = Cardinality(PathOf(v, d))  BY <1>6, <1>7, <1>9
    <2> QED BY <1>11, <2>1, <2>2 DEF LinkedOf
  <1>13. Within(h, v, d, v[d])
    <2>1. v[d].scope \in Above(h, v[d].scope)  BY AboveAbsent
    <2>2. v[d].window.from \in Int /\ v[d].window.until \in Int
      BY OrganizationAssumption DEF Delegation, Window, Time, Forever
    <2>3. v[d].window.from <= v[d].window.from /\ v[d].window.until <= v[d].window.until  BY <2>2
    <2> QED BY <1>2, <2>1, <2>3 DEF Within
  <1>14. Cardinality(PathOf(v, d)) <= MaxChain  BY <1>6
  <1> QED BY <1>12, <1>13, <1>14 DEF Narrow

\* Narrow in a hierarchy and a table that only grow
LEMMA NarrowKept ==
    ASSUME NEW h, Hierarchy(h), NEW g, Hierarchy(g), \A n \in Nodes : h[n] # Absent => g[n] = h[n],
           NEW v, Chained(v), NEW w, Chained(w), Extends(v, w),
           NEW d \in Grants, v[d] # NoGrant, Narrow(h, v, d)
    PROVE  Narrow(g, w, d)
  <1>0. d \in 0..MaxGrants  BY GrantFacts
  <1>1. /\ w[d].scope = v[d].scope /\ w[d].recipient = v[d].recipient
        /\ w[d].acts = v[d].acts /\ w[d].window = v[d].window
    BY DEF Extends
  <1>2. v[d].scope \in Nodes /\ h[v[d].scope] # Absent /\ g[v[d].scope] # Absent  BY DEF Narrow
  <1>3. Above(g, v[d].scope) = Above(h, v[d].scope)  BY <1>2, AboveKept
  <1>4. Within(g, v, d, v[d])  BY <1>3 DEF Narrow, Within
  <1>5. Within(g, w, d, v[d]) /\ PathOf(w, d) = PathOf(v, d) /\ LinkedOf(w, d, v[d].recipient)
    BY <1>0, <1>4, NamesKept DEF Narrow
  <1>6. Within(g, w, d, w[d])  BY <1>1, <1>5 DEF Within
  <1>7. Cardinality(PathOf(w, d)) <= MaxChain  BY <1>5 DEF Narrow
  <1> QED BY <1>1, <1>2, <1>5, <1>6, <1>7 DEF Narrow
------------------------
(* A row that is created, and a delegation that is written. *)

Grows(h, g) == \A n \in Nodes : h[n] # Absent => g[n] = h[n]

LEMMA RowAdded ==
    ASSUME NEW h, Hierarchy(h), NEW n \in Nodes, h[n].kind = "none",
           \A m \in Nodes : m < n => h[m].kind # "none",
           NEW k \in Kinds, NEW o \in 0..MaxNodes, NEW p \in 0..MaxNodes, NEW until \in Time,
           Fits(h, k, o, p),
           NEW g, g = [h EXCEPT ![n] = [kind |-> k, owner |-> o, parent |-> p, until |-> until]]
    PROVE  Hierarchy(g) /\ Grows(h, g)
  <1> DEFINE row == [kind |-> k, owner |-> o, parent |-> p, until |-> until]
  <1>0. MaxNodes \in Nat /\ n \in Nat /\ n \in 1..MaxNodes  BY OrganizationAssumption DEF Nodes
  <1>1. row \in NodeRow /\ row # Absent
    <2>1. row \in NodeRow  BY DEF NodeRow
    <2>2. "none" \notin Kinds  BY DEF Kinds, OwnerKind
    <2>3. row.kind = k /\ Absent.kind = "none"  BY DEF Absent
    <2> QED BY <2>1, <2>2, <2>3
  <1>2. g \in [Nodes -> NodeRow \cup {Absent}] /\ g[n] = row /\ \A m \in Nodes : m # n => g[m] = h[m]
    BY <1>1 DEF Hierarchy
  <1>3. h[n] = Absent /\ Grows(h, g)  BY <1>2, RowFacts DEF Grows
  <1>4. \A m \in Nodes : m < n <=> h[m] # Absent
    <2>1. \A m \in Nodes : m < n => h[m] # Absent  BY DEF Absent
    <2>2. ASSUME NEW m \in Nodes, h[m] # Absent, ~ (m < n) PROVE FALSE
      <3>1. n \in 1..m  BY <1>0, <2>2 DEF Nodes
      <3> QED BY <1>3, <2>2, <3>1 DEF Hierarchy
    <2> QED BY <2>1, <2>2
  <1>5. o # 0 => o \in Nodes /\ h[o] # Absent /\ o < n
    <2>1. "none" \notin {OwnerKind[x] : x \in Kinds}  BY DEF Kinds, OwnerKind
    <2>2. o # 0 => h[o].kind = OwnerKind[k]  BY DEF Fits
    <2>3. o # 0 => h[o].kind # "none" /\ o \in Nodes  BY <1>0, <2>1, <2>2 DEF Nodes
    <2> QED BY <1>4, <2>3 DEF Absent
  <1>6. p # 0 => p \in Nodes /\ h[p] # Absent /\ p < n
    <2>1. "none" \notin {ParentKind[x] : x \in DOMAIN ParentKind}  BY DEF ParentKind
    <2>2. p # 0 => k \in DOMAIN ParentKind /\ h[p].kind = ParentKind[k]  BY DEF Fits
    <2>3. p # 0 => h[p].kind # "none" /\ p \in Nodes  BY <1>0, <2>1, <2>2 DEF Nodes
    <2> QED BY <1>4, <2>3 DEF Absent
  <1>7. ASSUME NEW m \in Nodes, g[m] # Absent
        PROVE  /\ g[m].owner < m /\ g[m].parent < m
               /\ Fits(g, g[m].kind, g[m].owner, g[m].parent)
               /\ \A i \in 1..m : g[i] # Absent
    <2>1. CASE m = n
      <3>1. g[m].kind = k /\ g[m].owner = o /\ g[m].parent = p  BY <1>2, <2>1
      <3>2. o < n /\ p < n  BY <1>0, <1>5, <1>6
      <3>3. Fits(g, k, o, p)
        <4>1. o # 0 => g[o] = h[o]  BY <1>3, <1>5 DEF Grows
        <4>2. p # 0 => g[p] = h[p]  BY <1>3, <1>6 DEF Grows
        <4> QED BY <4>1, <4>2 DEF Fits
      <3>4. ASSUME NEW i \in 1..n PROVE g[i] # Absent
        <4>1. i \in Nodes /\ (i < n \/ i = n)  BY <1>0 DEF Nodes
        <4> QED BY <1>1, <1>2, <1>4, <4>1
      <3> QED BY <2>1, <3>1, <3>2, <3>3, <3>4
    <2>2. CASE m # n
      <3>1. g[m] = h[m] /\ h[m] # Absent  BY <1>2, <1>7, <2>2
      <3>2. h[m].owner < m /\ h[m].parent < m /\ Fits(h, h[m].kind, h[m].owner, h[m].parent)
        BY <3>1 DEF Hierarchy
      <3>3. /\ h[m].owner # 0 => g[h[m].owner] = h[h[m].owner]
            /\ h[m].parent # 0 => g[h[m].parent] = h[h[m].parent]
        BY <1>3, <3>1, FitsFacts DEF Grows
      <3>4. Fits(g, h[m].kind, h[m].owner, h[m].parent)  BY <3>2, <3>3 DEF Fits
      <3>5. ASSUME NEW i \in 1..m PROVE g[i] # Absent
        <4>1. m \in Nat /\ m \in 1..MaxNodes  BY <1>0 DEF Nodes
        <4>2. i \in Nodes  BY <1>0, <4>1 DEF Nodes
        <4>3. h[i] # Absent  BY <3>1 DEF Hierarchy
        <4> QED BY <1>3, <4>2, <4>3 DEF Grows
      <3> QED BY <3>1, <3>2, <3>4, <3>5
    <2> QED BY <2>1, <2>2
  <1> QED BY <1>2, <1>3, <1>7 DEF Hierarchy

\* The lineage that delegations are compared with is part of the lineage.
LEMMA DelegationLineageIsAbove ==
    ASSUME Hierarchy(node), NEW n \in Nodes, Exists(n)
    PROVE  DelegationLineage(n) \subseteq Above(node, n)
  <1>0. /\ node[n] # Absent /\ node[n].kind # "none"
        /\ node[n].owner \in 0..MaxNodes /\ n \in 0..MaxNodes
    BY RowFacts, OrganizationAssumption DEF Exists, Nodes
  <1>1. Above(node, n) = {n} \cup Above(node, node[n].owner) \cup Above(node, node[n].parent)  BY <1>0, AboveRec
  <1>2. Lineage(n) = Above(node, n) /\ Lineage(node[n].owner) = Above(node, node[n].owner)
    BY <1>0, LineageIsAbove
  <1> QED BY <1>1, <1>2 DEF DelegationLineage

\* A revocation
LEMMA GrantRevoked ==
    ASSUME NEW v, Chained(v), NEW d \in Grants, v[d] # NoGrant,
           NEW w \in [Grants -> Delegation \cup {NoGrant}],
           w[d] = [v[d] EXCEPT !.revoked = 1], \A g \in Grants : g # d => w[g] = v[g]
    PROVE  Chained(w) /\ Extends(v, w) /\ (\A g \in Grants : w[g] = NoGrant <=> v[g] = NoGrant)
  <1>0. v \in [Grants -> Delegation \cup {NoGrant}] /\ v[d] \in Delegation  BY GrantFacts DEF Chained
  <1>1. [v[d] EXCEPT !.revoked = 1] \in Delegation  BY <1>0 DEF Delegation
  <1>2. w[d] = [v[d] EXCEPT !.revoked = 1] /\ \A g \in Grants : g # d => w[g] = v[g]  OBVIOUS
  <1>3. w \in [Grants -> Delegation \cup {NoGrant}]  OBVIOUS
  <1>4. \A g \in Grants : w[g] = NoGrant <=> v[g] = NoGrant  BY <1>1, <1>2, NoGrantIsNone
  <1>5. /\ w[d].grantor = v[d].grantor /\ w[d].recipient = v[d].recipient /\ w[d].parent = v[d].parent
        /\ w[d].scope = v[d].scope /\ w[d].acts = v[d].acts /\ w[d].window = v[d].window
    BY <1>0, <1>2 DEF Delegation
  <1>6. \A g \in Grants : w[g].parent = v[g].parent  BY <1>2, <1>5
  <1>7. Extends(v, w)  BY <1>2, <1>4, <1>5 DEF Extends
  <1>8. ASSUME NEW g \in Grants, w[g] # NoGrant
        PROVE  /\ w[g].parent < g /\ (w[g].parent # 0 => w[w[g].parent] # NoGrant)
               /\ \A i \in 1..g : w[i] # NoGrant
    <2>1. /\ v[g] # NoGrant /\ v[g].parent < g /\ (v[g].parent # 0 => v[v[g].parent] # NoGrant)
          /\ \A i \in 1..g : v[i] # NoGrant
      BY <1>4, <1>8 DEF Chained
    <2>2. v[g].parent # 0 => v[g].parent \in Grants  BY <2>1, GrantFacts
    <2>3. \A i \in 1..g : i \in Grants  BY OrganizationAssumption DEF Grants
    <2> QED BY <1>4, <1>6, <2>1, <2>2, <2>3
  <1> QED BY <1>3, <1>4, <1>7, <1>8 DEF Chained

\* A row that is written
LEMMA GrantWritten ==
    ASSUME NEW v, Chained(v), NEW g \in Grants, v[g] = NoGrant, \A i \in Grants : i < g => v[i] # NoGrant,
           NEW row \in Delegation, row.parent # 0 => v[row.parent] # NoGrant,
           NEW w \in [Grants -> Delegation \cup {NoGrant}],
           w[g] = row, \A d \in Grants : d # g => w[d] = v[d]
    PROVE  Chained(w) /\ Extends(v, w)
  <1>0. v \in [Grants -> Delegation \cup {NoGrant}] /\ MaxGrants \in Nat /\ g \in 1..MaxGrants /\ g \in Nat
    BY OrganizationAssumption DEF Chained, Grants
  <1>1. /\ w \in [Grants -> Delegation \cup {NoGrant}] /\ w[g] = row /\ row # NoGrant
        /\ \A d \in Grants : d # g => w[d] = v[d]
    BY <1>0, NoGrantIsNone
  <1>2. Extends(v, w)  BY <1>1 DEF Extends
  <1>3. \A d \in Grants : v[d] # NoGrant => d < g
    <2> SUFFICES ASSUME NEW d \in Grants, v[d] # NoGrant, ~ (d < g) PROVE FALSE  OBVIOUS
    <2>1. g \in 1..d  BY <1>0 DEF Grants
    <2> QED BY <2>1 DEF Chained
  <1>4. row.parent \in 0..MaxGrants  BY DEF Delegation
  <1>5. row.parent # 0 => row.parent \in Grants /\ row.parent < g  BY <1>0, <1>3, <1>4 DEF Grants
  <1>6. ASSUME NEW d \in Grants, w[d] # NoGrant
        PROVE  /\ w[d].parent < d /\ (w[d].parent # 0 => w[w[d].parent] # NoGrant)
               /\ \A i \in 1..d : w[i] # NoGrant
    <2>1. CASE d = g
      <3>1. w[d].parent = row.parent /\ row.parent < g  BY <1>0, <1>1, <1>5, <2>1
      <3>2. row.parent # 0 => w[row.parent] # NoGrant  BY <1>1, <1>2, <1>5 DEF Extends
      <3>3. ASSUME NEW i \in 1..g PROVE w[i] # NoGrant
        <4>1. i \in Grants /\ (i < g \/ i = g)  BY <1>0 DEF Grants
        <4> QED BY <1>1, <1>2, <4>1 DEF Extends
      <3> QED BY <2>1, <3>1, <3>2, <3>3
    <2>2. CASE d # g
      <3>1. v[d] # NoGrant /\ w[d] = v[d]  BY <1>1, <1>6, <2>2
      <3>2. /\ v[d].parent < d /\ (v[d].parent # 0 => v[v[d].parent] # NoGrant)
            /\ \A i \in 1..d : v[i] # NoGrant
        BY <3>1 DEF Chained
      <3>3. v[d].parent # 0 => v[d].parent \in Grants  BY <3>1, GrantFacts
      <3>4. \A i \in 1..d : i \in Grants  BY OrganizationAssumption DEF Grants
      <3> QED BY <1>2, <3>1, <3>2, <3>3, <3>4 DEF Extends
    <2> QED BY <2>1, <2>2
  <1> QED BY <1>1, <1>2, <1>6 DEF Chained
------------------------
(* What transactions have found. *)

Resolved == [pc : {"resolved"}, op : {"select"}, who : Principals, via : {0}, sel : SUBSET Nodes]

Checked == [pc : {"checked", "decided"}, op : {"select"}, who : Principals, via : {0},
            sel : SUBSET Nodes, held : {{}}, rows : SUBSET Assignment]

Selecting == [pc : {"decided"}, op : {"select"}, who : Principals, via : Grants, sel : SUBSET Nodes,
              acts : SUBSET Actions, rows : SUBSET Assignment, held : SUBSET Principals]

Delegating == [pc : {"decided"}, op : {"delegate"}, who : Principals, via : 0..MaxGrants,
               sel : SUBSET Nodes, acts : SUBSET Actions, rows : SUBSET Assignment,
               held : SUBSET Principals, row : Delegation]

Transaction == {Idle} \cup Resolved \cup Checked \cup Selecting \cup Delegating

Holding(x) == x.pc = "decided" /\ (x.op = "delegate" \/ x.via # 0)

LEMMA TransactionKinds ==
    ASSUME NEW x \in Transaction
    PROVE  /\ x.pc \in {"idle", "resolved", "checked", "decided"}
           /\ x.pc = "idle" <=> x = Idle
           /\ x.pc = "resolved" <=> x \in Resolved
           /\ x.pc = "checked" => x \in Checked
           /\ x \in Checked => ~ Holding(x) /\ x.op = "select" /\ x.via = 0
           /\ x.pc = "decided" /\ x.op = "select" /\ x.via = 0 => x \in Checked
           /\ x.pc = "decided" /\ x.op = "delegate" <=> x \in Delegating
           /\ Holding(x) <=> x \in Selecting \cup Delegating
           /\ x.pc = "decided" => x.op \in {"select", "delegate"}
           /\ x # Idle => x.sel \in SUBSET Nodes /\ x.who \in Principals
           /\ Holding(x) => x.via \in 0..MaxGrants
  <1>0. 0 \notin Grants /\ Grants \subseteq 0..MaxGrants  BY OrganizationAssumption DEF Grants
  <1>1. CASE x = Idle  BY <1>1 DEF Idle, Resolved, Checked, Selecting, Delegating, Holding
  <1>2. CASE x \in Resolved  BY <1>2 DEF Idle, Resolved, Checked, Selecting, Delegating, Holding
  <1>3. CASE x \in Checked  BY <1>3 DEF Idle, Resolved, Checked, Selecting, Delegating, Holding
  <1>4. CASE x \in Selecting
    <2>1. /\ x.pc = "decided" /\ x.op = "select" /\ x.via \in Grants
          /\ x.sel \in SUBSET Nodes /\ x.who \in Principals
      BY <1>4 DEF Selecting
    <2>2. x.via # 0 /\ x.via \in 0..MaxGrants  BY <1>0, <2>1
    <2>3. x # Idle /\ x \notin Resolved /\ x \notin Delegating  BY <2>1 DEF Idle, Resolved, Delegating
    <2>4. x \notin Checked  BY <2>2 DEF Checked
    <2>5. Holding(x)  BY <2>1, <2>2 DEF Holding
    <2> QED BY <1>4, <2>1, <2>2, <2>3, <2>4, <2>5
  <1>5. CASE x \in Delegating  BY <1>5 DEF Idle, Resolved, Checked, Selecting, Delegating, Holding
  <1> QED BY <1>1, <1>2, <1>3, <1>4, <1>5 DEF Transaction

\* A selection by assignment: its locked rows carry every selected row.
RowsCarry(h, a, x) ==
    /\ x.rows \subseteq a /\ \A r \in x.rows : r.who = x.who
    /\ \A n \in x.sel : \E r \in x.rows : r.scope \in Above(h, n)

LeavesOf(h, S) == {a \in S : \A b \in S \ {a} : a \notin Above(h, b)}

\* Under the lock: the path, the people on it, the root's assignments and rights
PathCarries(h, v, a, m, p, x) ==
    /\ x.via # 0 => v[x.via] # NoGrant
    /\ \A g \in PathOf(v, x.via) : v[g].revoked = 0
    /\ x.held \subseteq m
    /\ \A n \in LeavesOf(h, x.sel) :
         \E r \in a : r.who = RootOf(v, x.via, x.who) /\ r.scope \in Above(h, n)
    /\ {RootOf(v, x.via, x.who)} \X x.acts \subseteq p

\* A delegation that will be written fits to the end of its path.
RowFits(h, v, s) ==
    /\ s.parent # 0 => v[s.parent] # NoGrant
    /\ h[s.scope] # Absent
    /\ LinkedOf(v, s.parent, s.grantor)
    /\ s.recipient \notin {RootOf(v, s.parent, s.grantor)} \cup NamedBy(v, s.parent)
    /\ Cardinality(PathOf(v, s.parent)) + 1 <= MaxChain
    /\ Within(h, v, s.parent, s)

Founded(h, v, a, m, p, x) ==
    /\ x # Idle => \A n \in x.sel : h[n] # Absent
    /\ x \in Checked => RowsCarry(h, a, x)
    /\ Holding(x) => PathCarries(h, v, a, m, p, x)
    /\ x \in Delegating => RowFits(h, v, x.row)

\* Other steps: rows are created, unlocked assignments and people go; the
\* rest only changes while nobody has the lock.
LEMMA FoundedKept ==
    ASSUME NEW h, Hierarchy(h), NEW g, Hierarchy(g), Grows(h, g),
           NEW v, NEW w, NEW a, NEW b, NEW m, NEW n, NEW p, NEW q,
           NEW x \in Transaction, Founded(h, v, a, m, p, x),
           x \in Checked => x.rows \subseteq b,
           Holding(x) => w = v /\ a \subseteq b /\ x.held \subseteq n /\ q = p
    PROVE  Founded(g, w, b, n, q, x)
  <1>1. \A i \in Nodes : h[i] # Absent => g[i] # Absent /\ Above(g, i) = Above(h, i)  BY AboveKept DEF Grows
  <1>2. x # Idle => \A i \in x.sel : i \in Nodes /\ h[i] # Absent  BY TransactionKinds DEF Founded
  <1>3. x # Idle => \A i \in x.sel : g[i] # Absent /\ Above(g, i) = Above(h, i)  BY <1>1, <1>2
  <1>4. ASSUME x \in Checked PROVE RowsCarry(g, b, x)
    <2>1. x # Idle  BY <1>4 DEF Checked, Idle
    <2> QED BY <1>3, <1>4, <2>1 DEF Founded, RowsCarry
  <1>5. ASSUME Holding(x) PROVE PathCarries(g, w, b, n, q, x)
    <2>1. x # Idle  BY <1>5, TransactionKinds DEF Holding, Idle
    <2>2. LeavesOf(g, x.sel) = LeavesOf(h, x.sel) /\ LeavesOf(h, x.sel) \subseteq x.sel
      BY <1>3, <2>1 DEF LeavesOf
    <2>3. PathCarries(h, v, a, m, p, x)  BY <1>5 DEF Founded
    <2>4. \A i \in LeavesOf(g, x.sel) :
            \E r \in b : r.who = RootOf(w, x.via, x.who) /\ r.scope \in Above(g, i)
      BY <1>3, <1>5, <2>1, <2>2, <2>3 DEF PathCarries
    <2> QED BY <1>5, <2>3, <2>4 DEF PathCarries
  <1>6. ASSUME x \in Delegating PROVE RowFits(g, w, x.row)
    <2>1. w = v  BY <1>6, TransactionKinds
    <2>2. RowFits(h, v, x.row) /\ x.row.scope \in Nodes  BY <1>6 DEF Founded, Delegating, Delegation
    <2>3. g[x.row.scope] # Absent /\ Above(g, x.row.scope) = Above(h, x.row.scope)  BY <1>1, <2>2 DEF RowFits
    <2> QED BY <2>1, <2>2, <2>3 DEF RowFits, Within
  <1> QED BY <1>3, <1>4, <1>5, <1>6 DEF Founded

------------------------
(* The invariant. *)

TablesInv ==
    /\ now \in 0..Horizon
    /\ assigned \subseteq Assignment
    /\ members \subseteq Principals
    /\ policy \subseteq Principals \X Actions
    /\ lock \in Txs \cup {NoTx}
    /\ tx \in [Txs -> Transaction]

LockInv == \A t \in Txs : lock = t <=> Holding(tx[t])

RightsInv ==
    /\ Chained(given)
    /\ \A d \in Grants : given[d] # NoGrant => Narrow(node, given, d)

TxInv == \A t \in Txs : Founded(node, given, assigned, members, policy, tx[t])

OrganizationInv == TablesInv /\ LockInv /\ Hierarchy(node) /\ RightsInv /\ TxInv

LEMMA InvInitially == Init => OrganizationInv
  <1> SUFFICES ASSUME Init PROVE OrganizationInv  OBVIOUS
  <1>1. TablesInv  BY OrganizationAssumption DEF Init, TablesInv, Transaction
  <1>2. \A t \in Txs : tx[t] = Idle /\ ~ Holding(Idle) /\ Idle \notin Checked \cup Delegating
    BY DEF Init, Idle, Holding, Checked, Delegating
  <1>3. LockInv  BY <1>2, OrganizationAssumption DEF LockInv, Init
  <1>4. Hierarchy(node)  BY SeedsAssumption DEF Init
  <1>5. RightsInv  BY DEF RightsInv, Chained, Init
  <1>6. TxInv  BY <1>2 DEF TxInv, Founded
  <1> QED BY <1>1, <1>3, <1>4, <1>5, <1>6 DEF OrganizationInv

\* What the check of a path has shown (_validate_delegation_path)
LEMMA PathFound ==
    ASSUME OrganizationInv, NEW c \in Principals, NEW d \in 0..MaxGrants, d # 0 => given[d] # NoGrant,
           NEW s \in Nodes, NEW acts, NEW period, NEW fresh, PathHolds(c, d, s, acts, period, fresh)
    PROVE  /\ node[s] # Absent
           /\ PrincipalsOf(d, c) = {RootOf(given, d, c)} \cup NamedBy(given, d)
           /\ PrincipalsOf(d, c) \cup fresh \subseteq members
           /\ fresh \cap PrincipalsOf(d, c) = {}
           /\ Root(d, c) = RootOf(given, d, c) /\ LinkedOf(given, d, c)
           /\ Cardinality(PathOf(given, d)) + Cardinality(fresh) <= MaxChain
           /\ \A g \in PathOf(given, d) :
                /\ given[g].revoked = 0 /\ given[g].scope \in Above(node, s)
                /\ acts \subseteq given[g].acts
                /\ given[g].window.from <= period.from /\ period.until <= given[g].window.until
           /\ \E r \in assigned : r.who = RootOf(given, d, c) /\ r.scope \in Above(node, s)
           /\ {RootOf(given, d, c)} \X acts \subseteq policy
  <1>1. Hierarchy(node)  BY DEF OrganizationInv
  <1>2. /\ Path(d) = PathOf(given, d) /\ Root(d, c) = RootOf(given, d, c)
        /\ PrincipalsOf(d, c) = {RootOf(given, d, c)} \cup NamedBy(given, d)
        /\ Linked(d, c) <=> LinkedOf(given, d, c)
    BY StateIsOf
  <1>3. Exists(s)  BY DEF PathHolds, LineageHolds
  <1>4. node[s] # Absent /\ DelegationLineage(s) \subseteq Above(node, s)
    BY <1>1, <1>3, LineageFacts, DelegationLineageIsAbove
  <1>5. /\ PrincipalsOf(d, c) \cup fresh \subseteq members /\ fresh \cap PrincipalsOf(d, c) = {}
        /\ LinkedOf(given, d, c) /\ Cardinality(PathOf(given, d)) + Cardinality(fresh) <= MaxChain
        /\ {RootOf(given, d, c)} \X acts \subseteq policy
    BY <1>2 DEF PathHolds
  <1>6. \A g \in PathOf(given, d) :
          /\ given[g].revoked = 0 /\ given[g].scope \in Above(node, s)
          /\ acts \subseteq given[g].acts
          /\ given[g].window.from <= period.from /\ period.until <= given[g].window.until
    BY <1>2, <1>4 DEF PathHolds, PeriodCovers
  <1>7. \E r \in assigned : r.who = RootOf(given, d, c) /\ r.scope \in Above(node, s)
    BY <1>2, <1>4 DEF PathHolds, RootAssignments
  <1> QED BY <1>2, <1>4, <1>5, <1>6, <1>7
------------------------
(* Every step keeps the invariant. *)

\* A step that no transaction takes
LEMMA Elsewhere ==
    ASSUME OrganizationInv, UNCHANGED <<lock, tx>>,
           now' \in 0..Horizon, assigned' \subseteq Assignment, members' \subseteq Principals,
           policy' \subseteq Principals \X Actions,
           Hierarchy(node'), Grows(node, node'), RightsInv',
           \A t \in Txs : tx[t] \in Checked => tx[t].rows \subseteq assigned',
           \A t \in Txs : Holding(tx[t]) => /\ given' = given /\ assigned \subseteq assigned'
                                            /\ tx[t].held \subseteq members' /\ policy' = policy
    PROVE  OrganizationInv'
  <1>1. TablesInv'  BY DEF OrganizationInv, TablesInv
  <1>2. LockInv'  BY DEF OrganizationInv, LockInv
  <1>3. ASSUME NEW t \in Txs PROVE Founded(node', given', assigned', members', policy', tx[t])
    <2>1. /\ Hierarchy(node) /\ tx[t] \in Transaction
          /\ Founded(node, given, assigned, members, policy, tx[t])
      BY DEF OrganizationInv, TablesInv, TxInv
    <2> DEFINE x == tx[t]
    <2> HIDE DEF x
    <2>2. Founded(node', given', assigned', members', policy', x)  BY <2>1, FoundedKept DEF x
    <2> QED BY <2>2 DEF x
  <1>4. TxInv'  BY <1>3 DEF TxInv
  <1> QED BY <1>1, <1>2, <1>4 DEF OrganizationInv

\* A step of one transaction; the table of delegations is written under the lock.
LEMMA OneStep ==
    ASSUME OrganizationInv, NEW t \in Txs, NEW y \in Transaction, tx' = [tx EXCEPT ![t] = y],
           UNCHANGED <<now, node, assigned, members, policy>>, RightsInv',
           given' = given \/ lock = t,
           Holding(y) => lock \in {NoTx, t} /\ lock' = t,
           ~ Holding(y) => lock' = IF lock = t THEN NoTx ELSE lock,
           Founded(node, given', assigned, members, policy, y)
    PROVE  OrganizationInv'
  <1>0. /\ tx \in [Txs -> Transaction] /\ Hierarchy(node) /\ NoTx \notin Txs
        /\ tx'[t] = y /\ \A u \in Txs : u # t => tx'[u] = tx[u]
    BY OrganizationAssumption DEF OrganizationInv, TablesInv
  <1>1. TablesInv'
    <2>1. tx' \in [Txs -> Transaction]  BY <1>0
    <2>2. lock' \in Txs \cup {NoTx}  BY DEF OrganizationInv, TablesInv
    <2> QED BY <2>1, <2>2 DEF OrganizationInv, TablesInv
  <1>2. LockInv'
    <2>1. \A u \in Txs : lock = u <=> Holding(tx[u])  BY DEF OrganizationInv, LockInv
    <2>2. ASSUME NEW u \in Txs PROVE lock' = u <=> Holding(tx'[u])
      <3>1. CASE u = t  BY <1>0, <3>1
      <3>2. CASE u # t
        <4>1. tx'[u] = tx[u]  BY <1>0, <3>2
        <4>2. CASE Holding(y)  BY <1>0, <2>1, <3>2, <4>1, <4>2
        <4>3. CASE ~ Holding(y)  BY <1>0, <2>1, <3>2, <4>1, <4>3
        <4> QED BY <4>2, <4>3
      <3> QED BY <3>1, <3>2
    <2> QED BY <2>2 DEF LockInv
  <1>3. ASSUME NEW u \in Txs PROVE Founded(node', given', assigned', members', policy', tx'[u])
    <2>1. CASE u = t  BY <1>0, <2>1
    <2>2. CASE u # t
      <3>1. /\ Founded(node, given, assigned, members, policy, tx[u])
            /\ Holding(tx[u]) => given' = given
        BY <2>2 DEF OrganizationInv, TxInv, LockInv
      <3> DEFINE x == tx[u]
      <3>2. x \in Transaction /\ Grows(node, node)  BY <1>0 DEF Grows
      <3>3. x \in Checked => x.rows \subseteq assigned  BY <3>1 DEF Founded, RowsCarry
      <3>4. Holding(x) => x.held \subseteq members  BY <3>1 DEF Founded, PathCarries
      <3>5. Founded(node, given, assigned, members, policy, x) /\ (Holding(x) => given' = given)  BY <3>1
      <3>6. tx'[u] = x  BY <1>0, <2>2
      <3> HIDE DEF x
      <3>7. Founded(node, given', assigned, members, policy, x)  BY <1>0, <3>2, <3>3, <3>4, <3>5, FoundedKept
      <3> QED BY <3>6, <3>7
    <2> QED BY <2>1, <2>2
  <1>4. TxInv'  BY <1>3 DEF TxInv
  <1>5. Hierarchy(node')  BY <1>0
  <1> QED BY <1>1, <1>2, <1>4, <1>5 DEF OrganizationInv

\* What the invariant says of every transaction, for the steps of others
LEMMA TxFacts ==
    ASSUME OrganizationInv
    PROVE  /\ \A t \in Txs : tx[t] \in Checked => tx[t].rows \subseteq assigned
           /\ \A t \in Txs : Holding(tx[t]) => tx[t].held \subseteq members /\ lock = t
           /\ lock = NoTx => \A t \in Txs : ~ Holding(tx[t])
           /\ Grows(node, node)
  <1>1. ASSUME NEW t \in Txs PROVE Founded(node, given, assigned, members, policy, tx[t])
    BY DEF OrganizationInv, TxInv
  <1>2. \A t \in Txs : tx[t] \in Checked => tx[t].rows \subseteq assigned  BY <1>1 DEF Founded, RowsCarry
  <1>3. \A t \in Txs : Holding(tx[t]) => tx[t].held \subseteq members  BY <1>1 DEF Founded, PathCarries
  <1>4. \A t \in Txs : lock = t <=> Holding(tx[t])  BY DEF OrganizationInv, LockInv
  <1> QED BY <1>2, <1>3, <1>4, OrganizationAssumption DEF Grows

LEMMA InsertKeeps ==
    ASSUME OrganizationInv, NEW k \in Kinds, NEW o \in 0..MaxNodes, NEW p \in 0..MaxNodes,
           NEW until \in {1, Forever}, Insert(k, o, p, until)
    PROVE  OrganizationInv'
  <1>1. UNCHANGED <<now, assigned, given, members, policy, lock, tx>>  BY DEF Insert, authorityVars
  <1>2. until \in Time  BY OrganizationAssumption DEF Time, Forever
  <1>3. Hierarchy(node) /\ Fits(node, k, o, p)  BY DEF OrganizationInv, Insert, MayCreate
  <1>4. PICK n \in Nodes :
          /\ node[n].kind = "none" /\ \A m \in Nodes : m < n => node[m].kind # "none"
          /\ node' = [node EXCEPT ![n] = [kind |-> k, owner |-> o, parent |-> p, until |-> until]]
    BY DEF Insert, Exists
  <1>5. Hierarchy(node') /\ Grows(node, node')  BY <1>2, <1>3, <1>4, RowAdded
  <1>6. RightsInv'
    <2>1. Chained(given) /\ \A d \in Grants : given[d] # NoGrant => Narrow(node, given, d)
      BY DEF OrganizationInv, RightsInv
    <2>2. Extends(given, given)  BY DEF Extends
    <2>3. \A d \in Grants : given[d] # NoGrant => Narrow(node', given, d)
      BY <1>3, <1>5, <2>1, <2>2, NarrowKept DEF Grows
    <2> QED BY <1>1, <2>1, <2>3 DEF RightsInv
  <1> QED BY <1>1, <1>5, <1>6, Elsewhere, TxFacts DEF OrganizationInv, TablesInv

LEMMA CreateNodeKeeps == OrganizationInv /\ CreateNode => OrganizationInv'
  <1> SUFFICES ASSUME OrganizationInv, CreateNode PROVE OrganizationInv'  OBVIOUS
  <1>1. PICK until \in {1, Forever} :
          \/ CreateEnterpriseGroup(until)
          \/ \E o \in Nodes :
               CreateLegalEntity(o, until) \/ CreateCompany(o, until) \/ CreateFinancialDimension(o, until)
          \/ \E o \in Nodes, p \in 0..MaxNodes :
               \/ CreateOrgUnit(o, p, until) \/ CreateRegion(o, p, until)
               \/ CreateOperatingSite(o, p, until) \/ CreateWarehouse(o, p, until)
               \/ CreateWarehouseLocation(o, p, until)
    BY DEF CreateNode
  <1>2. \E k \in Kinds, o \in 0..MaxNodes, p \in 0..MaxNodes : Insert(k, o, p, until)
    <2>1. /\ 0 \in 0..MaxNodes /\ Nodes \subseteq 0..MaxNodes  BY OrganizationAssumption DEF Nodes
    <2>2. {"enterprise_group", "legal_entity", "company", "org_unit", "region", "operating_site",
           "financial_dimension", "warehouse", "warehouse_location"} \subseteq Kinds
      BY DEF Kinds, OwnerKind
    <2>3. CASE CreateEnterpriseGroup(until)  BY <2>1, <2>2, <2>3 DEF CreateEnterpriseGroup
    <2>4. CASE \E o \in Nodes :
                 CreateLegalEntity(o, until) \/ CreateCompany(o, until) \/ CreateFinancialDimension(o, until)
      BY <2>1, <2>2, <2>4 DEF CreateLegalEntity, CreateCompany, CreateFinancialDimension
    <2>5. CASE \E o \in Nodes, p \in 0..MaxNodes :
                 \/ CreateOrgUnit(o, p, until) \/ CreateRegion(o, p, until)
                 \/ CreateOperatingSite(o, p, until) \/ CreateWarehouse(o, p, until)
                 \/ CreateWarehouseLocation(o, p, until)
      <3>1. PICK o \in Nodes, p \in 0..MaxNodes :
               \/ CreateOrgUnit(o, p, until) \/ CreateRegion(o, p, until)
               \/ CreateOperatingSite(o, p, until) \/ CreateWarehouse(o, p, until)
               \/ CreateWarehouseLocation(o, p, until)
        BY <2>5
      <3>2. o \in 0..MaxNodes  BY <2>1
      <3> QED  BY <2>2, <3>1, <3>2
           DEF CreateOrgUnit, CreateRegion, CreateOperatingSite, CreateWarehouse, CreateWarehouseLocation
    <2> QED BY <1>1, <2>3, <2>4, <2>5
  <1> QED BY <1>2, InsertKeeps

LEMMA AssignmentKeeps == OrganizationInv /\ AssignmentStep => OrganizationInv'
  <1> SUFFICES ASSUME OrganizationInv, AssignmentStep PROVE OrganizationInv'  OBVIOUS
  <1>0. /\ Hierarchy(node) /\ RightsInv /\ TablesInv  BY DEF OrganizationInv
  <1>1. ASSUME NEW p \in Principals, NEW s \in Scopes, NEW w \in Windows, AssignPrincipal(p, s, w)
        PROVE  OrganizationInv'
    <2>1. /\ UNCHANGED <<now, node, given, members, policy, lock, tx>>
          /\ assigned' = assigned \cup {[who |-> p, scope |-> s, window |-> w]}
      BY <1>1 DEF AssignPrincipal, authorityVars
    <2>2. [who |-> p, scope |-> s, window |-> w] \in Assignment  BY WindowsAssumption DEF Assignment, Scopes
    <2>3. assigned' \subseteq Assignment /\ assigned \subseteq assigned'  BY <1>0, <2>1, <2>2 DEF TablesInv
    <2>4. RightsInv' /\ Hierarchy(node')  BY <1>0, <2>1 DEF RightsInv
    <2> QED BY <1>0, <2>1, <2>3, <2>4, Elsewhere, TxFacts DEF TablesInv
  <1>2. ASSUME NEW r \in assigned, RevokeAssignment(r) PROVE OrganizationInv'
    <2>1. /\ UNCHANGED <<now, node, given, members, policy, lock, tx>> /\ lock = NoTx
          /\ assigned' = assigned \ {r} /\ \A t \in Txs : ~ Locked(t, r)
      BY <1>2 DEF RevokeAssignment, authorityVars
    <2>2. \A t \in Txs : ~ Holding(tx[t])  BY <2>1, TxFacts
    <2>3. ASSUME NEW t \in Txs, tx[t] \in Checked PROVE tx[t].rows \subseteq assigned'
      <3>1. tx[t].pc \in {"checked", "decided"}  BY <2>3 DEF Checked
      <3>2. r \notin tx[t].rows  BY <2>1, <3>1 DEF Locked
      <3> QED BY <2>1, <2>3, <3>2, TxFacts
    <2>4. RightsInv' /\ Hierarchy(node')  BY <1>0, <2>1 DEF RightsInv
    <2> QED BY <1>0, <2>1, <2>2, <2>3, <2>4, Elsewhere, TxFacts DEF TablesInv
  <1> QED BY <1>1, <1>2 DEF AssignmentStep

LEMMA RevokeDelegationKeeps ==
    ASSUME OrganizationInv, NEW d \in Grants, RevokeOrganizationDelegation(d)
    PROVE  OrganizationInv'
  <1>0. Hierarchy(node) /\ TablesInv /\ Chained(given)  BY DEF OrganizationInv, RightsInv
  <1>1. /\ UNCHANGED <<now, node, assigned, members, policy, lock, tx>> /\ lock = NoTx
        /\ given[d] # NoGrant /\ given' = [given EXCEPT ![d].revoked = 1]
    BY DEF RevokeOrganizationDelegation, authorityVars
  <1>2. Chained(given') /\ Extends(given, given') /\ \A g \in Grants : given'[g] = NoGrant <=> given[g] = NoGrant
    <2> DEFINE w == [given EXCEPT ![d].revoked = 1]
    <2>1. w = [given EXCEPT ![d].revoked = 1] /\ given' = w  BY <1>1
    <2> HIDE DEF w
    <2>2. Chained(w) /\ Extends(given, w) /\ \A g \in Grants : w[g] = NoGrant <=> given[g] = NoGrant
      <3>1. Chained(given) /\ given[d] # NoGrant  BY <1>0, <1>1
      <3>2. given \in [Grants -> Delegation \cup {NoGrant}] /\ given[d] \in Delegation
        BY <3>1, GrantFacts DEF Chained
      <3>3. w \in [Grants -> Delegation \cup {NoGrant}]
        <4>1. [given[d] EXCEPT !.revoked = 1] \in Delegation  BY <3>2 DEF Delegation
        <4> QED BY <2>1, <3>2, <4>1
      <3>4. w[d] = [given[d] EXCEPT !.revoked = 1] /\ \A g \in Grants : g # d => w[g] = given[g]  BY <2>1, <3>2
      <3> QED BY <3>1, <3>3, <3>4, GrantRevoked
    <2> QED BY <2>1, <2>2
  <1>3. ASSUME NEW g \in Grants, given'[g] # NoGrant PROVE Narrow(node, given', g)
    <2>1. given[g] # NoGrant /\ Narrow(node, given, g)  BY <1>2, <1>3 DEF OrganizationInv, RightsInv
    <2> QED BY <1>0, <1>2, <2>1, NarrowKept
  <1>4. RightsInv' /\ Hierarchy(node')  BY <1>0, <1>1, <1>2, <1>3 DEF RightsInv
  <1> QED BY <1>0, <1>1, <1>4, Elsewhere, TxFacts DEF TablesInv

LEMMA DelegateScopeKeeps ==
    ASSUME OrganizationInv, NEW t \in Txs, NEW p \in Principals, NEW to \in Principals,
           NEW d \in Sources, NEW s \in Scopes, NEW acts \in SUBSET Actions, NEW w \in Windows,
           DelegateScope(t, p, d, to, s, acts, w)
    PROVE  OrganizationInv'
  <1>0. /\ Hierarchy(node) /\ TablesInv /\ Chained(given) /\ RightsInv
        /\ d \in 0..MaxGrants /\ (d # 0 => given[d] # NoGrant) /\ s \in Nodes
        /\ w \in Window
    BY OrganizationAssumption, WindowsAssumption DEF OrganizationInv, RightsInv, Sources, Scopes, Grants
  <1> DEFINE row == [grantor |-> p, recipient |-> to, scope |-> s, acts |-> acts, window |-> w,
                     parent |-> d, revoked |-> 0]
             carried == {r \in assigned : r.who = Root(d, p)}
             held == PrincipalsOf(d, p) \cup {to}
             y == [pc |-> "decided", op |-> "delegate", who |-> p, via |-> d, sel |-> {s},
                   acts |-> acts, rows |-> carried, held |-> held, row |-> row]
  <1>1. /\ UNCHANGED <<now, node, assigned, given, members, policy>>
        /\ lock = NoTx /\ lock' = t /\ tx' = [tx EXCEPT ![t] = y]
        /\ PathHolds(p, d, s, acts, w, {to})
    BY DEF DelegateScope, orgVars, authorityVars
  <1> DEFINE root == RootOf(given, d, p)
  <1>2. /\ node[s] # Absent /\ PrincipalsOf(d, p) = {root} \cup NamedBy(given, d)
        /\ held \subseteq members /\ {to} \cap PrincipalsOf(d, p) = {} /\ LinkedOf(given, d, p)
        /\ Cardinality(PathOf(given, d)) + Cardinality({to}) <= MaxChain
        /\ \A g \in PathOf(given, d) :
             /\ given[g].revoked = 0 /\ given[g].scope \in Above(node, s)
             /\ acts \subseteq given[g].acts
             /\ given[g].window.from <= w.from /\ w.until <= given[g].window.until
        /\ \E r \in assigned : r.who = root /\ r.scope \in Above(node, s)
        /\ {root} \X acts \subseteq policy
    BY <1>0, <1>1, PathFound
  <1>3. row \in Delegation  BY <1>0 DEF Delegation
  <1>4. carried \in SUBSET Assignment /\ held \in SUBSET Principals  BY <1>0, <1>2 DEF TablesInv
  <1>5. y \in Delegating
    <2> HIDE DEF row, carried, held
    <2> QED BY <1>0, <1>3, <1>4 DEF Delegating
  <1>6. y \in Transaction /\ Holding(y) /\ y \notin Checked  BY <1>5, TransactionKinds DEF Transaction
  <1>7. y.via = d /\ y.who = p /\ y.sel = {s} /\ y.held = held /\ y.acts = acts /\ y.row = row  OBVIOUS
  <1>8. /\ row.parent = d /\ row.grantor = p /\ row.recipient = to /\ row.scope = s
        /\ row.acts = acts /\ row.window = w
    OBVIOUS
  <1> HIDE DEF y, row, carried
  <1>9. PathCarries(node, given, assigned, members, policy, y)
    <2>1. LeavesOf(node, {s}) \subseteq {s}  BY DEF LeavesOf
    <2> QED BY <1>0, <1>2, <1>7, <2>1 DEF PathCarries
  <1>10. RowFits(node, given, row)
    <2>1. Cardinality({to}) = 1  BY FS_Singleton
    <2>2. Within(node, given, d, row)  BY <1>2, <1>8 DEF Within
    <2>3. to \notin {root} \cup NamedBy(given, d)  BY <1>2
    <2>4. Cardinality(PathOf(given, d)) + 1 <= MaxChain  BY <1>2, <2>1
    <2>5. (d # 0 => given[d] # NoGrant) /\ node[s] # Absent /\ LinkedOf(given, d, p)  BY <1>0, <1>2
    <2> HIDE DEF held
    <2> QED BY <1>8, <2>2, <2>3, <2>4, <2>5 DEF RowFits
  <1>11. Founded(node, given, assigned, members, policy, y)  BY <1>2, <1>6, <1>7, <1>9, <1>10 DEF Founded
  <1>12. RightsInv'  BY <1>0, <1>1 DEF RightsInv
  <1>13. Founded(node, given', assigned, members, policy, y)  BY <1>1, <1>11
  <1> QED BY <1>1, <1>6, <1>12, <1>13, OneStep

LEMMA SelectDirectKeeps ==
    ASSUME OrganizationInv, NEW t \in Txs, NEW p \in Principals, NEW S \in Selections,
           SelectDirect(t, p, S)
    PROVE  OrganizationInv'
  <1>0. /\ Hierarchy(node) /\ RightsInv /\ NoTx \notin Txs /\ S \in SUBSET Nodes
    BY OrganizationAssumption DEF OrganizationInv, Selections, Scopes
  <1> DEFINE y == [pc |-> "resolved", op |-> "select", who |-> p, via |-> 0, sel |-> S]
  <1>1. /\ UNCHANGED <<now, node, assigned, given, members, policy, lock>> /\ tx[t] = Idle
        /\ tx' = [tx EXCEPT ![t] = y] /\ Resolves(S)
    BY DEF SelectDirect, orgVars, authorityVars
  <1>2. y \in Resolved  BY <1>0 DEF Resolved
  <1>3. y \in Transaction /\ ~ Holding(y) /\ y \notin Checked /\ y \notin Delegating /\ y.sel = S
    BY <1>2 DEF Transaction, Holding, Checked, Delegating
  <1> HIDE DEF y
  <1>4. \A n \in S : node[n] # Absent  BY <1>0, <1>1, LineageFacts DEF Resolves, LineageHolds
  <1>5. Founded(node, given', assigned, members, policy, y)  BY <1>3, <1>4 DEF Founded
  <1>6. lock # t  BY <1>1 DEF OrganizationInv, LockInv, Holding, Idle
  <1>7. RightsInv'  BY <1>0, <1>1 DEF RightsInv
  <1> QED BY <1>1, <1>3, <1>5, <1>6, <1>7, OneStep

LEMMA CheckAssignmentsKeeps ==
    ASSUME OrganizationInv, NEW t \in Txs, CheckAssignments(t)
    PROVE  OrganizationInv'
  <1> DEFINE x == tx[t]
             carried == IF x.sel = {} THEN {} ELSE CurrentAssignments(x.who)
             y == [pc |-> "checked", op |-> "select", who |-> x.who, via |-> 0, sel |-> x.sel,
                   held |-> {}, rows |-> carried]
  <1>0. /\ Hierarchy(node) /\ RightsInv /\ TablesInv /\ x \in Transaction
        /\ Founded(node, given, assigned, members, policy, x) /\ (lock = t <=> Holding(x))
    BY DEF OrganizationInv, TablesInv, TxInv, LockInv
  <1>1. /\ UNCHANGED <<now, node, assigned, given, members, policy, lock>>
        /\ x.pc = "resolved" /\ AuthorizedByAny(x.sel, AssignedScopes(x.who))
        /\ tx' = [tx EXCEPT ![t] = y]
    BY DEF CheckAssignments, orgVars, authorityVars
  <1> HIDE DEF x
  <1>2. /\ x # Idle /\ x.sel \in SUBSET Nodes /\ x.who \in Principals
        /\ ~ Holding(x) /\ \A n \in x.sel : node[n] # Absent
    BY <1>0, <1>1, TransactionKinds DEF Idle, Holding, Founded
  <1>3. carried \subseteq assigned /\ \A r \in carried : r.who = x.who  BY DEF CurrentAssignments
  <1>4. ASSUME NEW n \in x.sel PROVE \E r \in carried : r.scope \in Above(node, n)
    <2>1. PICK s \in Lineage(n) : s \in AssignedScopes(x.who)  BY <1>1, <1>4 DEF AuthorizedByAny
    <2>2. PICK r \in CurrentAssignments(x.who) : s = r.scope  BY <2>1 DEF AssignedScopes
    <2>3. Lineage(n) = Above(node, n)  BY <1>0, <1>2, LineageFacts
    <2>4. r \in carried  BY <1>4, <2>2
    <2> HIDE DEF carried
    <2> QED BY <2>1, <2>2, <2>3, <2>4
  <1>5. y \in Checked
    <2>1. carried \in SUBSET Assignment  BY <1>0, <1>3 DEF TablesInv
    <2> HIDE DEF carried
    <2> QED BY <1>2, <2>1 DEF Checked
  <1>6. y.who = x.who /\ y.sel = x.sel /\ y.rows = carried  OBVIOUS
  <1> HIDE DEF y, carried
  <1>7. y \in Transaction /\ ~ Holding(y) /\ y \notin Delegating
    <2>1. y \in Transaction  BY <1>5 DEF Transaction
    <2> QED BY <1>5, <2>1, TransactionKinds
  <1>8. RowsCarry(node, assigned, y)  BY <1>3, <1>4, <1>6 DEF RowsCarry
  <1>9. Founded(node, given', assigned, members, policy, y)  BY <1>2, <1>6, <1>7, <1>8 DEF Founded
  <1>10. RightsInv'  BY <1>0, <1>1 DEF RightsInv
  <1> QED BY <1>0, <1>1, <1>2, <1>7, <1>9, <1>10, OneStep

LEMMA CheckMembershipKeeps ==
    ASSUME OrganizationInv, NEW t \in Txs, CheckMembership(t)
    PROVE  OrganizationInv'
  <1> DEFINE x == tx[t]
             y == [x EXCEPT !.pc = "decided"]
  <1>0. /\ Hierarchy(node) /\ RightsInv /\ TablesInv /\ x \in Transaction
        /\ tx \in [Txs -> Transaction]
        /\ Founded(node, given, assigned, members, policy, x) /\ (lock = t <=> Holding(x))
    BY DEF OrganizationInv, TablesInv, TxInv, LockInv
  <1>1. /\ UNCHANGED <<now, node, assigned, given, members, policy, lock>> /\ x.pc = "checked"
        /\ tx' = [tx EXCEPT ![t].pc = "decided"]
    BY DEF CheckMembership, orgVars, authorityVars
  <1>2. tx' = [tx EXCEPT ![t] = y]  BY <1>0, <1>1
  <1> HIDE DEF x
  <1>3. x \in Checked /\ ~ Holding(x) /\ x # Idle  BY <1>0, <1>1, TransactionKinds DEF Idle
  <1>4. y \in Checked /\ y.who = x.who /\ y.sel = x.sel /\ y.rows = x.rows  BY <1>3 DEF Checked
  <1> HIDE DEF y
  <1>5. y \in Transaction /\ ~ Holding(y) /\ y \notin Delegating
    <2>1. y \in Transaction  BY <1>4 DEF Transaction
    <2> QED BY <1>4, <2>1, TransactionKinds
  <1>6. Founded(node, given', assigned, members, policy, y)  BY <1>0, <1>3, <1>4, <1>5 DEF Founded, RowsCarry
  <1>7. RightsInv'  BY <1>0, <1>1 DEF RightsInv
  <1> QED BY <1>0, <1>1, <1>2, <1>3, <1>5, <1>6, <1>7, OneStep

\* Of selected rows the last created one is a leaf.
LEMMA LeafExists ==
    ASSUME NEW h, Hierarchy(h), NEW S \in SUBSET Nodes, S # {}
    PROVE  LeavesOf(h, S) # {}
  <1>0. MaxNodes \in Nat /\ Nodes = 1..MaxNodes  BY OrganizationAssumption DEF Nodes
  <1> DEFINE T == {MaxNodes - n : n \in S}
  <1>1. T \subseteq Nat /\ T # {}
    <2>1. \A n \in S : MaxNodes - n \in Nat  BY <1>0
    <2> QED BY <2>1
  <1>2. PICK k \in T : \A i \in T : k <= i
    <2> HIDE DEF T
    <2> QED BY <1>1, LeastNumber
  <1>3. PICK a \in S : k = MaxNodes - a  BY <1>2
  <1>4. \A b \in S : b \in Nat /\ a \in Nat /\ b <= a
    <2> SUFFICES ASSUME NEW b \in S PROVE b \in Nat /\ a \in Nat /\ b <= a  OBVIOUS
    <2>1. MaxNodes - a <= MaxNodes - b  BY <1>2, <1>3
    <2>2. a \in Nat /\ b \in Nat  BY <1>0
    <2> QED BY <1>0, <2>1, <2>2
  <1>5. \A b \in S \ {a} : a \notin Above(h, b)
    <2> SUFFICES ASSUME NEW b \in S \ {a}, a \in Above(h, b) PROVE FALSE  OBVIOUS
    <2>1. a <= b  BY AboveBefore
    <2>2. b <= a /\ a \in Nat /\ b \in Nat /\ b # a  BY <1>4
    <2> QED BY <2>1, <2>2
  <1> QED BY <1>5 DEF LeavesOf

LEMMA SelectDelegatedKeeps ==
    ASSUME OrganizationInv, NEW t \in Txs, NEW p \in Principals, NEW S \in Selections,
           NEW d \in Sources \ {0}, NEW a \in Actions, SelectDelegated(t, p, S, d, a)
    PROVE  OrganizationInv'
  <1>0. /\ Hierarchy(node) /\ TablesInv /\ Chained(given) /\ RightsInv
        /\ d \in Grants /\ d \in 0..MaxGrants /\ d # 0 /\ given[d] # NoGrant /\ S \in SUBSET Nodes
    BY OrganizationAssumption DEF OrganizationInv, RightsInv, Sources, Selections, Scopes, Grants
  <1> DEFINE carried == {r \in assigned : r.who = Root(d, p)}
             held == PrincipalsOf(d, p)
             y == [pc |-> "decided", op |-> "select", who |-> p, via |-> d, sel |-> S,
                   acts |-> {a}, rows |-> carried, held |-> held]
             root == RootOf(given, d, p)
  <1>1. /\ UNCHANGED <<now, node, assigned, given, members, policy>>
        /\ lock = NoTx /\ lock' = t /\ tx' = [tx EXCEPT ![t] = y]
        /\ Resolves(S) /\ S # {}
        /\ \A leaf \in Leaves(S) : PathHolds(p, d, leaf, {a}, [from |-> now, until |-> now + 1], {})
    BY DEF SelectDelegated, orgVars, authorityVars
  <1>2. \A n \in S : node[n] # Absent /\ Lineage(n) = Above(node, n)
    BY <1>0, <1>1, LineageFacts DEF Resolves, LineageHolds
  <1>3. Leaves(S) = LeavesOf(node, S) /\ LeavesOf(node, S) # {} /\ LeavesOf(node, S) \subseteq S
    <2>1. Leaves(S) = LeavesOf(node, S)  BY <1>2 DEF Leaves, LeavesOf
    <2> QED BY <1>0, <1>1, <2>1, LeafExists DEF LeavesOf
  <1>4. ASSUME NEW n \in LeavesOf(node, S)
        PROVE  /\ PrincipalsOf(d, p) \subseteq members
               /\ \A g \in PathOf(given, d) : given[g].revoked = 0
               /\ \E r \in assigned : r.who = root /\ r.scope \in Above(node, n)
               /\ {root} \X {a} \subseteq policy
    <2>1. n \in Nodes /\ PathHolds(p, d, n, {a}, [from |-> now, until |-> now + 1], {})  BY <1>0, <1>1, <1>3
    <2>2. /\ PrincipalsOf(d, p) \cup {} \subseteq members
          /\ \A g \in PathOf(given, d) : given[g].revoked = 0
          /\ \E r \in assigned : r.who = root /\ r.scope \in Above(node, n)
          /\ {root} \X {a} \subseteq policy
      BY <1>0, <2>1, PathFound
    <2> QED BY <2>2
  <1>5. carried \in SUBSET Assignment /\ held \in SUBSET Principals  BY <1>0, <1>3, <1>4 DEF TablesInv
  <1>6. y \in Selecting
    <2> HIDE DEF carried, held
    <2> QED BY <1>0, <1>5 DEF Selecting
  <1>7. y.via = d /\ y.who = p /\ y.sel = S /\ y.held = held /\ y.acts = {a}  OBVIOUS
  <1> HIDE DEF y, carried
  <1>8. y \in Transaction /\ Holding(y) /\ y \notin Checked /\ y \notin Delegating
    <2>1. y \in Transaction  BY <1>6 DEF Transaction
    <2>2. y.op # "delegate"  BY <1>6 DEF Selecting
    <2> QED BY <1>6, <2>1, <2>2, TransactionKinds DEF Delegating
  <1>9. PathCarries(node, given, assigned, members, policy, y)  BY <1>0, <1>3, <1>4, <1>7 DEF PathCarries
  <1>10. Founded(node, given', assigned, members, policy, y)  BY <1>1, <1>2, <1>7, <1>8, <1>9 DEF Founded
  <1>11. RightsInv'  BY <1>0, <1>1 DEF RightsInv
  <1> QED BY <1>1, <1>8, <1>10, <1>11, OneStep

LEMMA IdleIsFounded ==
    /\ Idle \in Transaction /\ ~ Holding(Idle)
    /\ \A h, v, a, m, p : Founded(h, v, a, m, p, Idle)
  BY DEF Transaction, Holding, Idle, Founded, Checked, Delegating

LEMMA WriteKeepsRights ==
    ASSUME OrganizationInv, UNCHANGED node, NEW t \in Txs, tx[t] \in Delegating,
           NEW g \in Grants, given[g] = NoGrant, \A h \in Grants : h < g => given[h] # NoGrant,
           given' = [given EXCEPT ![g] = tx[t].row]
    PROVE  RightsInv'
  <1> DEFINE s == tx[t].row
             w == [given EXCEPT ![g] = s]
  <1>0. Hierarchy(node) /\ Chained(given) /\ given' = w  BY DEF OrganizationInv, RightsInv
  <1>1. s \in Delegation /\ RowFits(node, given, s)  BY DEF Delegating, OrganizationInv, TxInv, Founded
  <1>2. w = [given EXCEPT ![g] = s]  OBVIOUS
  <1> HIDE DEF s, w
  <1>3. s.parent # 0 => given[s.parent] # NoGrant  BY <1>1 DEF RowFits
  <1>4. Chained(w) /\ Extends(given, w) /\ w[g] = s /\ \A d \in Grants : d # g => w[d] = given[d]
    <2>1. given \in [Grants -> Delegation \cup {NoGrant}]  BY <1>0 DEF Chained
    <2>2. w \in [Grants -> Delegation \cup {NoGrant}] /\ w[g] = s /\ \A d \in Grants : d # g => w[d] = given[d]
      BY <1>1, <1>2, <2>1
    <2> QED BY <1>0, <1>1, <1>3, <2>2, GrantWritten
  <1>5. Narrow(node, w, g)
    <2>0. s.parent \in 0..MaxGrants /\ s.scope \in Nodes  BY <1>1 DEF Delegation
    <2> DEFINE p == s.parent
               c == s.grantor
    <2>1. /\ PathOf(w, p) = PathOf(given, p) /\ RootOf(w, p, c) = RootOf(given, p, c)
          /\ NamedBy(w, p) = NamedBy(given, p)
          /\ LinkedOf(given, p, c) => LinkedOf(w, p, c)
          /\ \A h, r : Within(h, given, p, r) => Within(h, w, p, r)
      <3> HIDE DEF p, c
      <3>1. p \in 0..MaxGrants /\ (p = 0 \/ given[p] # NoGrant)  BY <1>3, <2>0 DEF p
      <3> QED BY <1>0, <1>4, <3>1, NamesKept
    <2>2. /\ node[s.scope] # Absent /\ LinkedOf(w, p, c)
          /\ s.recipient \notin {RootOf(w, p, c)} \cup NamedBy(w, p)
          /\ Cardinality(PathOf(w, p)) + 1 <= MaxChain
          /\ Within(node, w, p, s)
      BY <1>1, <2>1 DEF RowFits
    <2> QED BY <1>0, <1>1, <1>4, <2>0, <2>2, NewIsNarrow
  <1>6. ASSUME NEW d \in Grants, w[d] # NoGrant PROVE Narrow(node, w, d)
    <2>1. CASE d = g  BY <1>5, <2>1
    <2>2. CASE d # g
      <3>1. given[d] # NoGrant /\ Narrow(node, given, d)  BY <1>4, <1>6, <2>2 DEF OrganizationInv, RightsInv
      <3> QED BY <1>0, <1>4, <3>1, NarrowKept
    <2> QED BY <2>1, <2>2
  <1> QED BY <1>0, <1>4, <1>6 DEF RightsInv

LEMMA CommitKeeps ==
    ASSUME OrganizationInv, NEW t \in Txs, Commit(t)
    PROVE  OrganizationInv'
  <1>0. /\ RightsInv /\ tx[t] \in Transaction /\ (lock = t <=> Holding(tx[t]))
    BY DEF OrganizationInv, TablesInv, LockInv
  <1>1. /\ UNCHANGED <<now, node, assigned, members, policy>> /\ tx[t].pc = "decided"
        /\ tx' = [tx EXCEPT ![t] = Idle] /\ lock' = IF lock = t THEN NoTx ELSE lock
    BY DEF Commit, Unlock, authorityVars
  <1>2. RightsInv' /\ (given' = given \/ lock = t)
    <2>1. CASE tx[t].op = "delegate"
      <3>1. PICK g \in Grants :
              /\ given[g] = NoGrant /\ \A h \in Grants : h < g => given[h] # NoGrant
              /\ given' = [given EXCEPT ![g] = tx[t].row]
        BY <2>1 DEF Commit
      <3>2. tx[t] \in Delegating /\ Holding(tx[t])  BY <1>0, <1>1, <2>1, TransactionKinds
      <3> QED BY <1>0, <1>1, <3>1, <3>2, WriteKeepsRights
    <2>2. CASE tx[t].op # "delegate"
      <3>1. given' = given  BY <2>2 DEF Commit
      <3> QED BY <1>0, <1>1, <3>1 DEF RightsInv
    <2> QED BY <2>1, <2>2
  <1> QED BY <1>1, <1>2, IdleIsFounded, OneStep

LEMMA RollbackKeeps ==
    ASSUME OrganizationInv, NEW t \in Txs, Rollback(t)
    PROVE  OrganizationInv'
  <1>1. /\ UNCHANGED <<now, node, assigned, given, members, policy>>
        /\ tx' = [tx EXCEPT ![t] = Idle] /\ lock' = IF lock = t THEN NoTx ELSE lock
    BY DEF Rollback, Unlock, orgVars, authorityVars
  <1>2. RightsInv'  BY <1>1 DEF OrganizationInv, RightsInv
  <1> QED BY <1>1, <1>2, IdleIsFounded, OneStep

LEMMA AuthorityKeeps ==
    ASSUME OrganizationInv, NEW p \in Principals,
           RevokeMembership(p) \/ \E a \in Actions : WithdrawAction(p, a)
    PROVE  OrganizationInv'
  <1>0. Hierarchy(node) /\ RightsInv /\ TablesInv  BY DEF OrganizationInv
  <1>1. CASE RevokeMembership(p)
    <2>1. /\ UNCHANGED <<now, node, assigned, given, policy, lock, tx>> /\ members' = members \ {p}
          /\ \A t \in Txs : tx[t].pc = "decided" => p \notin tx[t].held
      BY <1>1 DEF RevokeMembership, orgVars
    <2>2. ASSUME NEW t \in Txs, Holding(tx[t]) PROVE tx[t].held \subseteq members'
      BY <2>1, <2>2, TxFacts DEF Holding
    <2>3. RightsInv' /\ Hierarchy(node')  BY <1>0, <2>1 DEF RightsInv
    <2> QED BY <1>0, <2>1, <2>2, <2>3, Elsewhere, TxFacts DEF TablesInv
  <1>2. CASE \E a \in Actions : WithdrawAction(p, a)
    <2>1. /\ UNCHANGED <<now, node, assigned, given, members, lock, tx>> /\ lock = NoTx
          /\ policy' \subseteq policy
      BY <1>2 DEF WithdrawAction, orgVars
    <2>2. RightsInv' /\ Hierarchy(node')  BY <1>0, <2>1 DEF RightsInv
    <2> QED BY <1>0, <2>1, <2>2, Elsewhere, TxFacts DEF TablesInv
  <1> QED BY <1>1, <1>2

LEMMA TickKeeps == OrganizationInv /\ Tick => OrganizationInv'
  <1> SUFFICES ASSUME OrganizationInv, Tick PROVE OrganizationInv'  OBVIOUS
  <1>0. Hierarchy(node) /\ RightsInv /\ TablesInv  BY DEF OrganizationInv
  <1>1. /\ UNCHANGED <<node, assigned, given, members, policy, lock, tx>>
        /\ now' = now + 1 /\ now < Horizon
    BY DEF Tick, orgVars, authorityVars
  <1>2. now' \in 0..Horizon  BY <1>0, <1>1, OrganizationAssumption DEF TablesInv
  <1>3. RightsInv' /\ Hierarchy(node')  BY <1>0, <1>1 DEF RightsInv
  <1> QED BY <1>0, <1>1, <1>2, <1>3, Elsewhere, TxFacts DEF TablesInv

LEMMA InvKept == OrganizationInv /\ [Next]_vars => OrganizationInv'
  <1> SUFFICES ASSUME OrganizationInv, [Next]_vars PROVE OrganizationInv'  OBVIOUS
  <1>1. CASE CreateNode  BY <1>1, CreateNodeKeeps
  <1>2. CASE AssignmentStep  BY <1>2, AssignmentKeeps
  <1>3. CASE DelegationStep  BY <1>3, DelegateScopeKeeps, RevokeDelegationKeeps DEF DelegationStep
  <1>4. CASE SelectionStep
    BY <1>4, SelectDirectKeeps, CheckAssignmentsKeeps, CheckMembershipKeeps, SelectDelegatedKeeps
       DEF SelectionStep
  <1>5. CASE \E t \in Txs : Commit(t) \/ Rollback(t)  BY <1>5, CommitKeeps, RollbackKeeps
  <1>6. CASE \E p \in Principals : RevokeMembership(p) \/ \E a \in Actions : WithdrawAction(p, a)
    BY <1>6, AuthorityKeeps
  <1>7. CASE Tick  BY <1>7, TickKeeps
  <1>8. CASE UNCHANGED vars
    <2>1. UNCHANGED <<now, node, assigned, given, members, policy, lock, tx>>  BY <1>8 DEF vars
    <2>2. Hierarchy(node) /\ RightsInv /\ TablesInv  BY DEF OrganizationInv
    <2>3. RightsInv' /\ Hierarchy(node')  BY <2>1, <2>2 DEF RightsInv
    <2> QED BY <2>1, <2>2, <2>3, Elsewhere, TxFacts DEF TablesInv
  <1> QED BY <1>1, <1>2, <1>3, <1>4, <1>5, <1>6, <1>7, <1>8 DEF Next

LEMMA OrganizationInvariant == Spec => []OrganizationInv
  BY InvInitially, InvKept, PTL DEF Spec
------------------------
(* The theorems. *)

LEMMA StructureFollows == OrganizationInv => StructureSound
  <1> SUFFICES ASSUME OrganizationInv PROVE StructureSound  OBVIOUS
  <1>0. Hierarchy(node) /\ RightsInv /\ TablesInv /\ LockInv  BY DEF OrganizationInv
  <1>1. TypeOK
    <2>1. node \in [Nodes -> NodeRow \cup {Absent}] /\ given \in [Grants -> Delegation \cup {NoGrant}]
      BY <1>0 DEF Hierarchy, RightsInv, Chained
    <2>2. ASSUME NEW t \in Txs
          PROVE  /\ tx[t].pc \in {"idle", "resolved", "checked", "decided"}
                 /\ lock = t <=> Decided(t) /\ (tx[t].op = "delegate" \/ tx[t].via # 0)
      <3>1. tx[t] \in Transaction  BY <1>0 DEF TablesInv
      <3> QED BY <1>0, <3>1, TransactionKinds DEF LockInv, Holding, Decided
    <2> QED BY <1>0, <2>1, <2>2 DEF TypeOK, TablesInv
  <1>2. OneLine  BY <1>0, LinesAreSingle
  <1>3. DelegationsNarrow
    <2> SUFFICES ASSUME NEW d \in Grants, given[d] # NoGrant
                 PROVE  /\ Linked(d, given[d].recipient)
                        /\ Cardinality(Path(d)) <= MaxChain
                        /\ \A g \in Path(d) :
                             /\ given[g].scope \in Lineage(given[d].scope)
                             /\ given[d].acts \subseteq given[g].acts
                             /\ given[g].window.from <= given[d].window.from
                             /\ given[d].window.until <= given[g].window.until
      BY DEF DelegationsNarrow
    <2>1. Narrow(node, given, d) /\ d \in 0..MaxGrants  BY <1>0, GrantFacts DEF RightsInv
    <2>2. Path(d) = PathOf(given, d) /\ (Linked(d, given[d].recipient) <=> LinkedOf(given, d, given[d].recipient))
      BY <2>1, StateIsOf
    <2>3. Lineage(given[d].scope) = Above(node, given[d].scope)  BY <1>0, <2>1, LineageFacts DEF Narrow
    <2> QED BY <2>1, <2>2, <2>3 DEF Narrow, Within
  <1> QED BY <1>1, <1>2, <1>3 DEF StructureSound, HierarchySound

\* Whatever rows are created, delegated, revoked and selected, and in whatever order the
\* transactions of one tenant take the authority lock: every hierarchy row is below one row
\* of each kind its own kind demands, and a delegation gives no more scope, actions or time
\* than every delegation above it (OrganizationModule._company, _delegation).
THEOREM StructureHolds == Spec => []StructureSound
  BY OrganizationInvariant, StructureFollows, PTL

LEMMA DecisionFollows == OrganizationInv => DecisionStands
  <1> SUFFICES ASSUME OrganizationInv, NEW t \in Txs, Decided(t)
               PROVE  IF tx[t].op = "select" /\ tx[t].via = 0
                      THEN AuthorizedByAny(tx[t].sel, {r.scope : r \in {a \in assigned : a.who = tx[t].who}})
                      ELSE /\ \A g \in Path(tx[t].via) : given[g].revoked = 0
                           /\ tx[t].held \subseteq members
                           /\ \A n \in Leaves(tx[t].sel) :
                                \E r \in assigned : r.who = Root(tx[t].via, tx[t].who) /\ r.scope \in Lineage(n)
                           /\ {Root(tx[t].via, tx[t].who)} \X tx[t].acts \subseteq policy
    BY DEF DecisionStands
  <1> DEFINE x == tx[t]
  <1>0. /\ Hierarchy(node) /\ x \in Transaction /\ x.pc = "decided"
        /\ Founded(node, given, assigned, members, policy, x)
    BY DEF OrganizationInv, TablesInv, TxInv, Decided
  <1> HIDE DEF x
  <1>1. x # Idle /\ x.sel \in SUBSET Nodes  BY <1>0, TransactionKinds DEF Idle
  <1>2. \A n \in x.sel : Lineage(n) = Above(node, n)  BY <1>0, <1>1, LineageFacts
  <1>3. ASSUME x.op = "select" /\ x.via = 0
        PROVE  AuthorizedByAny(x.sel, {r.scope : r \in {a \in assigned : a.who = x.who}})
    <2>1. RowsCarry(node, assigned, x)  BY <1>0, <1>3, TransactionKinds DEF Founded
    <2>2. ASSUME NEW n \in x.sel
          PROVE  Lineage(n) \cap {r.scope : r \in {a \in assigned : a.who = x.who}} # {}
      <3>1. PICK r \in x.rows : r.scope \in Above(node, n)  BY <2>1 DEF RowsCarry
      <3>2. r \in {a \in assigned : a.who = x.who}  BY <2>1 DEF RowsCarry
      <3> QED BY <1>2, <3>1, <3>2
    <2> QED BY <2>2 DEF AuthorizedByAny
  <1>4. ASSUME ~ (x.op = "select" /\ x.via = 0)
        PROVE  /\ \A g \in Path(x.via) : given[g].revoked = 0
               /\ x.held \subseteq members
               /\ \A n \in Leaves(x.sel) :
                    \E r \in assigned : r.who = Root(x.via, x.who) /\ r.scope \in Lineage(n)
               /\ {Root(x.via, x.who)} \X x.acts \subseteq policy
    <2>1. Holding(x)  BY <1>0, <1>4, TransactionKinds DEF Holding
    <2>2. PathCarries(node, given, assigned, members, policy, x) /\ x.via \in 0..MaxGrants
      BY <1>0, <2>1, TransactionKinds DEF Founded
    <2>3. Path(x.via) = PathOf(given, x.via) /\ Root(x.via, x.who) = RootOf(given, x.via, x.who)
      BY <2>2, StateIsOf
    <2>4. Leaves(x.sel) = LeavesOf(node, x.sel) /\ Leaves(x.sel) \subseteq x.sel  BY <1>2 DEF Leaves, LeavesOf
    <2> QED BY <1>2, <2>2, <2>3, <2>4 DEF PathCarries
  <1> QED BY <1>3, <1>4 DEF x

\* What a transaction decided when it checked memberships, assignments and delegations still
\* stands when it commits, although revocations and removals run beside it: they would need
\* the authority lock, or the rows the transaction has locked
\* (OrganizationModule._select_scope, _delegation).
THEOREM DecisionsHold == Spec => []DecisionStands
  BY OrganizationInvariant, DecisionFollows, PTL

\* However the hierarchy grows, an accepted selection is one hierarchy: that the selected
\* rows are comparable pair by pair makes all their lineages one
\* (_canonical_scope_selection, _require_single_chain).
THEOREM SelectionsHold == Spec => SelectionsAreOneHierarchy
  <1>1. OrganizationInv => ConsistentIsOne  BY SelectionsLine DEF OrganizationInv, ConsistentIsOne
  <1>2. []OrganizationInv => [][node' # node => ConsistentIsOne']_vars  BY <1>1, PTL
  <1> QED BY <1>2, OrganizationInvariant DEF SelectionsAreOneHierarchy
=============================================================================
