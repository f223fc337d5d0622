---------------------- MODULE ProcessAndAuthorityProofs ----------------------
(***************************************************************************)
(* For every number of components, hooks, requests and starts: the         *)
(* application starts, stops and serves its components in order, and the   *)
(* event worker closes what it opened.  For every number of subjects,      *)
(* roles, rows, delegations and transactions: whoever holds a role at an   *)
(* instant may hold it under the rules of segregation of duties, and what  *)
(* a transaction decided about an action still stands when it applies it.  *)
(*                                                                         *)
(* Policy authority.  The searches of the source end because each of their *)
(* steps visits one principal more, and no walk along delegations or       *)
(* parents is longer than MaxDepth.  So a search finds a source exactly    *)
(* where a chain of rows leads to one, and the projection over instants    *)
(* at which rows start says everything about the instants between them.    *)
(* The invariant adds that what a command has written under the lock       *)
(* leaves the tables sound when it commits, and that an applied action     *)
(* has locked the members that granted it.                                 *)
(*                                                                         *)
(* Processes.  The invariant says what each await of the lifecycle         *)
(* operation knows.  The application's is a shape: below the hook at work  *)
(* components are up, above it they are not, and a request is under way    *)
(* only where all are.  The worker's rests on the application, which       *)
(* starts once in a process: no second subscription is ever made, so what  *)
(* quarantine has closed once stays so, and every clean-up has shut the    *)
(* application down.                                                       *)
(***************************************************************************)
EXTENDS MCProcess, PolicyAuthority, FiniteSetTheorems, WellFoundedInduction, TLAPS

-----------------------------------------------------------------------------
(* Numbers.                                                                  *)

\* A set of numbers has a least one.
LEMMA LeastNumber ==
    ASSUME NEW T, T \subseteq Nat, T # {}
    PROVE  \E x \in T : \A y \in T : x <= y
  <1>1. PICK x \in T : \A y \in T : ~ (<<y, x>> \in OpToRel(<, Nat))
    BY NatLessThanWellFounded, WFMin
  <1>2. ASSUME NEW y \in T PROVE x <= y
    <2>1. ~ (<<y, x>> \in OpToRel(<, Nat))  BY <1>1
    <2>2. ~ (y < x)  BY <2>1 DEF OpToRel
    <2> QED BY <2>2
  <1> QED BY <1>2

-----------------------------------------------------------------------------
(* Searches.                                                                 *)

\* A bounded set of numbers has a greatest one.
LEMMA GreatestOf ==
    ASSUME NEW T, T \subseteq Nat, T # {}, NEW m \in Nat, \A x \in T : x <= m
    PROVE  \E x \in T : \A y \in T : y <= x
  <1> DEFINE R == {m - x : x \in T}
  <1>1. R \subseteq Nat /\ R # {}
    <2>1. \A x \in T : x \in Nat /\ m - x \in Nat  OBVIOUS
    <2>2. PICK x \in T : TRUE  OBVIOUS
    <2>3. m - x \in R  OBVIOUS
    <2> QED BY <2>1, <2>3
  <1>2. PICK r \in R : \A y \in R : r <= y
    <2> HIDE DEF R
    <2> QED BY <1>1, LeastNumber
  <1>3. PICK x \in T : r = m - x  BY <1>2
  <1>4. ASSUME NEW y \in T PROVE y <= x
    <2>1. m - y \in R  BY <1>4
    <2>2. r <= m - y  BY <1>2, <2>1
    <2> QED BY <1>3, <1>4, <2>2
  <1> QED BY <1>4

\* What follows by rules, each a set of premises with a conclusion, is the least set they close.
LEMMA Derivable ==
    ASSUME NEW D, NEW R, \A r \in R : r[1] \subseteq D /\ r[2] \in D
    PROVE  \E L \in SUBSET D : \A x \in D : x \in L <=> \E r \in R : r[2] = x /\ r[1] \subseteq L
  <1> DEFINE Closed(X) == \A r \in R : r[1] \subseteq X => r[2] \in X
             L == {x \in D : \A X \in SUBSET D : Closed(X) => x \in X}
  <1>1. ASSUME NEW r \in R, r[1] \subseteq L PROVE r[2] \in L
    <2>1. ASSUME NEW X \in SUBSET D, Closed(X) PROVE r[2] \in X
      <3>1. r[1] \subseteq X  BY <1>1, <2>1
      <3> QED BY <2>1, <3>1
    <2> QED BY <2>1
  <1>2. ASSUME NEW x \in L PROVE \E r \in R : r[2] = x /\ r[1] \subseteq L
    <2> DEFINE M == {y \in L : \E r \in R : r[2] = y /\ r[1] \subseteq L}
    <2>1. M \in SUBSET D /\ M \subseteq L  OBVIOUS
    <2>2. Closed(M)
      <3> SUFFICES ASSUME NEW r \in R, r[1] \subseteq M PROVE r[2] \in M  OBVIOUS
      <3>1. r[1] \subseteq L  BY <2>1
      <3>2. r[2] \in L  BY <1>1, <3>1
      <3> QED BY <3>1, <3>2
    <2>3. x \in M  BY <1>2, <2>1, <2>2
    <2> QED BY <2>3
  <1>3. L \in SUBSET D  OBVIOUS
  <1> HIDE DEF L
  <1> QED BY <1>1, <1>2, <1>3

\* Who can always go on walks for ever.
LEMMA NobodyWalksOn ==
    ASSUME NEW nodes, NEW edges, NoLongWalk(nodes, edges),
           NEW T \in SUBSET nodes, \A x \in T : \E y \in T : <<x, y>> \in edges
    PROVE  T = {}
  <1> SUFFICES ASSUME T # {} PROVE FALSE  OBVIOUS
  <1> DEFINE Walk(n, w) == w \in [1..n -> T] /\ \A i \in 1..(n - 1) : <<w[i], w[i + 1]>> \in edges
             B == {n \in Nat : n # 0 /\ ~ \E w : Walk(n, w)}
  <1>0. MaxDepth \in Nat /\ MaxDepth # 0  BY SeedAssumption DEF SoundStart
  <1>1. B = {}
    <2> SUFFICES ASSUME B # {} PROVE FALSE  OBVIOUS
    <2>1. PICK n \in B : \A k \in B : n <= k
      <3>1. B \subseteq Nat  OBVIOUS
      <3> HIDE DEF B
      <3> QED BY <3>1, LeastNumber
    <2>2. n \in Nat /\ n # 0 /\ ~ \E w : Walk(n, w)  BY <2>1
    <2>3. CASE n = 1
      <3>1. PICK x \in T : TRUE  OBVIOUS
      <3>2. Walk(1, [i \in 1..1 |-> x])  OBVIOUS
      <3> QED BY <2>2, <2>3, <3>2
    <2>4. CASE n # 1
      <3>1. n - 1 \in Nat /\ n - 1 # 0 /\ n - 1 \notin B  BY <2>1, <2>2, <2>4
      <3>2. PICK w : Walk(n - 1, w)  BY <3>1
      <3>3. w[n - 1] \in T  BY <3>1, <3>2
      <3>4. PICK y \in T : <<w[n - 1], y>> \in edges  BY <3>3
      <3> DEFINE v == [i \in 1..n |-> IF i = n THEN y ELSE w[i]]
      <3>5. \A i \in 1..n : i # n => i \in 1..(n - 1)  BY <2>2
      <3>6. v \in [1..n -> T]  BY <3>2, <3>5
      <3>7. ASSUME NEW i \in 1..(n - 1) PROVE <<v[i], v[i + 1]>> \in edges
        <4>1. i \in 1..n /\ i + 1 \in 1..n /\ i # n  BY <2>2
        <4>2. CASE i = n - 1  BY <2>2, <3>4, <4>1, <4>2
        <4>3. CASE i # n - 1
          <5>1. i \in 1..(n - 1 - 1) /\ i + 1 # n  BY <2>2, <4>3
          <5>2. <<w[i], w[i + 1]>> \in edges  BY <3>2, <5>1
          <5> QED BY <4>1, <5>1, <5>2
        <4> QED BY <4>2, <4>3
      <3>8. Walk(n, v)  BY <3>6, <3>7
      <3> QED BY <2>2, <3>8
    <2> QED BY <2>3, <2>4
  <1>2. PICK w : Walk(MaxDepth + 1, w)
    <2>1. MaxDepth + 1 \in Nat /\ MaxDepth + 1 # 0  BY <1>0
    <2> HIDE DEF Walk
    <2>2. MaxDepth + 1 \notin B  BY <1>1
    <2> QED BY <2>1, <2>2
  <1>3. w \in [1 .. MaxDepth + 1 -> nodes]  BY <1>2
  <1>4. \A i \in 1 .. MaxDepth : <<w[i], w[i + 1]>> \in edges  BY <1>0, <1>2
  <1> QED BY <1>3, <1>4 DEF NoLongWalk

-----------------------------------------------------------------------------
(* Lineages.                                                                 *)

RolesFit(roles) ==
    /\ DOMAIN roles \subseteq Roles
    /\ \A r \in DOMAIN roles : roles[r] \in DOMAIN roles \cup {NoRole}

LEMMA LineageExists ==
    ASSUME NEW roles, RolesFit(roles)
    PROVE  \E f : f = [r \in DOMAIN roles \cup {NoRole} |->
                         IF r = NoRole THEN {} ELSE {r} \cup f[roles[r]]]
                  /\ \A r \in DOMAIN roles \cup {NoRole} : f[r] \subseteq DOMAIN roles
  <1> DEFINE M == DOMAIN roles
             D == M \X M
             R == {r \in (SUBSET D) \X D : r[2][2] = r[2][1] \/ <<roles[r[2][1]], r[2][2]>> \in r[1]}
  <1>0. NoRole \notin M  BY SeedAssumption DEF SoundStart, RolesFit
  <1>1. \A r \in R : r[1] \subseteq D /\ r[2] \in D  OBVIOUS
  <1>2. PICK L \in SUBSET D : \A x \in D : x \in L <=> \E r \in R : r[2] = x /\ r[1] \subseteq L
    <2> HIDE DEF D, R
    <2> QED BY <1>1, Derivable
  <1>3. ASSUME NEW r \in M, NEW x \in M PROVE <<r, x>> \in L <=> x = r \/ <<roles[r], x>> \in L
    <2>0. <<r, x>> \in D  OBVIOUS
    <2>1. ASSUME <<r, x>> \in L PROVE x = r \/ <<roles[r], x>> \in L
      <3>1. PICK u \in R : u[2] = <<r, x>> /\ u[1] \subseteq L  BY <1>2, <2>0, <2>1
      <3> QED BY <3>1
    <2>2. ASSUME x = r \/ <<roles[r], x>> \in L PROVE <<r, x>> \in L
      <3>1. PICK u : u = <<L, <<r, x>>>>  OBVIOUS
      <3>2. u \in R /\ u[2] = <<r, x>> /\ u[1] \subseteq L  BY <2>0, <2>2, <3>1
      <3> HIDE DEF R, D
      <3> QED BY <1>2, <2>0, <3>2
    <2> QED BY <2>1, <2>2
  <1> DEFINE f == [r \in M \cup {NoRole} |-> {x \in M : <<r, x>> \in L}]
  <1>4. f[NoRole] = {}  BY <1>0
  <1>5. ASSUME NEW r \in M PROVE f[r] = {r} \cup f[roles[r]]
    <2>1. roles[r] \in M \cup {NoRole}  BY DEF RolesFit
    <2> QED BY <1>3, <2>1
  <1>6. f = [r \in M \cup {NoRole} |-> IF r = NoRole THEN {} ELSE {r} \cup f[roles[r]]]
    <2>1. \A r \in M \cup {NoRole} : f[r] = IF r = NoRole THEN {} ELSE {r} \cup f[roles[r]]
      BY <1>0, <1>4, <1>5
    <2> QED BY <2>1
  <1>7. \A r \in M \cup {NoRole} : f[r] \subseteq M  OBVIOUS
  <1> HIDE DEF f
  <1> QED BY <1>6, <1>7

\* The search over parents computes what it says.
LEMMA LineageRec ==
    ASSUME NEW roles, RolesFit(roles)
    PROVE  Lineage(roles, NoRole) = {}
           /\ \A r \in DOMAIN roles : Lineage(roles, r) = {r} \cup Lineage(roles, roles[r])
  <1> DEFINE Eq(f) == f = [r \in DOMAIN roles \cup {NoRole} |->
                             IF r = NoRole THEN {} ELSE {r} \cup f[roles[r]]]
             lineage == CHOOSE f : Eq(f)
  <1>0. NoRole \notin DOMAIN roles  BY SeedAssumption DEF SoundStart, RolesFit
  <1>1. PICK a : Eq(a) /\ \A r : Lineage(roles, r) = a[r]
    <2>1. \E f : Eq(f)  BY LineageExists
    <2>2. Eq(lineage)  BY <2>1
    <2>3. \A r : Lineage(roles, r) = lineage[r]  BY DEF Lineage
    <2> HIDE DEF lineage
    <2> QED BY <2>2, <2>3
  <1>2. a[NoRole] = {}  BY <1>1
  <1>3. ASSUME NEW r \in DOMAIN roles PROVE a[r] = {r} \cup a[roles[r]]  BY <1>0, <1>1
  <1> QED BY <1>1, <1>2, <1>3

\* A new role changes nobody's lineage.
LEMMA LineageKept ==
    ASSUME NEW A, NEW B, RolesFit(A), RolesFit(B), DOMAIN A \subseteq DOMAIN B,
           \A r \in DOMAIN A : B[r] = A[r],
           NoLongWalk(DOMAIN A, {<<r, A[r]>> : r \in DOMAIN A})
    PROVE  \A r \in DOMAIN A : Lineage(A, r) = Lineage(B, r)
  <1> DEFINE T == {r \in DOMAIN A : Lineage(A, r) # Lineage(B, r)}
  <1>1. ASSUME NEW r \in T PROVE A[r] \in T
    <2>1. Lineage(A, r) = {r} \cup Lineage(A, A[r]) /\ Lineage(B, r) = {r} \cup Lineage(B, A[r])
      BY LineageRec
    <2>2. Lineage(A, A[r]) # Lineage(B, A[r])  BY <2>1
    <2>3. A[r] # NoRole  BY <2>2, LineageRec
    <2> QED BY <2>2, <2>3 DEF RolesFit
  <1>2. \A r \in T : \E y \in T : <<r, y>> \in {<<x, A[x]>> : x \in DOMAIN A}  BY <1>1
  <1>3. T = {}
    <2>1. T \in SUBSET DOMAIN A  OBVIOUS
    <2> HIDE DEF T
    <2> QED BY <1>2, <2>1, NobodyWalksOn
  <1> QED BY <1>3

-----------------------------------------------------------------------------
(* Sources of a delegation.                                                  *)

\* The delegator holds the role by an assignment
Rooted(tables, t, g) == HoldsDirectly(tables, g.delegator, g.role, g.scope, g, t)

SourceFunction(tables, t, f) ==
    f = [x \in tables.delegations \X SUBSET Subjects |->
           LET g == x[1] IN
           /\ g.delegator \notin x[2]
           /\ Cardinality(x[2]) <= MaxDepth
           /\ \/ HoldsDirectly(tables, g.delegator, g.role, g.scope, g, t)
              \/ \E p \in Links(tables, g.delegator, g.role, g.scope, g, t) :
                    f[<<p, x[2] \cup {g.delegator}>>]]

LEMMA LinksAre ==
    ASSUME NEW tables, Tables(tables)
    PROVE  /\ \A g \in tables.delegations : g.delegator \in Subjects /\ g.delegatee \in Subjects
           /\ \A s, r, sc, w, t : Links(tables, s, r, sc, w, t) \subseteq tables.delegations
  BY DEF Tables, GrantRows, Links

LEMMA SourceExists ==
    ASSUME NEW tables, Tables(tables), NEW t
    PROVE  \E f : SourceFunction(tables, t, f)
  <1> DEFINE G == tables.delegations
             D == G \X SUBSET Subjects
             Ok(x, P) == /\ x[1].delegator \notin x[2]
                         /\ Cardinality(x[2]) <= MaxDepth
                         /\ \/ Rooted(tables, t, x[1])
                            \/ \E p \in Links(tables, x[1].delegator, x[1].role, x[1].scope, x[1], t) :
                                  <<p, x[2] \cup {x[1].delegator}>> \in P
             R == {r \in (SUBSET D) \X D : Ok(r[2], r[1])}
  <1>1. \A r \in R : r[1] \subseteq D /\ r[2] \in D  OBVIOUS
  <1>2. PICK L \in SUBSET D : \A x \in D : x \in L <=> \E r \in R : r[2] = x /\ r[1] \subseteq L
    <2> HIDE DEF D, R
    <2> QED BY <1>1, Derivable
  <1>3. ASSUME NEW x \in D PROVE x \in L <=> Ok(x, L)
    <2>1. ASSUME x \in L PROVE Ok(x, L)
      <3>1. PICK u \in R : u[2] = x /\ u[1] \subseteq L  BY <1>2, <2>1
      <3>2. Ok(x, u[1])  BY <3>1
      <3> QED BY <3>1, <3>2
    <2>2. ASSUME Ok(x, L) PROVE x \in L
      <3>1. PICK u : u = <<L, x>>  OBVIOUS
      <3>2. u[2] = x /\ u[1] = L /\ u \in (SUBSET D) \X D  BY <3>1
      <3>3. u \in R  BY <2>2, <3>2
      <3> HIDE DEF R, D, Ok
      <3> QED BY <1>2, <3>2, <3>3
    <2> QED BY <2>1, <2>2
  <1> DEFINE f == [x \in D |-> x \in L]
  <1>4. ASSUME NEW x \in D, NEW p \in Links(tables, x[1].delegator, x[1].role, x[1].scope, x[1], t)
        PROVE  f[<<p, x[2] \cup {x[1].delegator}>>] = (<<p, x[2] \cup {x[1].delegator}>> \in L)
    <2>1. p \in G /\ x[1].delegator \in Subjects /\ x[2] \in SUBSET Subjects  BY LinksAre
    <2>2. <<p, x[2] \cup {x[1].delegator}>> \in D  BY <2>1
    <2> QED BY <2>2
  <1>5. ASSUME NEW x \in D
        PROVE  f[x] = (LET g == x[1] IN
                       /\ g.delegator \notin x[2]
                       /\ Cardinality(x[2]) <= MaxDepth
                       /\ \/ HoldsDirectly(tables, g.delegator, g.role, g.scope, g, t)
                          \/ \E p \in Links(tables, g.delegator, g.role, g.scope, g, t) :
                                f[<<p, x[2] \cup {g.delegator}>>])
    <2>1. f[x] = (x \in L)  OBVIOUS
    <2>2. (\E p \in Links(tables, x[1].delegator, x[1].role, x[1].scope, x[1], t) :
              <<p, x[2] \cup {x[1].delegator}>> \in L)
          <=> (\E p \in Links(tables, x[1].delegator, x[1].role, x[1].scope, x[1], t) :
                  f[<<p, x[2] \cup {x[1].delegator}>>])
      BY <1>4
    <2> HIDE DEF f, D
    <2> DEFINE more == \E p \in Links(tables, x[1].delegator, x[1].role, x[1].scope, x[1], t) :
                          f[<<p, x[2] \cup {x[1].delegator}>>]
               here == /\ x[1].delegator \notin x[2]
                       /\ Cardinality(x[2]) <= MaxDepth
                       /\ HoldsDirectly(tables, x[1].delegator, x[1].role, x[1].scope, x[1], t) \/ more
    <2>3. Ok(x, L) <=> here  BY <2>2 DEF Rooted
    <2>4. (x \in L) = here
      <3>1. (x \in L) <=> here  BY <1>3, <2>3
      <3>2. here \in BOOLEAN /\ (x \in L) \in BOOLEAN  OBVIOUS
      <3> HIDE DEF here
      <3> QED BY <3>1, <3>2
    <2>5. f[x] = here
      <3> HIDE DEF here
      <3> QED BY <2>1, <2>4
    <2> QED BY <2>5
  <1>6. SourceFunction(tables, t, f)  BY <1>5 DEF SourceFunction
  <1> QED BY <1>6

LEMMA SourceRec ==
    ASSUME NEW tables, Tables(tables), NEW t, NEW g \in tables.delegations, NEW V \in SUBSET Subjects
    PROVE  HasSource(tables, g, t, V) <=>
             /\ g.delegator \notin V
             /\ Cardinality(V) <= MaxDepth
             /\ \/ Rooted(tables, t, g)
                \/ \E p \in Links(tables, g.delegator, g.role, g.scope, g, t) :
                      HasSource(tables, p, t, V \cup {g.delegator})
  <1> DEFINE source == CHOOSE f : SourceFunction(tables, t, f)
  <1>1. PICK a : SourceFunction(tables, t, a) /\ \A h, U : HasSource(tables, h, t, U) = a[<<h, U>>]
    <2>1. SourceFunction(tables, t, source)  BY SourceExists
    <2>2. \A h, U : HasSource(tables, h, t, U) = source[<<h, U>>]
      BY DEF HasSource, SourceFunction
    <2> HIDE DEF source
    <2> QED BY <2>1, <2>2
  <1>2. a[<<g, V>>] = (/\ g.delegator \notin V
                       /\ Cardinality(V) <= MaxDepth
                       /\ \/ HoldsDirectly(tables, g.delegator, g.role, g.scope, g, t)
                          \/ \E p \in Links(tables, g.delegator, g.role, g.scope, g, t) :
                                a[<<p, V \cup {g.delegator}>>])
    <2>1. PICK x : x = <<g, V>>  OBVIOUS
    <2>2. x \in tables.delegations \X SUBSET Subjects /\ x[1] = g /\ x[2] = V  BY <2>1
    <2> QED BY <1>1, <2>1, <2>2 DEF SourceFunction
  <1>3. a[<<g, V>>] <=> (/\ g.delegator \notin V
                         /\ Cardinality(V) <= MaxDepth
                         /\ \/ Rooted(tables, t, g)
                            \/ \E p \in Links(tables, g.delegator, g.role, g.scope, g, t) :
                                  a[<<p, V \cup {g.delegator}>>])
    BY <1>2 DEF Rooted
  <1> QED BY <1>1, <1>3

\* Each step of a search visits one principal more.
LEMMA VisitsOneMore ==
    ASSUME NEW V \in SUBSET Subjects, NEW s \in Subjects, s \notin V
    PROVE  /\ V \cup {s} \in SUBSET Subjects
           /\ Cardinality(V) \in Nat
           /\ Cardinality(V \cup {s}) = Cardinality(V) + 1
  <1>1. IsFiniteSet(V) /\ Cardinality(V) \in Nat
    BY SeedAssumption, FS_Subset, FS_CardinalityType DEF SoundStart
  <1> QED BY <1>1, FS_AddElement

\* A search that visits one more principal at every step ends.
LEMMA SearchEnds ==
    ASSUME NEW G, NEW T \in SUBSET (G \X SUBSET Subjects),
           \A x \in T : /\ Cardinality(x[2]) \in Nat /\ Cardinality(x[2]) <= MaxDepth
                        /\ \E y \in T : Cardinality(y[2]) = Cardinality(x[2]) + 1
    PROVE  T = {}
  <1> DEFINE C == {Cardinality(x[2]) : x \in T}
  <1> SUFFICES ASSUME T # {} PROVE FALSE  OBVIOUS
  <1>0. MaxDepth \in Nat  BY SeedAssumption DEF SoundStart
  <1>1. C \subseteq Nat /\ C # {} /\ \A n \in C : n <= MaxDepth  OBVIOUS
  <1>2. PICK n \in C : \A k \in C : k <= n
    <2> HIDE DEF C
    <2> QED BY <1>0, <1>1, GreatestOf
  <1>3. PICK x \in T : n = Cardinality(x[2])  BY <1>2
  <1>4. PICK y \in T : Cardinality(y[2]) = Cardinality(x[2]) + 1  OBVIOUS
  <1>5. Cardinality(y[2]) \in C /\ n \in Nat  BY <1>1, <1>2
  <1> QED BY <1>2, <1>3, <1>4, <1>5

\* A search that has fewer rows to go by finds no more.
LEMMA SourceMonotone ==
    ASSUME NEW A, Tables(A), NEW B, Tables(B), NEW ta, NEW tb,
           \A s, r, sc, w : HoldsDirectly(A, s, r, sc, w, ta) => HoldsDirectly(B, s, r, sc, w, tb),
           \A s, r, sc, w : Links(A, s, r, sc, w, ta) \subseteq Links(B, s, r, sc, w, tb)
    PROVE  \A g \in A.delegations \cap B.delegations, V \in SUBSET Subjects :
              HasSource(A, g, ta, V) => HasSource(B, g, tb, V)
  <1> DEFINE T == {x \in (A.delegations \cap B.delegations) \X SUBSET Subjects :
                     HasSource(A, x[1], ta, x[2]) /\ ~ HasSource(B, x[1], tb, x[2])}
  <1>0. MaxDepth \in Nat  BY SeedAssumption DEF SoundStart
  <1>1. ASSUME NEW x \in T
        PROVE  /\ Cardinality(x[2]) \in Nat /\ Cardinality(x[2]) <= MaxDepth
               /\ \E y \in T : Cardinality(y[2]) = Cardinality(x[2]) + 1
    <2>1. PICK g \in A.delegations \cap B.delegations, V \in SUBSET Subjects :
             x = <<g, V>> /\ HasSource(A, g, ta, V) /\ ~ HasSource(B, g, tb, V)
      <3>1. x[1] \in A.delegations \cap B.delegations /\ x[2] \in SUBSET Subjects /\ x = <<x[1], x[2]>>
        BY <1>1
      <3> QED BY <1>1, <3>1
    <2>2. /\ g.delegator \notin V /\ Cardinality(V) <= MaxDepth
          /\ \/ Rooted(A, ta, g)
             \/ \E p \in Links(A, g.delegator, g.role, g.scope, g, ta) :
                   HasSource(A, p, ta, V \cup {g.delegator})
      BY <2>1, SourceRec
    <2>3. /\ ~ Rooted(B, tb, g)
          /\ \A p \in Links(B, g.delegator, g.role, g.scope, g, tb) :
                   ~ HasSource(B, p, tb, V \cup {g.delegator})
      BY <2>1, <2>2, SourceRec
    <2>4. PICK p \in Links(A, g.delegator, g.role, g.scope, g, ta) :
             HasSource(A, p, ta, V \cup {g.delegator}) /\ ~ HasSource(B, p, tb, V \cup {g.delegator})
      BY <2>2, <2>3 DEF Rooted
    <2>5. p \in A.delegations /\ p \in B.delegations /\ g.delegator \in Subjects  BY LinksAre
    <2>6. PICK y : y = <<p, V \cup {g.delegator}>>  OBVIOUS
    <2>7. Cardinality(V \cup {g.delegator}) = Cardinality(V) + 1 /\ V \cup {g.delegator} \in SUBSET Subjects
          /\ Cardinality(V) \in Nat
      BY <2>2, <2>5, VisitsOneMore
    <2>8. y \in T /\ y[2] = V \cup {g.delegator}  BY <2>4, <2>5, <2>6, <2>7
    <2>9. x[2] = V  BY <2>1
    <2> HIDE DEF T
    <2> QED BY <2>2, <2>7, <2>8, <2>9
  <1>2. T = {}
    <2>1. T \in SUBSET ((A.delegations \cap B.delegations) \X SUBSET Subjects)  OBVIOUS
    <2> HIDE DEF T
    <2> QED BY <1>1, <2>1, SearchEnds
  <1>3. ASSUME NEW g \in A.delegations \cap B.delegations, NEW V \in SUBSET Subjects, HasSource(A, g, ta, V)
        PROVE  HasSource(B, g, tb, V)
    <2>1. PICK y : y = <<g, V>>  OBVIOUS
    <2>2. y[1] = g /\ y[2] = V /\ y \in (A.delegations \cap B.delegations) \X SUBSET Subjects
      BY <2>1
    <2>3. y \notin T  BY <1>2
    <2> QED BY <1>3, <2>2, <2>3
  <1> QED BY <1>3

-----------------------------------------------------------------------------
(* Permissions.                                                              *)

\* What counts at an instant of A counts at an instant of B.
Within(A, ta, B, tb) ==
    /\ A.perms \subseteq B.perms
    /\ \A row \in A.assignments \cup A.delegations : Lineage(A.roles, row.role) \subseteq Lineage(B.roles, row.role)
    /\ \A row \in A.assignments : active_at(row, ta) => row \in B.assignments /\ active_at(row, tb)
    /\ \A g \in A.delegations : ~ g.revoked /\ active_at(g, ta) => g \in B.delegations /\ active_at(g, tb)

LEMMA PermissionsWithin ==
    ASSUME NEW A, Tables(A), NEW B, Tables(B), NEW ta, NEW tb, Within(A, ta, B, tb)
    PROVE  \A s : permissions_for(A, s, ta) \subseteq permissions_for(B, s, tb)
  <1>1. \A s, r, sc, w : HoldsDirectly(A, s, r, sc, w, ta) => HoldsDirectly(B, s, r, sc, w, tb)
    BY DEF HoldsDirectly, Within
  <1>2. \A s, r, sc, w : Links(A, s, r, sc, w, ta) \subseteq Links(B, s, r, sc, w, tb)
    BY DEF Links, Within
  <1>3. ASSUME NEW d \in A.delegations, has_effective_role_source(A, d.delegator, d.role, d.scope, d, ta)
        PROVE  has_effective_role_source(B, d.delegator, d.role, d.scope, d, tb)
    <2>1. CASE HoldsDirectly(A, d.delegator, d.role, d.scope, d, ta)
      BY <1>1, <2>1 DEF has_effective_role_source
    <2>2. CASE \E g \in Links(A, d.delegator, d.role, d.scope, d, ta) : HasSource(A, g, ta, {d.delegator})
      <3>1. PICK g \in Links(A, d.delegator, d.role, d.scope, d, ta) : HasSource(A, g, ta, {d.delegator})
        BY <2>2
      <3>2. g \in Links(B, d.delegator, d.role, d.scope, d, tb)  BY <1>2
      <3>3. g \in A.delegations \cap B.delegations /\ {d.delegator} \in SUBSET Subjects
        BY <3>2, LinksAre
      <3>4. HasSource(B, g, tb, {d.delegator})  BY <1>1, <1>2, <3>1, <3>3, SourceMonotone
      <3> QED BY <3>2, <3>4 DEF has_effective_role_source
    <2> QED BY <1>3, <2>1, <2>2 DEF has_effective_role_source
  <1>4. ASSUME NEW s PROVE RolesAt(A, s, ta) \subseteq RolesAt(B, s, tb)
    <2> DEFINE Direct(T, t) == {row.role : row \in {a \in T.assignments : a.subject = s /\ active_at(a, t)}}
               Given(T, t) == {g.role : g \in {d \in T.delegations :
                                 /\ d.delegatee = s /\ ~d.revoked /\ active_at(d, t)
                                 /\ has_effective_role_source(T, d.delegator, d.role, d.scope, d, t)}}
    <2>1. Direct(A, ta) \subseteq Direct(B, tb)  BY DEF Within
    <2>2. Given(A, ta) \subseteq Given(B, tb)  BY <1>3 DEF Within
    <2>3. \A role \in Direct(A, ta) \cup Given(A, ta) :
             \E row \in A.assignments \cup A.delegations : role = row.role
      OBVIOUS
    <2>4. \A role \in Direct(A, ta) \cup Given(A, ta) :
             role \in Direct(B, tb) \cup Given(B, tb) /\ Lineage(A.roles, role) \subseteq Lineage(B.roles, role)
      <3> HIDE DEF Direct, Given
      <3> QED BY <2>1, <2>2, <2>3 DEF Within
    <2>5. RolesAt(A, s, ta) = UNION {Lineage(A.roles, role) : role \in Direct(A, ta) \cup Given(A, ta)}
          /\ RolesAt(B, s, tb) = UNION {Lineage(B.roles, role) : role \in Direct(B, tb) \cup Given(B, tb)}
      BY DEF RolesAt
    <2> HIDE DEF Direct, Given
    <2> QED BY <2>4, <2>5
  <1>5. ASSUME NEW s PROVE permissions_for(A, s, ta) \subseteq permissions_for(B, s, tb)
    BY <1>4 DEF permissions_for, Within
  <1> QED BY <1>5

\* Whatever is active at an instant was already active at the last start up to it.
LEMMA LastStart ==
    ASSUME now \in Instants, NEW A, Tables(A), NEW B, Tables(B), NEW t \in now .. Horizon
    PROVE  \E u \in Starts(A) \cup Starts(B) :
              /\ now <= u /\ u <= t
              /\ \A row \in (A.assignments \cup A.delegations) \cup (B.assignments \cup B.delegations) :
                    active_at(row, t) => active_at(row, u)
  <1> DEFINE Z == {u \in Starts(A) \cup Starts(B) : u <= t}
  <1>0. Horizon \in Nat /\ now \in Nat /\ t \in Nat
    BY SeedAssumption DEF SoundStart, Instants
  <1>1. Z \subseteq Nat /\ now \in Z /\ \A u \in Z : now <= u /\ u <= t
    BY <1>0 DEF Starts, Instants
  <1>2. PICK u \in Z : \A v \in Z : v <= u
    <2> HIDE DEF Z
    <2> QED BY <1>0, <1>1, GreatestOf
  <1>3. ASSUME NEW row \in (A.assignments \cup A.delegations) \cup (B.assignments \cup B.delegations),
               active_at(row, t)
        PROVE  active_at(row, u)
    <2>1. row.from \in Instants /\ row.from <= t /\ row.to \in Nat /\ t < row.to
      BY <1>0, <1>3 DEF active_at, Tables, AssignmentRows, GrantRows, Instants, Forever
    <2>2. row.from <= u
      <3>1. CASE row.from <= now  BY <1>0, <1>1, <2>1, <3>1 DEF Instants
      <3>2. CASE row.from > now
        <4>1. row.from \in Z  BY <2>1, <3>2 DEF Starts
        <4> QED BY <1>2, <4>1
      <3> QED BY <1>0, <2>1, <3>1, <3>2 DEF Instants
    <2> QED BY <1>0, <1>1, <2>1, <2>2 DEF active_at, Instants
  <1> QED BY <1>1, <1>2, <1>3

\* What a projection finds at the starts is so at every later instant.
LEMMA StartsSuffice ==
    ASSUME now \in Instants, NEW A, Tables(A), NEW B, Tables(B), NEW s, NEW t \in now .. Horizon
    PROVE  \E u \in Starts(A) \cup Starts(B) :
              u \in now .. Horizon /\ permissions_for(B, s, t) \subseteq permissions_for(B, s, u)
  <1>1. PICK u \in Starts(A) \cup Starts(B) :
              /\ now <= u /\ u <= t
              /\ \A row \in (A.assignments \cup A.delegations) \cup (B.assignments \cup B.delegations) :
                    active_at(row, t) => active_at(row, u)
    BY LastStart
  <1>2. Within(B, t, B, u)  BY <1>1 DEF Within
  <1>3. u \in now .. Horizon  BY <1>1, SeedAssumption DEF SoundStart, Starts, Instants
  <1> QED BY <1>2, <1>3, PermissionsWithin

-----------------------------------------------------------------------------
(* What a command projects.                                                  *)

\* All that a command does not change
Rest(A, B, field) ==
    /\ DOMAIN B = DOMAIN A
    /\ \A f \in {"roles", "perms", "assignments", "delegations", "rules"} \ {field} : B[f] = A[f]

Revoked(grants, id) == {IF g.id = id THEN [g EXCEPT !.revoked = TRUE] ELSE g : g \in grants}

LEMMA ApplyIs ==
    ASSUME NEW A, Tables(A), NEW cmd
    PROVE  LET B == Apply(A, cmd) IN
           /\ cmd.op = "createRole" => Rest(A, B, "roles") /\
                B.roles = [r \in DOMAIN A.roles \cup {cmd.role} |->
                             IF r \in DOMAIN A.roles THEN A.roles[r] ELSE cmd.parent]
           /\ cmd.op = "assignPermission" => Rest(A, B, "perms") /\ B.perms = A.perms \cup {<<cmd.role, cmd.perm>>}
           /\ cmd.op = "assignRole" => Rest(A, B, "assignments") /\ B.assignments = A.assignments \cup {cmd.row}
           /\ cmd.op = "createRule" => Rest(A, B, "rules") /\ B.rules = A.rules \cup {cmd.rule}
           /\ cmd.op = "delegate" => Rest(A, B, "delegations") /\ B.delegations = A.delegations \cup {NewGrant(A, cmd)}
           /\ cmd.op = "revoke" => Rest(A, B, "delegations") /\ B.delegations = Revoked(A.delegations, cmd.id)
  <1>0. DOMAIN A = {"roles", "perms", "assignments", "delegations", "rules"}  BY DEF Tables
  <1>1. ASSUME cmd.op = "createRole"
        PROVE  Rest(A, Apply(A, cmd), "roles") /\
                Apply(A, cmd).roles = [r \in DOMAIN A.roles \cup {cmd.role} |->
                             IF r \in DOMAIN A.roles THEN A.roles[r] ELSE cmd.parent]
    BY <1>0, <1>1 DEF Apply, Rest
  <1>2. ASSUME cmd.op = "assignPermission"
        PROVE  Rest(A, Apply(A, cmd), "perms") /\ Apply(A, cmd).perms = A.perms \cup {<<cmd.role, cmd.perm>>}
    BY <1>0, <1>2 DEF Apply, Rest
  <1>3. ASSUME cmd.op = "assignRole"
        PROVE  Rest(A, Apply(A, cmd), "assignments") /\ Apply(A, cmd).assignments = A.assignments \cup {cmd.row}
    BY <1>0, <1>3 DEF Apply, Rest
  <1>4. ASSUME cmd.op = "createRule"
        PROVE  Rest(A, Apply(A, cmd), "rules") /\ Apply(A, cmd).rules = A.rules \cup {cmd.rule}
    BY <1>0, <1>4 DEF Apply, Rest
  <1>5. ASSUME cmd.op = "delegate"
        PROVE  Rest(A, Apply(A, cmd), "delegations")
               /\ Apply(A, cmd).delegations = A.delegations \cup {NewGrant(A, cmd)}
    BY <1>0, <1>5 DEF Apply, Rest
  <1>6. ASSUME cmd.op = "revoke"
        PROVE  Rest(A, Apply(A, cmd), "delegations")
               /\ Apply(A, cmd).delegations = Revoked(A.delegations, cmd.id)
    BY <1>0, <1>6 DEF Apply, Rest, Revoked
  <1> QED BY <1>1, <1>2, <1>3, <1>4, <1>5, <1>6

\* A projection that finds no new conflict leaves none.
LEMMA ProjectionKeeps ==
    ASSUME now \in Instants, NEW A, Tables(A), NEW B, Tables(B), NoConflict(A, now),
           Preventative(B) = Preventative(A), ~ NewConflict(A, B, Preventative(B), FALSE)
    PROVE  NoConflict(B, now)
  <1> SUFFICES ASSUME NEW s \in Subjects, NEW t \in now .. Horizon, NEW r \in Preventative(B),
                      r.pair \subseteq permissions_for(B, s, t)
               PROVE  FALSE
    BY DEF NoConflict
  <1>1. PICK u \in Starts(A) \cup Starts(B) :
           u \in now .. Horizon /\ permissions_for(B, s, t) \subseteq permissions_for(B, s, u)
    BY StartsSuffice
  <1>2. r.pair \subseteq permissions_for(B, s, u)  BY <1>1
  <1>3. permissions_for(B, s, u) \subseteq permissions_for(A, s, u)  BY <1>2 DEF NewConflict
  <1>4. r.pair \subseteq permissions_for(A, s, u)  BY <1>2, <1>3
  <1> QED BY <1>1, <1>4 DEF NoConflict

\* A rule that nobody conflicts with at the starts is never conflicted with.
LEMMA RuleKeeps ==
    ASSUME now \in Instants, NEW A, Tables(A), NEW B, Tables(B), NoConflict(A, now), NEW rule,
           Rest(A, B, "rules"), B.rules = A.rules \cup {rule}, ~ NewConflict(A, B, {rule}, TRUE)
    PROVE  NoConflict(B, now)
  <1> SUFFICES ASSUME NEW s \in Subjects, NEW t \in now .. Horizon, NEW r \in Preventative(B),
                      r.pair \subseteq permissions_for(B, s, t)
               PROVE  FALSE
    BY DEF NoConflict
  <1>1. PICK u \in Starts(A) \cup Starts(B) :
           u \in now .. Horizon /\ permissions_for(B, s, t) \subseteq permissions_for(B, s, u)
    BY StartsSuffice
  <1>2. r # rule  BY <1>1 DEF NewConflict
  <1>3. r \in Preventative(A)  BY <1>2 DEF Preventative
  <1>4. Within(B, t, A, t)  BY DEF Within, Rest
  <1>5. r.pair \subseteq permissions_for(A, s, t)  BY <1>4, PermissionsWithin
  <1> QED BY <1>3, <1>5 DEF NoConflict

\* Where nobody gains a permission there is no conflict either.
LEMMA FewerKeep ==
    ASSUME NEW A, Tables(A), NEW B, Tables(B), NEW from, NoConflict(A, from),
           Preventative(B) = Preventative(A), \A t : Within(B, t, A, t)
    PROVE  NoConflict(B, from)
  <1>1. \A s, t : permissions_for(B, s, t) \subseteq permissions_for(A, s, t)
    BY PermissionsWithin
  <1> QED BY <1>1 DEF NoConflict

Sound(A) == Tables(A) /\ IsFiniteSet(A.delegations) /\ ValidShape(A)

\* What a command that was accepted will have written when it commits
Stands(cmd) == Sound(Apply(db, cmd)) /\ NoConflict(Apply(db, cmd), now)

LEMMA CreateRoleStands ==
    ASSUME now \in Instants, Sound(db), NoConflict(db, now), NEW cmd \in Commands,
           cmd.op = "createRole", create_role(cmd)
    PROVE  Stands(cmd)
  <1> DEFINE B == Apply(db, cmd)
  <1>1. cmd.role \in Roles /\ cmd.parent \in Roles \cup {NoRole}  BY DEF Commands
  <1>2. Rest(db, B, "roles") /\ B.roles = [r \in DOMAIN db.roles \cup {cmd.role} |->
                                              IF r \in DOMAIN db.roles THEN db.roles[r] ELSE cmd.parent]
    BY ApplyIs DEF Sound
  <1>3. cmd.role \notin DOMAIN db.roles /\ cmd.parent \in DOMAIN db.roles \cup {NoRole} /\ ValidShape(db) /\ ValidShape(B)
    BY <1>1 DEF create_role, HasRole
  <1> HIDE DEF B
  <1>4. DOMAIN B.roles = DOMAIN db.roles \cup {cmd.role} /\ \A r \in DOMAIN db.roles : B.roles[r] = db.roles[r]
        /\ B.roles[cmd.role] = cmd.parent
    BY <1>2, <1>3
  <1>5. Tables(B)  BY <1>1, <1>2, <1>3, <1>4 DEF Sound, Tables, Rest
  <1>6. \A r \in DOMAIN db.roles : Lineage(db.roles, r) = Lineage(B.roles, r)
    <2>1. RolesFit(db.roles) /\ RolesFit(B.roles)  BY <1>5 DEF RolesFit, Sound, Tables
    <2>2. NoLongWalk(DOMAIN db.roles, {<<r, db.roles[r]>> : r \in DOMAIN db.roles})
      BY <1>3 DEF ValidShape, Parents
    <2> QED BY <1>4, <2>1, <2>2, LineageKept
  <1>7. \A t : Within(B, t, db, t)  BY <1>2, <1>6 DEF Within, Rest, Sound, Tables
  <1>8. Preventative(B) = Preventative(db)  BY <1>2 DEF Preventative, Rest
  <1>9. NoConflict(B, now)  BY <1>5, <1>7, <1>8, FewerKeep DEF Sound
  <1>10. B.delegations = db.delegations  BY <1>2 DEF Rest
  <1> QED BY <1>3, <1>5, <1>9, <1>10 DEF Stands, Sound, B

LEMMA ProjectedStands ==
    ASSUME now \in Instants, Sound(db), NoConflict(db, now), NEW cmd,
           ProjectionAccepts(cmd), Tables(Apply(db, cmd)), IsFiniteSet(Apply(db, cmd).delegations),
           Apply(db, cmd).rules = db.rules
    PROVE  Stands(cmd)
  <1>1. /\ ValidShape(Apply(db, cmd))
        /\ ~ NewConflict(db, Apply(db, cmd), Preventative(Apply(db, cmd)), FALSE)
    BY DEF ProjectionAccepts
  <1>2. Preventative(Apply(db, cmd)) = Preventative(db)  BY DEF Preventative
  <1>3. NoConflict(Apply(db, cmd), now)  BY <1>1, <1>2, ProjectionKeeps DEF Sound
  <1> QED BY <1>1, <1>3 DEF Stands, Sound

LEMMA AssignPermissionStands ==
    ASSUME now \in Instants, Sound(db), NoConflict(db, now), NEW cmd \in Commands,
           cmd.op = "assignPermission", assign_permission(cmd)
    PROVE  Stands(cmd)
  <1>1. Rest(db, Apply(db, cmd), "perms") /\ Apply(db, cmd).perms = db.perms \cup {<<cmd.role, cmd.perm>>}
    BY ApplyIs DEF Sound
  <1>2. cmd.role \in DOMAIN db.roles /\ cmd.perm \in Perms /\ ProjectionAccepts(cmd)
    BY DEF assign_permission, HasRole, Commands
  <1>3. PICK B : B = Apply(db, cmd)  OBVIOUS
  <1>4. Tables(B) /\ B.delegations = db.delegations /\ B.rules = db.rules
    BY <1>1, <1>2, <1>3 DEF Sound, Tables, Rest
  <1> QED BY <1>2, <1>3, <1>4, ProjectedStands DEF Sound

LEMMA AssignRoleStands ==
    ASSUME now \in Instants, Sound(db), NoConflict(db, now), NEW cmd \in Commands,
           cmd.op = "assignRole", assign_role(cmd)
    PROVE  Stands(cmd)
  <1>1. Rest(db, Apply(db, cmd), "assignments") /\ Apply(db, cmd).assignments = db.assignments \cup {cmd.row}
    BY ApplyIs DEF Sound
  <1>2. cmd.row.role \in DOMAIN db.roles /\ ProjectionAccepts(cmd)
    BY DEF assign_role, HasRole
  <1>3. cmd.row \in AssignmentRows
    <2>1. PICK s \in Subjects, r \in Roles, sc \in Scopes, w \in Windows :
             cmd.row = [subject |-> s, role |-> r, scope |-> sc, from |-> w.from, to |-> w.to]
      BY DEF Commands
    <2>2. w.from \in Instants /\ w.to \in 1 .. Forever  BY SeedAssumption DEF SoundStart
    <2> QED BY <2>1, <2>2 DEF AssignmentRows
  <1>4. PICK B : B = Apply(db, cmd)  OBVIOUS
  <1>5. Tables(B) /\ B.delegations = db.delegations /\ B.rules = db.rules
    BY <1>1, <1>2, <1>3, <1>4 DEF Sound, Tables, Rest
  <1> QED BY <1>2, <1>4, <1>5, ProjectedStands DEF Sound

LEMMA CreateRuleStands ==
    ASSUME now \in Instants, Sound(db), NoConflict(db, now), NEW cmd \in Commands,
           cmd.op = "createRule", create_sod_rule(cmd)
    PROVE  Stands(cmd)
  <1>1. PICK B : B = Apply(db, cmd)  OBVIOUS
  <1>2. Rest(db, B, "rules") /\ B.rules = db.rules \cup {cmd.rule}  BY <1>1, ApplyIs DEF Sound
  <1>3. cmd.rule \in RuleRows
    <2>0. cmd \in {[op |-> "createRule", rule |-> [pair |-> pair, preventative |-> TRUE]] : pair \in Pairs}
      BY DEF Commands
    <2>1. PICK pair \in Pairs : cmd = [op |-> "createRule", rule |-> [pair |-> pair, preventative |-> TRUE]]
      BY <2>0, Zenon
    <2>2. PICK rule : rule = [pair |-> pair, preventative |-> TRUE]  OBVIOUS
    <2>3. rule \in RuleRows  BY <2>2 DEF RuleRows
    <2> QED BY <2>1, <2>2, <2>3
  <1>4. ValidShape(B) /\ ~ NewConflict(db, B, {cmd.rule}, TRUE)
    BY <1>1 DEF create_sod_rule, RuleAccepts
  <1>5. Tables(B) /\ B.delegations = db.delegations  BY <1>2, <1>3 DEF Sound, Tables, Rest
  <1>6. NoConflict(B, now)  BY <1>2, <1>4, <1>5, RuleKeeps DEF Sound
  <1> QED BY <1>1, <1>4, <1>5, <1>6 DEF Stands, Sound

LEMMA CreateDelegationStands ==
    ASSUME now \in Instants, Sound(db), NoConflict(db, now), NEW cmd \in Commands,
           cmd.op = "delegate", create_delegation(cmd)
    PROVE  Stands(cmd)
  <1>1. PICK B : B = Apply(db, cmd)  OBVIOUS
  <1>2. Rest(db, B, "delegations") /\ B.delegations = db.delegations \cup {NewGrant(db, cmd)}
    BY <1>1, ApplyIs DEF Sound
  <1>3. cmd.role \in DOMAIN db.roles /\ ProjectionAccepts(cmd)
    BY DEF create_delegation, HasRole
  <1>4. NewGrant(db, cmd) \in GrantRows /\ NewGrant(db, cmd).role = cmd.role
    <2>1. PICK d \in Subjects \X Subjects, r \in Roles, sc \in Scopes, w \in Windows :
             cmd = [op |-> "delegate", delegator |-> d[1], delegatee |-> d[2], role |-> r, scope |-> sc, window |-> w]
      BY DEF Commands
    <2>2. w.from \in Instants /\ w.to \in 1 .. Forever  BY SeedAssumption DEF SoundStart
    <2>3. Cardinality(db.delegations) + 1 \in Nat \ {0}  BY FS_CardinalityType DEF Sound
    <2> QED BY <2>1, <2>2, <2>3 DEF NewGrant, GrantRows
  <1>5. Tables(B) /\ B.rules = db.rules  BY <1>2, <1>3, <1>4 DEF Sound, Tables, Rest
  <1>6. IsFiniteSet(B.delegations)  BY <1>2, FS_AddElement DEF Sound
  <1> QED BY <1>1, <1>3, <1>5, <1>6, ProjectedStands DEF Sound

LEMMA RevokedGrants ==
    ASSUME NEW G, IsFiniteSet(G), G \subseteq GrantRows, NEW id
    PROVE  /\ IsFiniteSet(Revoked(G, id)) /\ Cardinality(Revoked(G, id)) <= Cardinality(G)
           /\ Revoked(G, id) \subseteq GrantRows
           /\ \A h \in Revoked(G, id) : ~ h.revoked => h \in G
           /\ \A h \in Revoked(G, id) : \E g \in G : h.role = g.role
  <1> DEFINE After(g) == IF g.id = id THEN [g EXCEPT !.revoked = TRUE] ELSE g
             f == [g \in G |-> After(g)]
             R == Revoked(G, id)
  <1>1. f \in Surjection(G, R)
    <2>1. \A g \in G : f[g] \in R  BY DEF Revoked
    <2>2. \A h \in R : \E g \in G : f[g] = h  BY DEF Revoked
    <2>3. f \in [G -> R]  BY <2>1
    <2> HIDE DEF f, R
    <2> QED BY <2>2, <2>3 DEF Surjection
  <1>2. IsFiniteSet(R) /\ Cardinality(R) <= Cardinality(G)
    <2> HIDE DEF f, R
    <2> QED BY <1>1, FS_Surjection
  <1>3. ASSUME NEW g \in G PROVE After(g) \in GrantRows /\ After(g).role = g.role /\ (~ After(g).revoked => After(g) = g)
    BY DEF GrantRows
  <1>4. \A h \in R : \E g \in G : h = After(g)  BY DEF Revoked
  <1> HIDE DEF After
  <1> QED BY <1>2, <1>3, <1>4

LEMMA FewerWalks ==
    ASSUME NEW nodes, NEW edges, NEW fewer, fewer \subseteq edges, NoLongWalk(nodes, edges)
    PROVE  NoLongWalk(nodes, fewer)
  BY DEF NoLongWalk

LEMMA RevokeStands ==
    ASSUME now \in Instants, Sound(db), NoConflict(db, now), NEW cmd, cmd.op = "revoke"
    PROVE  Stands(cmd)
  <1>1. PICK B : B = Apply(db, cmd)  OBVIOUS
  <1>2. Rest(db, B, "delegations") /\ B.delegations = Revoked(db.delegations, cmd.id)
    <2>1. Rest(db, Apply(db, cmd), "delegations") /\ Apply(db, cmd).delegations = Revoked(db.delegations, cmd.id)
      BY ApplyIs DEF Sound
    <2> QED BY <1>1, <2>1
  <1>3. db.delegations \subseteq GrantRows /\ IsFiniteSet(db.delegations)
    BY DEF Sound, Tables
  <1>4. /\ IsFiniteSet(B.delegations) /\ Cardinality(B.delegations) <= Cardinality(db.delegations)
        /\ B.delegations \subseteq GrantRows
        /\ \A h \in B.delegations : ~ h.revoked => h \in db.delegations
        /\ \A h \in B.delegations : \E g \in db.delegations : h.role = g.role
    BY <1>2, <1>3, RevokedGrants
  <1>5. B.roles = db.roles /\ B.perms = db.perms /\ B.assignments = db.assignments /\ B.rules = db.rules
        /\ DOMAIN B = DOMAIN db
    BY <1>2 DEF Rest
  <1>6. Tables(B)  BY <1>4, <1>5 DEF Sound, Tables
  <1>7. ValidShape(B)
    <2>1. RowsFit(B)
      <3>1. Cardinality(db.delegations) \in Nat /\ Cardinality(B.delegations) \in Nat /\ MaxRows \in Nat
        BY <1>3, <1>4, FS_CardinalityType, SeedAssumption DEF SoundStart
      <3>2. Cardinality(db.delegations) <= MaxRows  BY DEF Sound, ValidShape, RowsFit
      <3>3. Cardinality(B.delegations) <= MaxRows  BY <1>4, <3>1, <3>2
      <3>4. Preventative(B) = Preventative(db)  BY <1>5 DEF Preventative
      <3> QED BY <1>5, <3>3, <3>4 DEF Sound, ValidShape, RowsFit
    <2>2. Parents(B) = Parents(db)  BY <1>5 DEF Parents
    <2>3. \A role : Delegates(B, role) \subseteq Delegates(db, role)  BY <1>4 DEF Delegates
    <2>4. \A role \in DOMAIN B.roles : NoLongWalk(Subjects, Delegates(B, role))
      BY <1>5, <2>3, FewerWalks DEF Sound, ValidShape
    <2> QED BY <1>5, <2>1, <2>2, <2>4 DEF Sound, ValidShape
  <1>8. \A t : Within(B, t, db, t)  BY <1>4, <1>5 DEF Within
  <1>9. NoConflict(B, now)  BY <1>5, <1>6, <1>8, FewerKeep DEF Sound, Preventative
  <1> QED BY <1>1, <1>4, <1>6, <1>7, <1>9 DEF Stands, Sound

\* Whatever command is accepted leaves sound tables without a conflict.
LEMMA AcceptedStands ==
    ASSUME now \in Instants, Sound(db), NoConflict(db, now), NEW cmd \in Commands, Accepts(cmd)
    PROVE  Stands(cmd)
  <1>1. cmd.op \in {"createRole", "assignPermission", "assignRole", "createRule", "delegate", "revoke"}
    BY DEF Commands
  <1>2. CASE cmd.op = "createRole"  BY <1>2, CreateRoleStands DEF Accepts
  <1>3. CASE cmd.op = "assignPermission"  BY <1>3, AssignPermissionStands DEF Accepts
  <1>4. CASE cmd.op = "assignRole"  BY <1>4, AssignRoleStands DEF Accepts
  <1>5. CASE cmd.op = "createRule"  BY <1>5, CreateRuleStands DEF Accepts
  <1>6. CASE cmd.op = "delegate"  BY <1>6, CreateDelegationStands DEF Accepts
  <1>7. CASE cmd.op = "revoke"  BY <1>7, RevokeStands
  <1> QED BY <1>1, <1>2, <1>3, <1>4, <1>5, <1>6, <1>7

-----------------------------------------------------------------------------
(* The decisions.                                                            *)

\* The sets that add a delegator to those found through a link
Joined(f, P, W, d) == UNION {{ {d} \cup h : h \in f[<<p, W>>]} : p \in P}

HolderFunction(tables, people, t, f) ==
    f = [x \in tables.delegations \X SUBSET Subjects |->
           LET g == x[1] IN
           IF \/ Cardinality(x[2]) >= MaxDepth
              \/ g.delegator \in x[2]
              \/ g.delegator \notin people
           THEN {}
           ELSE IF HoldsDirectly(tables, g.delegator, g.role, g.scope, g, t)
           THEN {{g.delegator}}
           ELSE Joined(f, Links(tables, g.delegator, g.role, g.scope, g, t),
                       x[2] \cup {g.delegator}, g.delegator)]

\* One step of the live search goes no further.
Stops(people, g, V) ==
    Cardinality(V) >= MaxDepth \/ g.delegator \in V \/ g.delegator \notin people

IsJoined(f, P, W, d, h) == \E p \in P : \E i \in f[<<p, W>>] : h = {d} \cup i

LEMMA JoinIs ==
    ASSUME NEW f, NEW P, NEW W, NEW d, NEW h
    PROVE  h \in Joined(f, P, W, d) <=> IsJoined(f, P, W, d, h)
  <1> DEFINE Join(p) == { {d} \cup i : i \in f[<<p, W>>]}
  <1>1. \A p : h \in Join(p) <=> \E i \in f[<<p, W>>] : h = {d} \cup i  OBVIOUS
  <1>2. h \in UNION {Join(p) : p \in P} <=> \E p \in P : h \in Join(p)
    <2> HIDE DEF Join
    <2> QED OBVIOUS
  <1>3. UNION {Join(p) : p \in P} = Joined(f, P, W, d)  BY DEF Joined
  <1> HIDE DEF Join
  <1> QED BY <1>1, <1>2, <1>3 DEF IsJoined

LEMMA HoldersExist ==
    ASSUME NEW tables, Tables(tables), NEW people, NEW t
    PROVE  \E f : HolderFunction(tables, people, t, f)
  <1> DEFINE G == tables.delegations
             E == G \X SUBSET Subjects
             D == E \X SUBSET Subjects
             Next1(x) == Links(tables, x.delegator, x.role, x.scope, x, t)
             Ok(x, h, P) == /\ ~ Stops(people, x[1], x[2])
                            /\ IF Rooted(tables, t, x[1]) THEN h = {x[1].delegator}
                               ELSE \E p \in Next1(x[1]), i \in SUBSET Subjects :
                                       /\ h = {x[1].delegator} \cup i
                                       /\ <<<<p, x[2] \cup {x[1].delegator}>>, i>> \in P
             R == {r \in (SUBSET D) \X D : Ok(r[2][1], r[2][2], r[1])}
  <1>1. \A r \in R : r[1] \subseteq D /\ r[2] \in D  OBVIOUS
  <1>2. PICK L \in SUBSET D : \A x \in D : x \in L <=> \E r \in R : r[2] = x /\ r[1] \subseteq L
    <2> HIDE DEF D, R
    <2> QED BY <1>1, Derivable
  <1>3. ASSUME NEW x \in E, NEW h \in SUBSET Subjects PROVE <<x, h>> \in L <=> Ok(x, h, L)
    <2>0. PICK y : y = <<x, h>>  OBVIOUS
    <2>1. y \in D /\ y[1] = x /\ y[2] = h  BY <2>0
    <2>2. ASSUME y \in L PROVE Ok(x, h, L)
      <3>1. PICK u \in R : u[2] = y /\ u[1] \subseteq L  BY <1>2, <2>1, <2>2
      <3>2. Ok(u[2][1], u[2][2], u[1])  OBVIOUS
      <3>3. Ok(x, h, u[1])
        <4> HIDE DEF Ok
        <4> QED BY <2>1, <3>1, <3>2
      <3> QED BY <3>1, <3>3
    <2>3. ASSUME Ok(x, h, L) PROVE y \in L
      <3>1. PICK u : u = <<L, y>>  OBVIOUS
      <3>2. u[2] = y /\ u[1] = L /\ u \in (SUBSET D) \X D  BY <2>1, <3>1
      <3>3. Ok(u[2][1], u[2][2], u[1])
        <4> HIDE DEF Ok
        <4> QED BY <2>1, <2>3, <3>2
      <3>4. u \in R
        <4> HIDE DEF Ok, D
        <4> QED BY <3>2, <3>3
      <3> HIDE DEF R, D, Ok
      <3> QED BY <1>2, <2>1, <3>2, <3>4
    <2> HIDE DEF Ok
    <2> QED BY <2>0, <2>2, <2>3
  <1> DEFINE f == [x \in E |-> {h \in SUBSET Subjects : <<x, h>> \in L}]
  <1>4. ASSUME NEW x \in E, NEW p \in Next1(x[1]), NEW i
        PROVE  i \in f[<<p, x[2] \cup {x[1].delegator}>>]
                 <=> i \in SUBSET Subjects /\ <<<<p, x[2] \cup {x[1].delegator}>>, i>> \in L
    <2>1. p \in G /\ x[1].delegator \in Subjects /\ x[2] \in SUBSET Subjects  BY LinksAre
    <2>2. <<p, x[2] \cup {x[1].delegator}>> \in E  BY <2>1
    <2> QED BY <2>2
  <1>5. ASSUME NEW x \in E
        PROVE  f[x] = (IF Stops(people, x[1], x[2]) THEN {}
                       ELSE IF Rooted(tables, t, x[1])
                       THEN {{x[1].delegator}}
                       ELSE Joined(f, Next1(x[1]), x[2] \cup {x[1].delegator}, x[1].delegator))
    <2>0. x[1].delegator \in Subjects  BY LinksAre
    <2>1. \A h : h \in f[x] <=> h \in SUBSET Subjects /\ Ok(x, h, L)
      <3> HIDE DEF Ok, E
      <3> QED BY <1>3
    <2>2. \A p \in Next1(x[1]) : \A i : i \in f[<<p, x[2] \cup {x[1].delegator}>>]
                 <=> i \in SUBSET Subjects /\ <<<<p, x[2] \cup {x[1].delegator}>>, i>> \in L
      BY <1>4
    <2> HIDE DEF f, E, D, Next1
    <2>3. CASE Stops(people, x[1], x[2])  BY <2>1, <2>3
    <2>4. CASE ~ Stops(people, x[1], x[2]) /\ Rooted(tables, t, x[1])  BY <2>0, <2>1, <2>4
    <2>5. CASE ~ Stops(people, x[1], x[2]) /\ ~ Rooted(tables, t, x[1])
      <3> DEFINE U == Joined(f, Next1(x[1]), x[2] \cup {x[1].delegator}, x[1].delegator)
      <3>0. \A h : h \in U <=> \E p \in Next1(x[1]) :
                \E i \in f[<<p, x[2] \cup {x[1].delegator}>>] : h = {x[1].delegator} \cup i
        <4>1. \A h : h \in U <=> IsJoined(f, Next1(x[1]), x[2] \cup {x[1].delegator}, x[1].delegator, h)
          BY JoinIs
        <4> HIDE DEF U
        <4> QED BY <4>1 DEF IsJoined
      <3>1. ASSUME NEW h PROVE h \in f[x] <=> h \in U
        <4>1. h \in f[x] <=> h \in SUBSET Subjects /\ \E p \in Next1(x[1]), i \in SUBSET Subjects :
                                       /\ h = {x[1].delegator} \cup i
                                       /\ <<<<p, x[2] \cup {x[1].delegator}>>, i>> \in L
          BY <2>1, <2>5
        <4> HIDE DEF U
        <4>2. ASSUME h \in f[x] PROVE h \in U  BY <2>2, <3>0, <4>1, <4>2
        <4>3. ASSUME h \in U PROVE h \in f[x]
          <5>1. PICK p \in Next1(x[1]) :
                  \E i : i \in f[<<p, x[2] \cup {x[1].delegator}>>] /\ h = {x[1].delegator} \cup i
            BY <3>0, <4>3
          <5>2. PICK i : i \in f[<<p, x[2] \cup {x[1].delegator}>>] /\ h = {x[1].delegator} \cup i
            BY <5>1
          <5>3. i \in SUBSET Subjects /\ <<<<p, x[2] \cup {x[1].delegator}>>, i>> \in L
            BY <2>2, <5>2
          <5>4. h \in SUBSET Subjects  BY <2>0, <5>2, <5>3
          <5> QED BY <4>1, <5>2, <5>3, <5>4
        <4> QED BY <4>2, <4>3
      <3>2. f[x] = U
        <4> HIDE DEF U
        <4> QED BY <3>1
      <3> QED BY <2>5, <3>2
    <2> QED BY <2>3, <2>4, <2>5
  <1>6. HolderFunction(tables, people, t, f)  BY <1>5 DEF HolderFunction, Rooted, Stops
  <1> QED BY <1>6

\* A search that does not stop at g ends there or goes on at a link above it.
Finds(tables, people, t, g, V, h) ==
    /\ ~ Stops(people, g, V)
    /\ IF Rooted(tables, t, g) THEN h = {g.delegator}
       ELSE \E p \in Links(tables, g.delegator, g.role, g.scope, g, t) :
               \E i \in Holders(tables, people, p, t, V \cup {g.delegator}) : h = {g.delegator} \cup i

LEMMA HoldersRec ==
    ASSUME NEW tables, Tables(tables), NEW people, NEW t, NEW g \in tables.delegations, NEW V \in SUBSET Subjects,
           NEW h
    PROVE  h \in Holders(tables, people, g, t, V) <=> Finds(tables, people, t, g, V, h)
  <1> DEFINE holders == CHOOSE f : HolderFunction(tables, people, t, f)
             Up == Links(tables, g.delegator, g.role, g.scope, g, t)
  <1>1. PICK a : HolderFunction(tables, people, t, a) /\ \A q, U : Holders(tables, people, q, t, U) = a[<<q, U>>]
    <2>1. HolderFunction(tables, people, t, holders)  BY HoldersExist
    <2>2. \A q, U : Holders(tables, people, q, t, U) = holders[<<q, U>>]
      BY DEF Holders, HolderFunction, Joined
    <2> HIDE DEF holders
    <2> QED BY <2>1, <2>2
  <1>2. PICK x : x = <<g, V>>  OBVIOUS
  <1>3. x \in tables.delegations \X SUBSET Subjects /\ x[1] = g /\ x[2] = V  BY <1>2
  <1> DEFINE U == Joined(a, Up, V \cup {g.delegator}, g.delegator)
  <1>4. a[x] = IF Stops(people, g, V) THEN {} ELSE IF Rooted(tables, t, g) THEN {{g.delegator}} ELSE U
    <2>1. a[x] = IF Stops(people, x[1], x[2]) THEN {}
                 ELSE IF Rooted(tables, t, x[1]) THEN {{x[1].delegator}}
                 ELSE Joined(a, Links(tables, x[1].delegator, x[1].role, x[1].scope, x[1], t),
                             x[2] \cup {x[1].delegator}, x[1].delegator)
      BY <1>1, <1>3 DEF HolderFunction, Rooted, Stops
    <2> QED BY <1>3, <2>1
  <1>5. h \in U <=> \E p \in Up : \E i \in a[<<p, V \cup {g.delegator}>>] : h = {g.delegator} \cup i
    <2>1. h \in U <=> IsJoined(a, Up, V \cup {g.delegator}, g.delegator, h)  BY JoinIs
    <2> HIDE DEF U, Up
    <2> QED BY <2>1 DEF IsJoined
  <1> HIDE DEF U, Up
  <1>6. h \in Holders(tables, people, g, t, V) <=> h \in a[x]  BY <1>1, <1>2
  <1>7. h \in U <=> \E p \in Up : \E i \in Holders(tables, people, p, t, V \cup {g.delegator}) : h = {g.delegator} \cup i
    BY <1>1, <1>5
  <1>8. CASE Stops(people, g, V)  BY <1>4, <1>6, <1>8 DEF Finds
  <1>9. CASE ~ Stops(people, g, V) /\ Rooted(tables, t, g)  BY <1>4, <1>6, <1>9 DEF Finds
  <1>10. CASE ~ Stops(people, g, V) /\ ~ Rooted(tables, t, g)
    BY <1>4, <1>6, <1>7, <1>10 DEF Up, Finds
  <1> QED BY <1>8, <1>9, <1>10

\* What the live search finds, the projection counts.
LEMMA HoldersHaveSource ==
    ASSUME NEW tables, Tables(tables), NEW people, NEW t
    PROVE  \A g \in tables.delegations, V \in SUBSET Subjects :
              Holders(tables, people, g, t, V) # {} => \A W \in SUBSET V : HasSource(tables, g, t, W)
  <1> DEFINE T == {x \in tables.delegations \X SUBSET Subjects :
                     /\ Holders(tables, people, x[1], t, x[2]) # {}
                     /\ \E W \in SUBSET x[2] : ~ HasSource(tables, x[1], t, W)}
  <1>0. MaxDepth \in Nat  BY SeedAssumption DEF SoundStart
  <1>1. ASSUME NEW x \in T
        PROVE  /\ Cardinality(x[2]) \in Nat /\ Cardinality(x[2]) <= MaxDepth
               /\ \E y \in T : Cardinality(y[2]) = Cardinality(x[2]) + 1
    <2>1. PICK g \in tables.delegations, V \in SUBSET Subjects :
             x = <<g, V>> /\ Holders(tables, people, g, t, V) # {}
             /\ \E W \in SUBSET V : ~ HasSource(tables, g, t, W)
      <3>1. x[1] \in tables.delegations /\ x[2] \in SUBSET Subjects /\ x = <<x[1], x[2]>>
        BY <1>1
      <3> QED BY <1>1, <3>1
    <2>2. PICK W \in SUBSET V : ~ HasSource(tables, g, t, W)  BY <2>1
    <2>3. PICK h : h \in Holders(tables, people, g, t, V)  BY <2>1
    <2>4. ~ Stops(people, g, V)
          /\ IF Rooted(tables, t, g) THEN h = {g.delegator}
             ELSE \E p \in Links(tables, g.delegator, g.role, g.scope, g, t) :
                \E i \in Holders(tables, people, p, t, V \cup {g.delegator}) : h = {g.delegator} \cup i
      <3>1. Finds(tables, people, t, g, V, h)  BY <2>3, HoldersRec
      <3> QED BY <3>1 DEF Finds
    <2>5. g.delegator \in Subjects /\ g.delegator \notin V /\ ~ (Cardinality(V) >= MaxDepth)
      BY <2>4, LinksAre DEF Stops
    <2>6. /\ Cardinality(V \cup {g.delegator}) = Cardinality(V) + 1 /\ V \cup {g.delegator} \in SUBSET Subjects
          /\ Cardinality(V) \in Nat
      BY <2>5, VisitsOneMore
    <2>7. Cardinality(W) <= MaxDepth /\ W \in SUBSET Subjects /\ g.delegator \notin W
      <3>1. IsFiniteSet(V)  BY FS_Subset, SeedAssumption DEF SoundStart
      <3>2. Cardinality(W) <= Cardinality(V) /\ Cardinality(W) \in Nat
        BY <3>1, FS_Subset, FS_CardinalityType
      <3> QED BY <1>0, <2>5, <2>6, <3>2
    <2>8. /\ ~ Rooted(tables, t, g)
          /\ \A p \in Links(tables, g.delegator, g.role, g.scope, g, t) :
                ~ HasSource(tables, p, t, W \cup {g.delegator})
      BY <2>2, <2>7, SourceRec
    <2>9. PICK p \in Links(tables, g.delegator, g.role, g.scope, g, t) :
            \E i \in Holders(tables, people, p, t, V \cup {g.delegator}) : h = {g.delegator} \cup i
      BY <2>4, <2>8
    <2>10. p \in tables.delegations /\ Holders(tables, people, p, t, V \cup {g.delegator}) # {}
      BY <2>9, LinksAre
    <2>11. W \cup {g.delegator} \in SUBSET (V \cup {g.delegator})
           /\ ~ HasSource(tables, p, t, W \cup {g.delegator})
      BY <2>8
    <2>12. PICK y : y = <<p, V \cup {g.delegator}>>  OBVIOUS
    <2>13. y[1] = p /\ y[2] = V \cup {g.delegator} /\ y \in tables.delegations \X SUBSET Subjects
      BY <2>6, <2>10, <2>12
    <2>14. y \in T  BY <2>10, <2>11, <2>13
    <2> HIDE DEF T
    <2>15. x[2] = V /\ Cardinality(V) <= MaxDepth  BY <1>0, <2>1, <2>5, <2>6
    <2> QED BY <2>6, <2>13, <2>14, <2>15
  <1>2. T = {}
    <2>1. T \in SUBSET (tables.delegations \X SUBSET Subjects)  OBVIOUS
    <2> HIDE DEF T
    <2> QED BY <1>1, <2>1, SearchEnds
  <1>3. ASSUME NEW g \in tables.delegations, NEW V \in SUBSET Subjects, Holders(tables, people, g, t, V) # {},
               NEW W \in SUBSET V
        PROVE  HasSource(tables, g, t, W)
    <2>1. PICK y : y = <<g, V>>  OBVIOUS
    <2>2. y[1] = g /\ y[2] = V /\ y \in tables.delegations \X SUBSET Subjects  BY <2>1
    <2>3. y \notin T  BY <1>2
    <2> QED BY <1>3, <2>2, <2>3
  <1> QED BY <1>3

\* A live search goes through principals whose membership is effective, and
\* through the same rows while those stay and so do the rows.
LEMMA HoldersStay ==
    ASSUME NEW A, Tables(A), NEW B, Tables(B), NEW people, NEW still, NEW t,
           B.delegations = A.delegations, B.assignments = A.assignments
    PROVE  \A g \in A.delegations, V \in SUBSET Subjects :
              \A h \in Holders(A, people, g, t, V) :
                 /\ h \subseteq people
                 /\ h \subseteq still => h \in Holders(B, still, g, t, V)
  <1> DEFINE Kept(h, g, V) == h \subseteq people /\ (h \subseteq still => h \in Holders(B, still, g, t, V))
             T == {x \in A.delegations \X SUBSET Subjects :
                     \E h \in Holders(A, people, x[1], t, x[2]) : ~ Kept(h, x[1], x[2])}
  <1>0. MaxDepth \in Nat  BY SeedAssumption DEF SoundStart
  <1>1. ASSUME NEW x \in T
        PROVE  /\ Cardinality(x[2]) \in Nat /\ Cardinality(x[2]) <= MaxDepth
               /\ \E y \in T : Cardinality(y[2]) = Cardinality(x[2]) + 1
    <2>1. PICK g \in A.delegations, V \in SUBSET Subjects :
             x = <<g, V>> /\ \E h \in Holders(A, people, g, t, V) : ~ Kept(h, g, V)
      <3>1. x[1] \in A.delegations /\ x[2] \in SUBSET Subjects /\ x = <<x[1], x[2]>>  BY <1>1
      <3> QED BY <1>1, <3>1
    <2>2. PICK h \in Holders(A, people, g, t, V) : ~ Kept(h, g, V)  BY <2>1
    <2> DEFINE W == V \cup {g.delegator}
    <2>3. ~ Stops(people, g, V)
          /\ IF Rooted(A, t, g) THEN h = {g.delegator}
             ELSE \E p \in Links(A, g.delegator, g.role, g.scope, g, t) :
                \E i \in Holders(A, people, p, t, W) : h = {g.delegator} \cup i
      <3>1. Finds(A, people, t, g, V, h)  BY <2>2, HoldersRec
      <3> QED BY <3>1 DEF Finds
    <2>4. g.delegator \in Subjects /\ g.delegator \in people /\ g.delegator \notin V /\ ~ (Cardinality(V) >= MaxDepth)
      BY <2>3, LinksAre DEF Stops
    <2>5. Cardinality(W) = Cardinality(V) + 1 /\ W \in SUBSET Subjects /\ Cardinality(V) \in Nat
      BY <2>4, VisitsOneMore
    <2>6. /\ Rooted(A, t, g) <=> Rooted(B, t, g)
          /\ Links(A, g.delegator, g.role, g.scope, g, t) = Links(B, g.delegator, g.role, g.scope, g, t)
      BY DEF Rooted, HoldsDirectly, Links
    <2>7. h \in Holders(B, still, g, t, V) <=>
            ~ Stops(still, g, V)
            /\ IF Rooted(A, t, g) THEN h = {g.delegator}
               ELSE \E p \in Links(A, g.delegator, g.role, g.scope, g, t) :
                  \E i \in Holders(B, still, p, t, W) : h = {g.delegator} \cup i
      <3>1. h \in Holders(B, still, g, t, V) <=> Finds(B, still, t, g, V, h)  BY HoldersRec
      <3> QED BY <2>6, <3>1 DEF Finds
    <2>8. g.delegator \in still => ~ Stops(still, g, V)  BY <2>4 DEF Stops
    <2> HIDE DEF W
    <2>9. ~ Rooted(A, t, g)  BY <2>2, <2>3, <2>4, <2>7, <2>8
    <2>10. PICK p \in Links(A, g.delegator, g.role, g.scope, g, t) :
             \E i \in Holders(A, people, p, t, W) : h = {g.delegator} \cup i
      BY <2>3, <2>9
    <2>11. PICK i \in Holders(A, people, p, t, W) : h = {g.delegator} \cup i  BY <2>10
    <2>12. ~ Kept(i, p, W)
      <3> SUFFICES ASSUME Kept(i, p, W) PROVE FALSE  OBVIOUS
      <3>1. h \subseteq people  BY <2>4, <2>11
      <3>2. h \subseteq still /\ h \notin Holders(B, still, g, t, V)  BY <2>2, <3>1
      <3>3. i \subseteq still /\ g.delegator \in still  BY <2>11, <3>2
      <3> QED BY <2>7, <2>8, <2>9, <2>11, <3>2, <3>3
    <2>13. p \in A.delegations  BY LinksAre
    <2>14. PICK y : y = <<p, W>>  OBVIOUS
    <2>15. y[1] = p /\ y[2] = W /\ y \in A.delegations \X SUBSET Subjects
      BY <2>5, <2>13, <2>14
    <2>16. y \in T
      <3> HIDE DEF Kept
      <3> QED BY <2>11, <2>12, <2>15
    <2> HIDE DEF T
    <2>17. x[2] = V /\ Cardinality(V) <= MaxDepth  BY <1>0, <2>1, <2>4, <2>5
    <2> QED BY <2>5, <2>15, <2>16, <2>17
  <1>2. T = {}
    <2>1. T \in SUBSET (A.delegations \X SUBSET Subjects)  OBVIOUS
    <2> HIDE DEF T
    <2> QED BY <1>1, <2>1, SearchEnds
  <1>3. ASSUME NEW g \in A.delegations, NEW V \in SUBSET Subjects, NEW h \in Holders(A, people, g, t, V)
        PROVE  Kept(h, g, V)
    <2>1. PICK y : y = <<g, V>>  OBVIOUS
    <2>2. y[1] = g /\ y[2] = V /\ y \in A.delegations \X SUBSET Subjects  BY <2>1
    <2>3. y \notin T  BY <1>2
    <2> HIDE DEF Kept
    <2> QED BY <1>3, <2>2, <2>3
  <1> QED BY <1>3
-----------------------------------------------------------------------------
(* The tables stay sound.                                                    *)

\* An open transaction holds the tenant's lock.
LockHeld == \A c \in Txs : tx[c] # Idle => lock = c

\* What a transaction has written may be committed.
WrittenStands == \A c \in Txs : tx[c].phase = "written" => Stands(tx[c].cmd)

PolicyInv == TypeOK /\ Sound(db) /\ NoConflict(db, now) /\ LockHeld /\ WrittenStands

OpenRows == [phase : {"locked", "written"}, cmd : Commands] \cup Decisions

LEMMA TypeIs ==
    TypeOK <=> /\ Tables(db) /\ members \subseteq Subjects /\ now \in Instants /\ lock \in Txs \cup {NoTx}
               /\ DOMAIN tx = Txs /\ \A c \in Txs : tx[c] \in OpenRows \cup {Idle}
  BY DEF TypeOK, OpenRows

LEMMA OpenIsNotIdle == \A v \in OpenRows : v # Idle /\ v.phase # "idle"
  BY DEF OpenRows, Decisions, Idle

\* A step of one transaction that leaves the tables alone
LEMMA TransactionSteps ==
    ASSUME PolicyInv, NEW c \in Txs, NEW v, tx' = [tx EXCEPT ![c] = v], UNCHANGED <<db, members, now>>,
           \/ v = Idle /\ Release(c)
           \/ /\ v \in OpenRows /\ lock \in {NoTx, c} /\ lock' = c
              /\ v.phase = "written" => Stands(v.cmd)
    PROVE  PolicyInv'
  <1>0. NoTx \notin Txs /\ DOMAIN tx = Txs /\ Idle.phase # "written"
    BY SeedAssumption DEF SoundStart, PolicyInv, TypeOK, Idle
  <1>1. DOMAIN tx' = Txs /\ tx'[c] = v /\ \A d \in Txs \ {c} : tx'[d] = tx[d]  BY <1>0
  <1>2. db' = db /\ members' = members /\ now' = now  OBVIOUS
  <1>3. \A d \in Txs \ {c} : lock \in {NoTx, c} => tx[d] = Idle
    BY <1>0 DEF PolicyInv, LockHeld
  <1>4. TypeOK'
    <2>1. lock' \in Txs \cup {NoTx}  BY DEF Release, PolicyInv, TypeOK
    <2>2. \A d \in Txs : tx'[d] \in OpenRows \cup {Idle}  BY <1>1, TypeIs DEF PolicyInv
    <2>3. Tables(db') /\ members' \subseteq Subjects /\ now' \in Instants
      BY <1>2 DEF PolicyInv, TypeOK
    <2>4. \A d \in Txs : \/ tx'[d] = Idle
                         \/ tx'[d] \in [phase : {"locked", "written"}, cmd : Commands]
                         \/ tx'[d] \in Decisions
      BY <2>2 DEF OpenRows
    <2> QED BY <1>1, <2>1, <2>3, <2>4 DEF TypeOK
  <1>5. Sound(db') /\ NoConflict(db', now')  BY <1>2 DEF PolicyInv
  <1>6. LockHeld'
    <2>1. ASSUME NEW d \in Txs, tx'[d] # Idle PROVE lock' = d
      <3>1. CASE d = c  BY <1>1, <2>1, <3>1
      <3>2. CASE d # c
        <4>1. tx[d] # Idle /\ lock = d  BY <1>1, <2>1, <3>2 DEF PolicyInv, LockHeld
        <4>2. v = Idle /\ Release(c)  BY <1>0, <3>2, <4>1
        <4> QED BY <3>2, <4>1, <4>2 DEF Release
      <3> QED BY <3>1, <3>2
    <2> QED BY <2>1 DEF LockHeld
  <1>7. WrittenStands'
    <2>1. ASSUME NEW d \in Txs, tx'[d].phase = "written" PROVE Stands(tx'[d].cmd)
      BY <1>0, <1>1, <2>1 DEF PolicyInv, WrittenStands
    <2>2. \A x : Stands(x) => Stands(x)'  BY <1>2 DEF Stands
    <2>3. ASSUME NEW d \in Txs, tx'[d].phase = "written" PROVE Stands(tx[d].cmd)'
      <3>1. PICK x : x = tx'[d].cmd  OBVIOUS
      <3>2. Sound(Apply(db, x)) /\ NoConflict(Apply(db, x), now)
        BY <2>1, <2>3, <3>1 DEF Stands
      <3> QED BY <1>2, <3>1, <3>2 DEF Stands
    <2> QED BY <2>3 DEF WrittenStands
  <1> QED BY <1>4, <1>5, <1>6, <1>7 DEF PolicyInv

LEMMA PolicyBegins == Init => PolicyInv
  <1> SUFFICES ASSUME Init PROVE PolicyInv  OBVIOUS
  <1>1. /\ Tables(db) /\ ValidShape(db) /\ NoConflict(db, 0) /\ db.delegations = {} /\ Horizon \in Nat
        /\ now = 0 /\ lock = NoTx /\ members = Subjects /\ DOMAIN tx = Txs /\ \A c \in Txs : tx[c] = Idle
    BY SeedAssumption DEF SoundStart, Init
  <1>2. IsFiniteSet(db.delegations)  BY <1>1, FS_EmptySet
  <1>3. TypeOK  BY <1>1 DEF TypeOK, Instants
  <1> QED BY <1>1, <1>2, <1>3 DEF PolicyInv, Sound, LockHeld, WrittenStands, Idle

LEMMA PolicyTypes ==
    ASSUME PolicyInv
    PROVE  /\ now \in Instants /\ Sound(db) /\ Tables(db) /\ NoConflict(db, now) /\ members \subseteq Subjects
           /\ DOMAIN tx = Txs /\ lock \in Txs \cup {NoTx} /\ NoTx \notin Txs
           /\ \A c \in Txs : tx[c] \in OpenRows \cup {Idle} /\ (tx[c] # Idle => lock = c)
           /\ \A c \in Txs : tx[c].phase = "written" => Stands(tx[c].cmd)
  BY TypeIs, SeedAssumption DEF PolicyInv, Sound, LockHeld, WrittenStands, SoundStart

LEMMA BeginStep ==
    ASSUME PolicyInv, NEW c \in Txs, Begin(c)
    PROVE  PolicyInv'
  <1>1. PICK cmd \in Commands : /\ Acquire(c) /\ UNCHANGED <<db, members, now>>
                                /\ tx' = [tx EXCEPT ![c] = [phase |-> "locked", cmd |-> cmd]]
    BY DEF Begin
  <1>2. PICK v : v = [phase |-> "locked", cmd |-> cmd]  OBVIOUS
  <1>3. v \in OpenRows /\ v.phase = "locked"  BY <1>2 DEF OpenRows
  <1>4. tx' = [tx EXCEPT ![c] = v] /\ lock \in {NoTx, c} /\ lock' = c
    BY <1>1, <1>2 DEF Acquire
  <1> QED BY <1>1, <1>3, <1>4, TransactionSteps

LEMMA DecideStep ==
    ASSUME PolicyInv, NEW c \in Txs, Decide(c)
    PROVE  PolicyInv'
  <1>1. tx[c].phase = "locked" /\ UNCHANGED <<db, members, now>>  BY DEF Decide
  <1>2. tx[c] \in [phase : {"locked", "written"}, cmd : Commands] /\ lock = c /\ DOMAIN tx = Txs
    BY <1>1, PolicyTypes DEF OpenRows, Decisions, Idle
  <1>3. CASE Accepts(tx[c].cmd)
    <2>1. tx' = [tx EXCEPT ![c].phase = "written"] /\ lock' = lock  BY <1>3 DEF Decide
    <2>2. PICK v : v = [tx[c] EXCEPT !.phase = "written"]  OBVIOUS
    <2>3. tx' = [tx EXCEPT ![c] = v]  BY <2>1, <2>2
    <2>4. v \in OpenRows /\ v.cmd = tx[c].cmd  BY <1>2, <2>2 DEF OpenRows
    <2>5. Stands(v.cmd)  BY <1>2, <1>3, <2>4, PolicyTypes, AcceptedStands
    <2> QED BY <1>1, <1>2, <2>1, <2>3, <2>4, <2>5, TransactionSteps
  <1>4. CASE ~ Accepts(tx[c].cmd)
    <2>1. tx' = [tx EXCEPT ![c] = Idle] /\ Release(c)  BY <1>4 DEF Decide
    <2> QED BY <1>1, <2>1, TransactionSteps
  <1> QED BY <1>3, <1>4

LEMMA LockedAreSubjects ==
    ASSUME PolicyInv, NEW s \in Subjects, NEW action, NEW site
    PROVE  \A kept \in Locked(s, action, site) : kept \subseteq Subjects
  <1> SUFFICES ASSUME NEW kept \in Locked(s, action, site) PROVE kept \subseteq Subjects
    OBVIOUS
  <1>1. PICK src \in Sources(db, members, s, site, now) : kept = src[2]  BY DEF Locked
  <1>2. CASE src \in { <<row.role, {s}>> : row \in {a \in db.assignments :
                         a.subject = s /\ active_at(a, now) /\ InScope(a.scope, site)}}
    BY <1>1, <1>2
  <1>3. CASE src \in UNION { { <<g.role, h \cup {s}>> : h \in Holders(db, members, g, now, {s}) } :
                    g \in {d \in db.delegations :
                      /\ d.delegatee = s /\ ~d.revoked
                      /\ active_at(d, now) /\ InScope(d.scope, site)}}
    <2>1. PICK g \in db.delegations : src \in { <<g.role, h \cup {s}>> : h \in Holders(db, members, g, now, {s}) }
      BY <1>3
    <2>2. PICK h \in Holders(db, members, g, now, {s}) : src = <<g.role, h \cup {s}>>  BY <2>1
    <2>3. h \subseteq members /\ members \subseteq Subjects
      <3>1. Tables(db) /\ members \subseteq Subjects /\ {s} \in SUBSET Subjects
        BY PolicyTypes
      <3> QED BY <3>1, HoldersStay
    <2> QED BY <1>1, <2>2, <2>3
  <1> QED BY <1>1, <1>2, <1>3 DEF Sources

LEMMA AuthorizeStep ==
    ASSUME PolicyInv, NEW c \in Txs, Authorize(c)
    PROVE  PolicyInv'
  <1>1. PICK s \in Subjects, a \in Perms \ {Wild}, site \in Sites :
           /\ Acquire(c) /\ UNCHANGED <<db, members, now>>
           /\ \E kept \in Locked(s, a, site) :
                tx' = [tx EXCEPT ![c] = [phase |-> "permitted", subject |-> s, action |-> a,
                                         site |-> site, at |-> now, held |-> kept]]
    BY DEF Authorize
  <1>2. PICK kept \in Locked(s, a, site) :
           tx' = [tx EXCEPT ![c] = [phase |-> "permitted", subject |-> s, action |-> a,
                                    site |-> site, at |-> now, held |-> kept]]
    BY <1>1
  <1>3. PICK v : v = [phase |-> "permitted", subject |-> s, action |-> a, site |-> site, at |-> now, held |-> kept]
    OBVIOUS
  <1>4. kept \in SUBSET Subjects  BY LockedAreSubjects
  <1>5. v \in Decisions /\ v.phase = "permitted"  BY <1>3, <1>4, PolicyTypes DEF Decisions
  <1>6. v \in OpenRows  BY <1>5 DEF OpenRows
  <1>7. tx' = [tx EXCEPT ![c] = v] /\ lock \in {NoTx, c} /\ lock' = c
    BY <1>1, <1>2, <1>3 DEF Acquire
  <1> QED BY <1>1, <1>5, <1>6, <1>7, TransactionSteps

LEMMA ApplyPermitStep ==
    ASSUME PolicyInv, NEW c \in Txs, ApplyPermit(c)
    PROVE  PolicyInv'
  <1>1. tx[c].phase = "permitted" /\ UNCHANGED <<db, members, now>>  BY DEF ApplyPermit
  <1>2. tx[c] \in Decisions /\ lock = c /\ DOMAIN tx = Txs
    BY <1>1, PolicyTypes DEF OpenRows, Idle
  <1>3. CASE authorize(db, members, tx[c].subject, tx[c].action, tx[c].site, now)
    <2>1. PICK kept \in Locked(tx[c].subject, tx[c].action, tx[c].site) :
             tx' = [tx EXCEPT ![c].phase = "applied", ![c].at = now, ![c].held = @ \cup kept]
      BY <1>3 DEF ApplyPermit
    <2>2. lock' = lock  BY <1>3 DEF ApplyPermit
    <2>3. PICK v : v = [tx[c] EXCEPT !.phase = "applied", !.at = now, !.held = @ \cup kept]
      OBVIOUS
    <2>4. tx' = [tx EXCEPT ![c] = v]  BY <1>2, <2>1, <2>3
    <2>5. tx[c].subject \in Subjects  BY <1>2 DEF Decisions
    <2>6. kept \subseteq Subjects  BY <2>5, LockedAreSubjects
    <2>7. v \in Decisions /\ v.phase = "applied"
      BY <1>2, <2>3, <2>6, PolicyTypes DEF Decisions
    <2>8. v \in OpenRows  BY <2>7 DEF OpenRows
    <2> QED BY <1>1, <1>2, <2>2, <2>4, <2>7, <2>8, TransactionSteps
  <1>4. CASE ~ authorize(db, members, tx[c].subject, tx[c].action, tx[c].site, now)
    <2>1. tx' = [tx EXCEPT ![c] = Idle] /\ Release(c)  BY <1>4 DEF ApplyPermit
    <2> QED BY <1>1, <2>1, TransactionSteps
  <1> QED BY <1>3, <1>4

LEMMA AbortStep ==
    ASSUME PolicyInv, NEW c \in Txs, Abort(c)
    PROVE  PolicyInv'
  BY TransactionSteps DEF Abort

LEMMA CommitStep ==
    ASSUME PolicyInv, NEW c \in Txs, Commit(c)
    PROVE  PolicyInv'
  <1>1. tx' = [tx EXCEPT ![c] = Idle] /\ Release(c) /\ UNCHANGED <<members, now>>
    BY DEF Commit
  <1>2. CASE tx[c].phase = "applied" /\ UNCHANGED db  BY <1>1, <1>2, TransactionSteps
  <1>3. CASE tx[c].phase = "written" /\ db' = Apply(db, tx[c].cmd)
    <2>1. lock = c /\ DOMAIN tx = Txs /\ NoTx \notin Txs  BY <1>3, PolicyTypes DEF Idle
    <2>2. DOMAIN tx' = Txs /\ \A d \in Txs : tx'[d] = Idle  BY <1>1, <2>1, PolicyTypes
    <2>3. Stands(tx[c].cmd)  BY <1>3, PolicyTypes
    <2>4. Sound(db') /\ NoConflict(db', now')  BY <1>1, <1>3, <2>3 DEF Stands
    <2>5. TypeOK'  BY <1>1, <2>2, <2>4, PolicyTypes DEF TypeOK, Sound, Release
    <2>6. LockHeld' /\ WrittenStands'  BY <2>2 DEF LockHeld, WrittenStands, Idle
    <2> QED BY <2>4, <2>5, <2>6 DEF PolicyInv
  <1> QED BY <1>2, <1>3 DEF Commit

LEMMA MembershipStep ==
    ASSUME PolicyInv, NEW s \in Subjects, ChangeMembership(s)
    PROVE  PolicyInv'
  <1>1. UNCHANGED <<db, now, lock, tx>> /\ members' \in {members \ {s}, members \cup {s}}
    BY DEF ChangeMembership
  <1>2. TypeOK'  BY <1>1 DEF PolicyInv, TypeOK
  <1>3. WrittenStands' /\ LockHeld'  BY <1>1 DEF PolicyInv, WrittenStands, LockHeld, Stands
  <1> QED BY <1>1, <1>2, <1>3 DEF PolicyInv

LEMMA LaterKeeps ==
    ASSUME NEW A, NEW from, NEW to, from \in Int, to \in Int, from <= to, Horizon \in Int, NoConflict(A, from)
    PROVE  NoConflict(A, to)
  BY DEF NoConflict

LEMMA TickStep ==
    ASSUME PolicyInv, Tick
    PROVE  PolicyInv'
  <1>1. UNCHANGED <<db, members, lock, tx>> /\ now' = now + 1 /\ now < Horizon /\ Horizon \in Nat
    BY SeedAssumption DEF Tick, SoundStart
  <1>2. now \in Int /\ now' \in Instants /\ now <= now'
    BY <1>1 DEF PolicyInv, TypeOK, Instants
  <1>3. \A A : NoConflict(A, now) => NoConflict(A, now')  BY <1>1, <1>2, LaterKeeps
  <1>4. TypeOK'  BY <1>1, <1>2 DEF PolicyInv, TypeOK
  <1>5. WrittenStands' /\ LockHeld'
    BY <1>1, <1>3 DEF PolicyInv, WrittenStands, LockHeld, Stands
  <1> QED BY <1>1, <1>3, <1>4, <1>5 DEF PolicyInv

\* A detective rule changes nothing that a projection looks at.
LEMMA DetectiveKeeps ==
    ASSUME NEW A, Sound(A), NEW B, Rest(A, B, "rules"), NEW pair \in Pairs,
           B.rules = A.rules \cup {[pair |-> pair, preventative |-> FALSE]}, NoConflict(A, now)
    PROVE  Sound(B) /\ NoConflict(B, now)
  <1>1. PICK rule : rule = [pair |-> pair, preventative |-> FALSE]  OBVIOUS
  <1>2. rule \in RuleRows /\ ~ rule.preventative /\ B.rules = A.rules \cup {rule}
    BY <1>1 DEF RuleRows
  <1>3. B.roles = A.roles /\ B.perms = A.perms /\ B.assignments = A.assignments /\ B.delegations = A.delegations
        /\ DOMAIN B = DOMAIN A
    BY DEF Rest
  <1>4. Tables(B)  BY <1>2, <1>3 DEF Tables, Sound
  <1>5. Preventative(B) = Preventative(A)  BY <1>2 DEF Preventative
  <1>6. ValidShape(B)
    <2>1. \A role : Delegates(B, role) = Delegates(A, role)  BY <1>3 DEF Delegates
    <2> QED BY <1>3, <1>5, <2>1 DEF ValidShape, Sound, RowsFit, Parents
  <1>7. \A t : Within(B, t, A, t)  BY <1>3 DEF Within
  <1>8. NoConflict(B, now)  BY <1>4, <1>5, <1>7, FewerKeep DEF Sound
  <1> QED BY <1>3, <1>4, <1>6, <1>8 DEF Sound

LEMMA RestIs ==
    ASSUME NEW A, NEW B
    PROVE  /\ Rest(A, B, "roles") <=> DOMAIN B = DOMAIN A /\ B.perms = A.perms /\ B.assignments = A.assignments /\ B.rules = A.rules /\ B.delegations = A.delegations
           /\ Rest(A, B, "perms") <=> DOMAIN B = DOMAIN A /\ B.roles = A.roles /\ B.assignments = A.assignments /\ B.rules = A.rules /\ B.delegations = A.delegations
           /\ Rest(A, B, "assignments") <=> DOMAIN B = DOMAIN A /\ B.roles = A.roles /\ B.perms = A.perms /\ B.rules = A.rules /\ B.delegations = A.delegations
           /\ Rest(A, B, "rules") <=> DOMAIN B = DOMAIN A /\ B.roles = A.roles /\ B.perms = A.perms /\ B.assignments = A.assignments /\ B.delegations = A.delegations
           /\ Rest(A, B, "delegations") <=> DOMAIN B = DOMAIN A /\ B.roles = A.roles /\ B.perms = A.perms /\ B.assignments = A.assignments /\ B.rules = A.rules
  BY DEF Rest

\* It changes no row that a command adds either.
LEMMA ApplyKeepsRest ==
    ASSUME NEW A, Tables(A), NEW B, Tables(B), Rest(A, B, "rules"), NEW rule, B.rules = A.rules \cup {rule},
           NEW cmd \in Commands
    PROVE  Rest(Apply(A, cmd), Apply(B, cmd), "rules") /\ Apply(B, cmd).rules = Apply(A, cmd).rules \cup {rule}
  <1>0. B.roles = A.roles /\ B.perms = A.perms /\ B.assignments = A.assignments /\ B.delegations = A.delegations
        /\ DOMAIN B = DOMAIN A
    BY DEF Rest
  <1>1. cmd.op \in {"createRole", "assignPermission", "assignRole", "createRule", "delegate", "revoke"}
    BY DEF Commands
  <1>2. NewGrant(B, cmd) = NewGrant(A, cmd)  BY DEF NewGrant, Rest
  <1>3. PICK X, Y : X = Apply(A, cmd) /\ Y = Apply(B, cmd)  OBVIOUS
  <1> SUFFICES Rest(X, Y, "rules") /\ Y.rules = X.rules \cup {rule}  BY <1>3
  <1>4. CASE cmd.op = "createRole"
    <2>1. Rest(A, X, "roles") /\ X.roles = [r \in DOMAIN A.roles \cup {cmd.role} |->
                             IF r \in DOMAIN A.roles THEN A.roles[r] ELSE cmd.parent]
      BY <1>3, <1>4, ApplyIs
    <2>2. Rest(B, Y, "roles") /\ Y.roles = [r \in DOMAIN B.roles \cup {cmd.role} |->
                             IF r \in DOMAIN B.roles THEN B.roles[r] ELSE cmd.parent]
      BY <1>3, <1>4, ApplyIs
    <2> QED BY <1>0, <1>2, <2>1, <2>2, RestIs
  <1>5. CASE cmd.op = "assignPermission"
    <2>1. Rest(A, X, "perms") /\ X.perms = A.perms \cup {<<cmd.role, cmd.perm>>}
      BY <1>3, <1>5, ApplyIs
    <2>2. Rest(B, Y, "perms") /\ Y.perms = B.perms \cup {<<cmd.role, cmd.perm>>}
      BY <1>3, <1>5, ApplyIs
    <2>3. Y.perms = X.perms  BY <1>0, <2>1, <2>2
    <2>4. /\ X.roles = A.roles /\ X.assignments = A.assignments /\ X.delegations = A.delegations /\ X.rules = A.rules
          /\ Y.roles = B.roles /\ Y.assignments = B.assignments /\ Y.delegations = B.delegations /\ Y.rules = B.rules
          /\ DOMAIN X = DOMAIN A /\ DOMAIN Y = DOMAIN B
      BY <2>1, <2>2, RestIs
    <2> QED BY <1>0, <2>3, <2>4, RestIs
  <1>6. CASE cmd.op = "assignRole"
    <2>1. Rest(A, X, "assignments") /\ X.assignments = A.assignments \cup {cmd.row}
      BY <1>3, <1>6, ApplyIs
    <2>2. Rest(B, Y, "assignments") /\ Y.assignments = B.assignments \cup {cmd.row}
      BY <1>3, <1>6, ApplyIs
    <2> QED BY <1>0, <1>2, <2>1, <2>2, RestIs
  <1>7. CASE cmd.op = "createRule"
    <2>1. Rest(A, X, "rules") /\ X.rules = A.rules \cup {cmd.rule}  BY <1>3, <1>7, ApplyIs
    <2>2. Rest(B, Y, "rules") /\ Y.rules = B.rules \cup {cmd.rule}  BY <1>3, <1>7, ApplyIs
    <2> QED BY <1>0, <1>2, <2>1, <2>2, RestIs
  <1>8. CASE cmd.op = "delegate"
    <2>1. Rest(A, X, "delegations") /\ X.delegations = A.delegations \cup {NewGrant(A, cmd)}
      BY <1>3, <1>8, ApplyIs
    <2>2. Rest(B, Y, "delegations") /\ Y.delegations = B.delegations \cup {NewGrant(B, cmd)}
      BY <1>3, <1>8, ApplyIs
    <2> QED BY <1>0, <1>2, <2>1, <2>2, RestIs
  <1>9. CASE cmd.op = "revoke"
    <2>0. \A T : Tables(T) => Rest(T, Apply(T, cmd), "delegations")
                  /\ Apply(T, cmd).delegations = Revoked(T.delegations, cmd.id)
      BY <1>9, ApplyIs
    <2>1. Rest(A, X, "delegations") /\ X.delegations = Revoked(A.delegations, cmd.id)
      BY <1>3, <2>0
    <2>2. Rest(B, Y, "delegations") /\ Y.delegations = Revoked(B.delegations, cmd.id)
      BY <1>3, <2>0
    <2> QED BY <1>0, <1>2, <2>1, <2>2, RestIs
  <1> QED BY <1>1, <1>4, <1>5, <1>6, <1>7, <1>8, <1>9

LEMMA DetectiveStep ==
    ASSUME PolicyInv, CreateDetectiveRule
    PROVE  PolicyInv'
  <1>1. PICK pair \in Pairs : db' = [db EXCEPT !.rules = @ \cup {[pair |-> pair, preventative |-> FALSE]}]
    BY DEF CreateDetectiveRule
  <1>2. UNCHANGED <<members, now, lock, tx>>  BY DEF CreateDetectiveRule
  <1> DEFINE rule == [pair |-> pair, preventative |-> FALSE]
  <1>3. Rest(db, db', "rules") /\ db'.rules = db.rules \cup {rule}
    BY <1>1 DEF Rest, PolicyInv, TypeOK, Tables
  <1> HIDE DEF rule
  <1>4. Sound(db') /\ NoConflict(db', now')  BY <1>2, <1>3, DetectiveKeeps DEF PolicyInv, rule
  <1>5. TypeOK'  BY <1>2, <1>4 DEF PolicyInv, TypeOK, Sound
  <1>6. ASSUME NEW c \in Txs, tx'[c].phase = "written"
        PROVE  Sound(Apply(db', tx'[c].cmd)) /\ NoConflict(Apply(db', tx'[c].cmd), now')
    <2>1. tx[c].phase = "written" /\ tx[c].cmd \in Commands /\ tx'[c] = tx[c]
      BY <1>2, <1>6, PolicyTypes DEF OpenRows, Decisions, Idle
    <2>2. PICK X, Y : X = Apply(db, tx[c].cmd) /\ Y = Apply(db', tx[c].cmd)  OBVIOUS
    <2>3. Sound(X) /\ NoConflict(X, now)  BY <2>1, <2>2, PolicyTypes DEF Stands
    <2>4. Rest(X, Y, "rules") /\ Y.rules = X.rules \cup {rule}
      BY <1>3, <1>4, <2>1, <2>2, PolicyTypes, ApplyKeepsRest DEF Sound
    <2> QED BY <1>2, <2>1, <2>2, <2>3, <2>4, DetectiveKeeps DEF rule
  <1>7. WrittenStands'  BY <1>6 DEF WrittenStands, Stands
  <1>8. LockHeld'  BY <1>2 DEF PolicyInv, LockHeld
  <1> QED BY <1>4, <1>5, <1>7, <1>8 DEF PolicyInv

LEMMA PolicySteps == PolicyInv /\ [Next]_vars => PolicyInv'
  <1> SUFFICES ASSUME PolicyInv, [Next]_vars PROVE PolicyInv'  OBVIOUS
  <1>1. CASE \E c \in Txs : \/ Begin(c) \/ Decide(c) \/ Authorize(c) \/ ApplyPermit(c) \/ Commit(c) \/ Abort(c)
    BY <1>1, BeginStep, DecideStep, AuthorizeStep, ApplyPermitStep, CommitStep, AbortStep
  <1>2. CASE CreateDetectiveRule  BY <1>2, DetectiveStep
  <1>3. CASE \E s \in Subjects : ChangeMembership(s)  BY <1>3, MembershipStep
  <1>4. CASE Tick  BY <1>4, TickStep
  <1>5. CASE UNCHANGED vars
    <2>1. UNCHANGED <<db, members, now, lock, tx>>  BY <1>5 DEF vars
    <2>2. TypeOK'  BY <2>1 DEF PolicyInv, TypeOK
    <2>3. WrittenStands' /\ LockHeld'  BY <2>1 DEF PolicyInv, WrittenStands, LockHeld, Stands
    <2> QED BY <2>1, <2>2, <2>3 DEF PolicyInv
  <1> QED BY <1>1, <1>2, <1>3, <1>4, <1>5 DEF Next

\* After any commands, in any order and at any times, the tables load and no
\* principal has or will come to have what a preventative rule forbids
\* (SoDAuthority.load, reject_new_conflicts).
THEOREM TablesStaySound == Spec => []TablesSound
  <1>1. PolicyInv => TablesSound
    BY DEF PolicyInv, TablesSound, AuthorityLoads, NoLatentConflict, Sound
  <1> QED BY <1>1, PolicyBegins, PolicySteps, PTL DEF Spec

-----------------------------------------------------------------------------
(* The walk over parents.                                                    *)

ParentEdges(roles) == {<<r, roles[r]>> : r \in DOMAIN roles}

\* Lineages stay within the roles and contain the parents of what they contain.
LEMMA LineageClosed ==
    ASSUME NEW roles, RolesFit(roles), NoLongWalk(DOMAIN roles, ParentEdges(roles))
    PROVE  \A q \in DOMAIN roles :
              /\ q \in Lineage(roles, q) /\ Lineage(roles, q) \subseteq DOMAIN roles
              /\ \A r \in Lineage(roles, q) : roles[r] \in Lineage(roles, q) \cup {NoRole}
  <1> DEFINE Closed(q) == /\ Lineage(roles, q) \subseteq DOMAIN roles
                          /\ \A r \in Lineage(roles, q) : roles[r] \in Lineage(roles, q) \cup {NoRole}
             T == {q \in DOMAIN roles : ~ Closed(q)}
  <1>1. ASSUME NEW q \in T PROVE roles[q] \in T
    <2>1. Lineage(roles, q) = {q} \cup Lineage(roles, roles[q])  BY LineageRec
    <2>2. roles[q] # NoRole  BY <2>1, LineageRec
    <2>3. roles[q] \in DOMAIN roles  BY <2>2 DEF RolesFit
    <2>4. roles[q] \in Lineage(roles, roles[q])  BY <2>3, LineageRec
    <2>5. ~ Closed(roles[q])  BY <2>1, <2>4
    <2> QED BY <2>3, <2>5
  <1>2. T = {}
    <2>1. T \in SUBSET DOMAIN roles /\ \A r \in T : \E y \in T : <<r, y>> \in ParentEdges(roles)
      BY <1>1 DEF ParentEdges
    <2> HIDE DEF T
    <2> QED BY <2>1, NobodyWalksOn
  <1>3. \A q \in DOMAIN roles : q \in Lineage(roles, q)  BY LineageRec
  <1> QED BY <1>2, <1>3

\* One level of the walk, and the walk over the first n levels
NextLevel(roles, w) ==
    LET parents == {roles[r] : r \in w.frontier} \ ({NoRole} \cup w.found)
    IN [frontier |-> parents, found |-> w.found \cup parents]

WalkFunction(roles, kept, n, f) ==
    f = [level \in 0 .. n |->
            IF level = 0 THEN [frontier |-> kept, found |-> kept] ELSE NextLevel(roles, f[level - 1])]

LEMMA WalkExists ==
    ASSUME NEW roles, NEW kept
    PROVE  \A n \in Nat : \E f : WalkFunction(roles, kept, n, f)
  <1> DEFINE B == {n \in Nat : ~ \E f : WalkFunction(roles, kept, n, f)}
  <1> SUFFICES ASSUME B # {} PROVE FALSE  OBVIOUS
  <1>1. PICK n \in B : \A k \in B : n <= k
    <2>1. B \subseteq Nat  OBVIOUS
    <2> HIDE DEF B
    <2> QED BY <2>1, LeastNumber
  <1>2. n \in Nat /\ ~ \E f : WalkFunction(roles, kept, n, f)  BY <1>1
  <1>3. CASE n = 0
    <2>1. WalkFunction(roles, kept, 0, [level \in 0 .. 0 |-> [frontier |-> kept, found |-> kept]])
      BY DEF WalkFunction
    <2> QED BY <1>2, <1>3, <2>1
  <1>4. CASE n # 0
    <2>1. n - 1 \in Nat /\ n - 1 \notin B  BY <1>1, <1>2, <1>4
    <2>2. PICK f : WalkFunction(roles, kept, n - 1, f)  BY <2>1
    <2> DEFINE g == [level \in 0 .. n |-> IF level = n THEN NextLevel(roles, f[n - 1]) ELSE f[level]]
    <2>3. ASSUME NEW level \in 0 .. n
          PROVE  g[level] = IF level = 0 THEN [frontier |-> kept, found |-> kept]
                            ELSE NextLevel(roles, g[level - 1])
      <3>1. CASE level = n
        <4>1. n - 1 \in 0 .. n /\ n - 1 # n /\ g[n - 1] = f[n - 1]  BY <1>2, <1>4
        <4> QED BY <1>4, <3>1, <4>1
      <3>2. CASE level # n /\ level = 0
        <4>1. level \in 0 .. (n - 1)  BY <1>2, <1>4, <3>2
        <4>2. f[level] = [frontier |-> kept, found |-> kept]
          BY <2>2, <3>2, <4>1 DEF WalkFunction
        <4> QED BY <3>2, <4>2
      <3>3. CASE level # n /\ level # 0
        <4>1. level \in 0 .. (n - 1) /\ level - 1 \in 0 .. n /\ level - 1 # n
          BY <1>2, <1>4, <3>3
        <4>2. f[level] = NextLevel(roles, f[level - 1])  BY <2>2, <3>3, <4>1 DEF WalkFunction
        <4> QED BY <3>3, <4>1, <4>2
      <3> QED BY <3>1, <3>2, <3>3
    <2>4. WalkFunction(roles, kept, n, g)  BY <2>3 DEF WalkFunction
    <2> QED BY <1>2, <2>4
  <1> QED BY <1>3, <1>4

LEMMA WalkIs ==
    ASSUME NEW roles, NEW kept
    PROVE  \E f : /\ WalkFunction(roles, kept, MaxDepth, f)
                  /\ WithParents(roles, kept) = IF f[MaxDepth].frontier = {} THEN f[MaxDepth].found ELSE {}
  <1> DEFINE walk == CHOOSE f : WalkFunction(roles, kept, MaxDepth, f)
  <1>1. WalkFunction(roles, kept, MaxDepth, walk)
    BY WalkExists, SeedAssumption DEF SoundStart
  <1>2. WithParents(roles, kept) = IF walk[MaxDepth].frontier = {} THEN walk[MaxDepth].found ELSE {}
    BY DEF WithParents, WalkFunction, NextLevel
  <1> HIDE DEF walk
  <1> QED BY <1>1, <1>2

\* What the walk has found after k levels
FoundAt(roles, kept, k, w) ==
    /\ w.frontier \subseteq w.found /\ kept \subseteq w.found
    /\ w.found \subseteq UNION {Lineage(roles, r) : r \in kept}
    /\ \A r \in w.found \ w.frontier : roles[r] \in w.found \cup {NoRole}
    /\ \A x \in w.frontier : \E p \in [1 .. k + 1 -> DOMAIN roles] :
          /\ p[k + 1] = x
          /\ \A i \in 1 .. k : <<p[i], p[i + 1]>> \in ParentEdges(roles)

LEMMA LevelFinds ==
    ASSUME NEW roles, RolesFit(roles), NoLongWalk(DOMAIN roles, ParentEdges(roles)),
           NEW kept \in SUBSET DOMAIN roles, NEW k \in Nat, NEW w, FoundAt(roles, kept, k, w)
    PROVE  FoundAt(roles, kept, k + 1, NextLevel(roles, w))
  <1> DEFINE Z == UNION {Lineage(roles, r) : r \in kept}
             parents == {roles[r] : r \in w.frontier} \ ({NoRole} \cup w.found)
  <1>1. NextLevel(roles, w).frontier = parents /\ NextLevel(roles, w).found = w.found \cup parents
    BY DEF NextLevel
  <1>2. \A r \in Z : r \in DOMAIN roles /\ roles[r] \in Z \cup {NoRole}
    <2>1. ASSUME NEW r \in Z PROVE r \in DOMAIN roles /\ roles[r] \in Z \cup {NoRole}
      <3>1. PICK q \in kept : r \in Lineage(roles, q)  OBVIOUS
      <3>2. r \in DOMAIN roles /\ roles[r] \in Lineage(roles, q) \cup {NoRole}
        BY <3>1, LineageClosed
      <3> QED BY <3>1, <3>2
    <2> QED BY <2>1
  <1> HIDE DEF Z
  <1>3. w.frontier \subseteq w.found /\ kept \subseteq w.found /\ w.found \subseteq Z
        /\ \A r \in w.found \ w.frontier : roles[r] \in w.found \cup {NoRole}
    BY DEF FoundAt, Z
  <1>4. w.found \cup parents \subseteq Z  BY <1>2, <1>3
  <1>5. \A r \in (w.found \cup parents) \ parents : roles[r] \in w.found \cup parents \cup {NoRole}
    BY <1>3
  <1>6. ASSUME NEW x \in parents
        PROVE  \E p \in [1 .. (k + 1) + 1 -> DOMAIN roles] :
                 /\ p[(k + 1) + 1] = x
                 /\ \A i \in 1 .. k + 1 : <<p[i], p[i + 1]>> \in ParentEdges(roles)
    <2>1. PICK r \in w.frontier : x = roles[r]  OBVIOUS
    <2>2. PICK p \in [1 .. k + 1 -> DOMAIN roles] :
             p[k + 1] = r /\ \A i \in 1 .. k : <<p[i], p[i + 1]>> \in ParentEdges(roles)
      BY DEF FoundAt
    <2>3. x \in DOMAIN roles /\ r \in DOMAIN roles /\ <<r, x>> \in ParentEdges(roles)
      BY <1>2, <1>3, <1>4, <2>1 DEF ParentEdges
    <2> HIDE DEF parents
    <2> DEFINE v == [i \in 1 .. (k + 1) + 1 |-> IF i = (k + 1) + 1 THEN x ELSE p[i]]
    <2>4. v \in [1 .. (k + 1) + 1 -> DOMAIN roles] /\ v[(k + 1) + 1] = x
      <3>1. \A i \in 1 .. (k + 1) + 1 : i # (k + 1) + 1 => i \in 1 .. k + 1  OBVIOUS
      <3>2. (k + 1) + 1 \in 1 .. (k + 1) + 1  OBVIOUS
      <3> QED BY <2>3, <3>1, <3>2
    <2>5. ASSUME NEW i \in 1 .. k + 1 PROVE <<v[i], v[i + 1]>> \in ParentEdges(roles)
      <3>1. i \in 1 .. (k + 1) + 1 /\ i + 1 \in 1 .. (k + 1) + 1 /\ i # (k + 1) + 1  OBVIOUS
      <3>2. CASE i = k + 1  BY <2>2, <2>3, <3>1, <3>2
      <3>3. CASE i # k + 1
        <4>1. i \in 1 .. k /\ i + 1 # (k + 1) + 1  BY <3>3
        <4>2. v[i] = p[i] /\ v[i + 1] = p[i + 1]  BY <3>1, <4>1
        <4> QED BY <2>2, <4>1, <4>2
      <3> QED BY <3>2, <3>3
    <2> HIDE DEF v
    <2> QED BY <2>4, <2>5
  <1> HIDE DEF parents
  <1> QED BY <1>1, <1>3, <1>4, <1>5, <1>6 DEF FoundAt, Z

LEMMA WalkFinds ==
    ASSUME NEW roles, RolesFit(roles), NoLongWalk(DOMAIN roles, ParentEdges(roles)),
           NEW kept \in SUBSET DOMAIN roles, NEW f, WalkFunction(roles, kept, MaxDepth, f)
    PROVE  FoundAt(roles, kept, MaxDepth, f[MaxDepth])
  <1> DEFINE B == {k \in 0 .. MaxDepth : ~ FoundAt(roles, kept, k, f[k])}
  <1>0. MaxDepth \in Nat  BY SeedAssumption DEF SoundStart
  <1>1. 0 \notin B
    <2>1. f[0].frontier = kept /\ f[0].found = kept  BY <1>0 DEF WalkFunction
    <2>2. kept \subseteq UNION {Lineage(roles, r) : r \in kept}  BY LineageClosed
    <2>3. ASSUME NEW x \in kept
          PROVE  \E p \in [1 .. 0 + 1 -> DOMAIN roles] : p[0 + 1] = x
                   /\ \A i \in 1 .. 0 : <<p[i], p[i + 1]>> \in ParentEdges(roles)
      <3> DEFINE p == [i \in 1 .. 0 + 1 |-> x]
      <3>1. p \in [1 .. 0 + 1 -> DOMAIN roles] /\ p[0 + 1] = x  OBVIOUS
      <3> HIDE DEF p
      <3> QED BY <3>1
    <2> QED BY <2>1, <2>2, <2>3 DEF FoundAt
  <1>2. B = {}
    <2> SUFFICES ASSUME B # {} PROVE FALSE  OBVIOUS
    <2>1. PICK k \in B : \A j \in B : k <= j
      <3>1. B \subseteq Nat  OBVIOUS
      <3> HIDE DEF B
      <3> QED BY <3>1, LeastNumber
    <2>2. k \in 1 .. MaxDepth /\ k - 1 \in 0 .. MaxDepth /\ k - 1 \notin B /\ k - 1 \in Nat
      BY <1>0, <1>1, <2>1
    <2>3. f[k] = NextLevel(roles, f[k - 1])  BY <2>2 DEF WalkFunction
    <2>4. FoundAt(roles, kept, (k - 1) + 1, f[k])  BY <2>2, <2>3, LevelFinds
    <2>5. (k - 1) + 1 = k  BY <2>2
    <2> QED BY <2>1, <2>4, <2>5
  <1> QED BY <1>0, <1>2

LEMMA WithParentsIs ==
    ASSUME NEW roles, RolesFit(roles), NoLongWalk(DOMAIN roles, ParentEdges(roles)),
           NEW kept \in SUBSET DOMAIN roles
    PROVE  WithParents(roles, kept) = UNION {Lineage(roles, r) : r \in kept}
  <1> DEFINE Z == UNION {Lineage(roles, r) : r \in kept}
  <1>0. MaxDepth \in Nat  BY SeedAssumption DEF SoundStart
  <1>1. PICK f : /\ WalkFunction(roles, kept, MaxDepth, f)
                 /\ WithParents(roles, kept) = IF f[MaxDepth].frontier = {} THEN f[MaxDepth].found ELSE {}
    BY WalkIs
  <1>2. FoundAt(roles, kept, MaxDepth, f[MaxDepth])  BY <1>1, WalkFinds
  <1>3. f[MaxDepth].frontier = {}
    <2> SUFFICES ASSUME NEW x \in f[MaxDepth].frontier PROVE FALSE  OBVIOUS
    <2>1. PICK p \in [1 .. MaxDepth + 1 -> DOMAIN roles] :
             \A i \in 1 .. MaxDepth : <<p[i], p[i + 1]>> \in ParentEdges(roles)
      BY <1>2 DEF FoundAt
    <2> QED BY <2>1 DEF NoLongWalk
  <1> DEFINE found == f[MaxDepth].found
             T == {q \in found : ~ (Lineage(roles, q) \subseteq found)}
  <1>4. kept \subseteq found /\ found \subseteq Z /\ \A r \in found : roles[r] \in found \cup {NoRole}
    BY <1>2, <1>3 DEF FoundAt
  <1>5. found \subseteq DOMAIN roles  BY <1>4, LineageClosed
  <1> HIDE DEF Z, found
  <1>6. ASSUME NEW q \in T PROVE roles[q] \in T
    <2>1. Lineage(roles, q) = {q} \cup Lineage(roles, roles[q])  BY <1>5, LineageRec
    <2>2. roles[q] # NoRole  BY <2>1, LineageRec
    <2> QED BY <1>4, <2>1, <2>2
  <1>7. T = {}
    <2>1. T \in SUBSET DOMAIN roles /\ \A r \in T : \E y \in T : <<r, y>> \in ParentEdges(roles)
      BY <1>5, <1>6 DEF ParentEdges
    <2> HIDE DEF T
    <2> QED BY <2>1, NobodyWalksOn
  <1>8. Z \subseteq found  BY <1>4, <1>7 DEF Z
  <1>9. WithParents(roles, kept) = found  BY <1>1, <1>3 DEF found
  <1> QED BY <1>4, <1>8, <1>9 DEF Z

\* The live walk sees the lineage of every role, and what the projection counts.
LEMMA LiveSees ==
    ASSUME Sound(db), members \subseteq Subjects
    PROVE  LiveSeesLineage /\ LiveWithinProjection
  <1>1. RolesFit(db.roles) /\ NoLongWalk(DOMAIN db.roles, ParentEdges(db.roles)) /\ Tables(db)
    BY DEF Sound, Tables, RolesFit, ValidShape, Parents, ParentEdges
  <1>2. LiveSeesLineage
    <2>1. ASSUME NEW role \in DOMAIN db.roles
          PROVE  WithParents(db.roles, {role}) = Lineage(db.roles, role)
      <3>1. WithParents(db.roles, {role}) = UNION {Lineage(db.roles, r) : r \in {role}}
        BY <1>1, WithParentsIs
      <3> QED BY <3>1
    <2> QED BY <2>1 DEF LiveSeesLineage
  <1>3. ASSUME NEW s \in Subjects, NEW site \in Sites, NEW t \in Later
        PROVE  active_roles(db, members, s, site, t) \subseteq RolesAt(db, s, t)
    <2> DEFINE H == {src[1] : src \in Sources(db, members, s, site, t)}
               Direct == {row.role : row \in {a \in db.assignments : a.subject = s /\ active_at(a, t)}}
               Given == {g.role : g \in {d \in db.delegations :
                                 /\ d.delegatee = s /\ ~d.revoked /\ active_at(d, t)
                                 /\ has_effective_role_source(db, d.delegator, d.role, d.scope, d, t)}}
    <2>1. ASSUME NEW src \in Sources(db, members, s, site, t) PROVE src[1] \in Direct \cup Given
      <3>1. CASE \E row \in {a \in db.assignments : a.subject = s /\ active_at(a, t) /\ InScope(a.scope, site)} :
                    src = <<row.role, {s}>>
        BY <3>1
      <3>2. CASE \E g \in {d \in db.delegations :
                      /\ d.delegatee = s /\ ~d.revoked /\ active_at(d, t) /\ InScope(d.scope, site)} :
                    src \in {<<g.role, h \cup {s}>> : h \in Holders(db, members, g, t, {s})}
        <4>1. PICK g \in db.delegations :
                /\ g.delegatee = s /\ ~g.revoked /\ active_at(g, t)
                /\ src \in {<<g.role, h \cup {s}>> : h \in Holders(db, members, g, t, {s})}
          BY <3>2
        <4>2. PICK h \in Holders(db, members, g, t, {s}) : src = <<g.role, h \cup {s}>>
          BY <4>1
        <4>3. ~ Stops(members, g, {s})
              /\ IF Rooted(db, t, g) THEN h = {g.delegator}
                 ELSE \E p \in Links(db, g.delegator, g.role, g.scope, g, t) :
                    \E i \in Holders(db, members, p, t, {s} \cup {g.delegator}) : h = {g.delegator} \cup i
          <5>1. Finds(db, members, t, g, {s}, h)  BY <1>1, HoldersRec
          <5> QED BY <5>1 DEF Finds
        <4>4. has_effective_role_source(db, g.delegator, g.role, g.scope, g, t)
          <5>1. CASE Rooted(db, t, g)  BY <5>1 DEF Rooted, has_effective_role_source
          <5>2. CASE ~ Rooted(db, t, g)
            <6>1. PICK p \in Links(db, g.delegator, g.role, g.scope, g, t) :
                     Holders(db, members, p, t, {s} \cup {g.delegator}) # {}
              BY <4>3, <5>2
            <6>2. p \in db.delegations /\ {s} \cup {g.delegator} \in SUBSET Subjects
                  /\ {g.delegator} \in SUBSET ({s} \cup {g.delegator})
              BY <1>1, LinksAre
            <6>3. HasSource(db, p, t, {g.delegator})  BY <1>1, <6>1, <6>2, HoldersHaveSource
            <6> QED BY <6>3 DEF has_effective_role_source
          <5> QED BY <5>1, <5>2
        <4>5. g.role \in Given  BY <4>1, <4>4
        <4> QED BY <4>2, <4>5
      <3> QED BY <3>1, <3>2 DEF Sources
    <2>2. H \subseteq Direct \cup Given  BY <2>1
    <2>3. Direct \cup Given \subseteq DOMAIN db.roles  BY <1>1 DEF Tables
    <2>4. active_roles(db, members, s, site, t) = UNION {Lineage(db.roles, r) : r \in H}
      <3>1. H \in SUBSET DOMAIN db.roles  BY <2>2, <2>3
      <3>2. active_roles(db, members, s, site, t) = WithParents(db.roles, H)
        BY DEF active_roles
      <3> HIDE DEF H
      <3> QED BY <1>1, <3>1, <3>2, WithParentsIs
    <2>5. RolesAt(db, s, t) = UNION {Lineage(db.roles, role) : role \in Direct \cup Given}
      BY DEF RolesAt
    <2> HIDE DEF H, Direct, Given
    <2> QED BY <2>2, <2>4, <2>5
  <1> QED BY <1>2, <1>3 DEF LiveWithinProjection

-----------------------------------------------------------------------------
(* The search for a source is a chain of delegations.                        *)

\* A window counts by its ends only.
LEMMA SameWindow ==
    ASSUME NEW v, NEW w, v.from = w.from, v.to = w.to
    PROVE  \A tables, s, r, sc, t :
              /\ HoldsDirectly(tables, s, r, sc, v, t) <=> HoldsDirectly(tables, s, r, sc, w, t)
              /\ Links(tables, s, r, sc, v, t) = Links(tables, s, r, sc, w, t)
  BY DEF HoldsDirectly, Links, covers

\* c leads from the delegation g to one whose delegator holds the role.
Climbs(tables, t, g, n, c) ==
    /\ n \in Nat \ {0} /\ c \in [1 .. n -> tables.delegations] /\ c[1] = g
    /\ \A i \in 1 .. n : c[i].role = g.role
    /\ \A i \in 1 .. n - 1 : c[i + 1] \in Links(tables, c[i].delegator, g.role, c[i].scope, c[i], t)
    /\ Rooted(tables, t, c[n])

\* No delegator occurs twice, nor among those visited.
Fresh(n, c, V) ==
    /\ \A i \in 1 .. n : c[i].delegator \notin V
    /\ \A i, j \in 1 .. n : c[i].delegator = c[j].delegator => i = j

LEMMA ClimbOneMore ==
    ASSUME NEW tables, Tables(tables), NEW t, NEW g \in tables.delegations, NEW V,
           g.delegator \notin V,
           NEW p \in Links(tables, g.delegator, g.role, g.scope, g, t), NEW n, NEW c,
           Climbs(tables, t, p, n, c), Fresh(n, c, V \cup {g.delegator})
    PROVE  \E m, d : Climbs(tables, t, g, m, d) /\ Fresh(m, d, V)
  <1> DEFINE d == [i \in 1 .. n + 1 |-> IF i = 1 THEN g ELSE c[i - 1]]
  <1>0. n \in Nat \ {0} /\ c \in [1 .. n -> tables.delegations] /\ c[1] = p /\ p.role = g.role
    BY DEF Climbs, Links
  <1>1. d[1] = g /\ \A i \in 1 .. n : d[i + 1] = c[i]  BY <1>0
  <1>2. \A i \in 1 .. n + 1 : i = 1 \/ \E j \in 1 .. n : i = j + 1
    <2>1. \A i \in 1 .. n + 1 : i # 1 => i - 1 \in 1 .. n /\ i = (i - 1) + 1  BY <1>0
    <2> QED BY <2>1
  <1>3. d \in [1 .. n + 1 -> tables.delegations]
    <2>1. \A i \in 1 .. n + 1 : d[i] \in tables.delegations  BY <1>0, <1>1, <1>2
    <2> QED BY <2>1
  <1> HIDE DEF d
  <1>4. \A i \in 1 .. n + 1 : d[i].role = g.role
    <2>1. \A i \in 1 .. n : c[i].role = g.role  BY <1>0 DEF Climbs
    <2> QED BY <1>1, <1>2, <2>1
  <1>5. ASSUME NEW i \in 1 .. (n + 1) - 1
        PROVE  d[i + 1] \in Links(tables, d[i].delegator, g.role, d[i].scope, d[i], t)
    <2>1. i \in 1 .. n /\ d[i + 1] = c[i]  BY <1>0, <1>1
    <2>2. CASE i = 1  BY <1>0, <1>1, <2>1, <2>2
    <2>3. CASE i # 1
      <3>1. i - 1 \in 1 .. n - 1 /\ i - 1 \in 1 .. n /\ (i - 1) + 1 = i  BY <1>0, <2>1, <2>3
      <3>2. c[(i - 1) + 1] \in Links(tables, c[i - 1].delegator, g.role, c[i - 1].scope, c[i - 1], t)
        BY <1>0, <3>1 DEF Climbs
      <3>3. d[i] = c[i - 1]  BY <1>1, <3>1
      <3> QED BY <2>1, <3>1, <3>2, <3>3
    <2> QED BY <2>2, <2>3
  <1>6. Rooted(tables, t, d[n + 1])  BY <1>0, <1>1 DEF Climbs
  <1>7. Climbs(tables, t, g, n + 1, d)  BY <1>0, <1>1, <1>3, <1>4, <1>5, <1>6 DEF Climbs
  <1>8. /\ \A j \in 1 .. n : c[j].delegator \notin V /\ c[j].delegator # g.delegator
        /\ \A i, j \in 1 .. n : c[i].delegator = c[j].delegator => i = j
    BY DEF Fresh
  <1>9. \A i \in 1 .. n + 1 : d[i].delegator \notin V  BY <1>1, <1>2, <1>8
  <1>10. \A i, j \in 1 .. n + 1 : d[i].delegator = d[j].delegator => i = j
    BY <1>1, <1>2, <1>8
  <1> QED BY <1>7, <1>9, <1>10 DEF Fresh

LEMMA SourceClimbs ==
    ASSUME NEW tables, Tables(tables), NEW t
    PROVE  \A g \in tables.delegations, V \in SUBSET Subjects :
              HasSource(tables, g, t, V) => \E n, c : Climbs(tables, t, g, n, c) /\ Fresh(n, c, V)
  <1> DEFINE Way(g, V) == \E n, c : Climbs(tables, t, g, n, c) /\ Fresh(n, c, V)
             T == {x \in tables.delegations \X SUBSET Subjects :
                     HasSource(tables, x[1], t, x[2]) /\ ~ Way(x[1], x[2])}
  <1>1. ASSUME NEW x \in T
        PROVE  /\ Cardinality(x[2]) \in Nat /\ Cardinality(x[2]) <= MaxDepth
               /\ \E y \in T : Cardinality(y[2]) = Cardinality(x[2]) + 1
    <2>1. PICK g \in tables.delegations, V \in SUBSET Subjects :
             x = <<g, V>> /\ HasSource(tables, g, t, V) /\ ~ Way(g, V)
      <3>1. x[1] \in tables.delegations /\ x[2] \in SUBSET Subjects /\ x = <<x[1], x[2]>>
        BY <1>1
      <3> HIDE DEF Way
      <3> QED BY <1>1, <3>1
    <2>2. /\ g.delegator \notin V /\ Cardinality(V) <= MaxDepth
          /\ \/ Rooted(tables, t, g)
             \/ \E p \in Links(tables, g.delegator, g.role, g.scope, g, t) :
                   HasSource(tables, p, t, V \cup {g.delegator})
      BY <2>1, SourceRec
    <2>3. ~ Rooted(tables, t, g)
      <3> SUFFICES ASSUME Rooted(tables, t, g) PROVE FALSE  OBVIOUS
      <3> DEFINE c == [i \in 1 .. 1 |-> g]
      <3>1. Climbs(tables, t, g, 1, c)  BY DEF Climbs
      <3>2. Fresh(1, c, V)  BY <2>2 DEF Fresh
      <3> HIDE DEF c
      <3> QED BY <2>1, <3>1, <3>2
    <2>4. PICK p \in Links(tables, g.delegator, g.role, g.scope, g, t) :
             HasSource(tables, p, t, V \cup {g.delegator})
      BY <2>2, <2>3
    <2>5. p \in tables.delegations /\ g.delegator \in Subjects  BY LinksAre
    <2>6. Cardinality(V \cup {g.delegator}) = Cardinality(V) + 1 /\ V \cup {g.delegator} \in SUBSET Subjects
          /\ Cardinality(V) \in Nat
      BY <2>2, <2>5, VisitsOneMore
    <2>7. ~ Way(p, V \cup {g.delegator})  BY <2>1, <2>2, ClimbOneMore
    <2> HIDE DEF Way
    <2>8. PICK y : y = <<p, V \cup {g.delegator}>>  OBVIOUS
    <2>9. y[1] = p /\ y[2] = V \cup {g.delegator} /\ y \in tables.delegations \X SUBSET Subjects
      BY <2>5, <2>6, <2>8
    <2>10. y \in T  BY <2>4, <2>7, <2>9
    <2> HIDE DEF T
    <2> QED BY <2>1, <2>2, <2>6, <2>9, <2>10
  <1>2. T = {}
    <2>1. T \in SUBSET (tables.delegations \X SUBSET Subjects)  OBVIOUS
    <2> HIDE DEF T
    <2> QED BY <1>1, <2>1, SearchEnds
  <1>3. ASSUME NEW g \in tables.delegations, NEW V \in SUBSET Subjects, HasSource(tables, g, t, V)
        PROVE  Way(g, V)
    <2>1. PICK y : y = <<g, V>>  OBVIOUS
    <2>2. y[1] = g /\ y[2] = V /\ y \in tables.delegations \X SUBSET Subjects  BY <2>1
    <2>3. y \notin T  BY <1>2
    <2> HIDE DEF Way
    <2> QED BY <1>3, <2>2, <2>3
  <1> QED BY <1>3

\* A climb through fresh delegators is no longer than the table.
LEMMA ClimbsFit ==
    ASSUME NEW tables, IsFiniteSet(tables.delegations), NEW t, NEW g, NEW n, NEW c, NEW V,
           Climbs(tables, t, g, n, c), Fresh(n, c, V)
    PROVE  n \in 0 .. Cardinality(tables.delegations)
  <1>1. n \in Nat /\ c \in [1 .. n -> tables.delegations] /\ n # 0  BY DEF Climbs
  <1>2. c \in Injection(1 .. n, tables.delegations)
    <2>1. \A i, j \in 1 .. n : c[i] = c[j] => i = j  BY DEF Fresh
    <2> QED BY <1>1, <2>1 DEF Injection, IsInjective
  <1>3. Cardinality(1 .. n) = n  BY <1>1, FS_Interval
  <1>4. Cardinality(1 .. n) <= Cardinality(tables.delegations) /\ Cardinality(tables.delegations) \in Nat
    BY <1>2, FS_Injection, FS_CardinalityType
  <1> QED BY <1>1, <1>3, <1>4

\* The principals of a climb, from the delegatee up, are all different and
\* no more than a walk may have.
LinksDown(p, n, edges) == \A i \in 1 .. n : <<p[i + 1], p[i]>> \in edges
Distinct(p, n) == \A i, j \in 1 .. n : p[i] = p[j] => i = j

LEMMA ClimbIsShort ==
    ASSUME NEW nodes, NEW edges, NoLongWalk(nodes, edges), NEW n \in Nat, NEW p \in [1 .. n + 1 -> nodes],
           LinksDown(p, n, edges)
    PROVE  n + 1 <= MaxDepth /\ Distinct(p, n + 1)
  <1>0. MaxDepth \in Nat  BY SeedAssumption DEF SoundStart
  <1>1. n + 1 <= MaxDepth
    <2> SUFFICES ASSUME ~ (n + 1 <= MaxDepth) PROVE FALSE  OBVIOUS
    <2> DEFINE walk == [i \in 1 .. MaxDepth + 1 |-> p[(MaxDepth + 2) - i]]
    <2>1. \A i \in 1 .. MaxDepth + 1 : (MaxDepth + 2) - i \in 1 .. n + 1  BY <1>0
    <2>2. walk \in [1 .. MaxDepth + 1 -> nodes]  BY <2>1
    <2>3. ASSUME NEW i \in 1 .. MaxDepth PROVE <<walk[i], walk[i + 1]>> \in edges
      <3>1. (MaxDepth + 1) - i \in 1 .. n /\ ((MaxDepth + 1) - i) + 1 = (MaxDepth + 2) - i
            /\ (MaxDepth + 2) - (i + 1) = (MaxDepth + 1) - i /\ i \in 1 .. MaxDepth + 1 /\ i + 1 \in 1 .. MaxDepth + 1
        BY <1>0
      <3>2. walk[i] = p[((MaxDepth + 1) - i) + 1] /\ walk[i + 1] = p[(MaxDepth + 1) - i]
        BY <3>1
      <3> HIDE DEF walk
      <3> QED BY <3>1, <3>2 DEF LinksDown
    <2> HIDE DEF walk
    <2> QED BY <2>2, <2>3 DEF NoLongWalk
  <1>2. ASSUME NEW i \in 1 .. n + 1, NEW j \in 1 .. n + 1, i < j PROVE p[i] # p[j]
    <2> SUFFICES ASSUME p[i] = p[j] PROVE FALSE  OBVIOUS
    <2> DEFINE T == {p[k] : k \in i + 1 .. j}
    <2>1. \A k \in i + 1 .. j : k \in 1 .. n + 1 /\ k - 1 \in 1 .. n /\ (k - 1) + 1 = k
      OBVIOUS
    <2>2. ASSUME NEW x \in T PROVE \E y \in T : <<x, y>> \in edges
      <3>1. PICK k \in i + 1 .. j : x = p[k]  OBVIOUS
      <3>2. <<p[k], p[k - 1]>> \in edges  BY <2>1 DEF LinksDown
      <3>3. p[k - 1] \in T
        <4>1. CASE k - 1 \in i + 1 .. j  BY <4>1
        <4>2. CASE k = i + 1
          <5>1. k - 1 = i /\ j \in i + 1 .. j  BY <1>2, <4>2
          <5>2. p[k - 1] = p[j]  BY <5>1
          <5> QED BY <5>1, <5>2
        <4> QED BY <4>1, <4>2
      <3> HIDE DEF T
      <3> QED BY <3>1, <3>2, <3>3
    <2>3. T \in SUBSET nodes  BY <2>1
    <2>4. p[j] \in T
      <3>1. j \in i + 1 .. j  BY <1>2
      <3> QED BY <3>1
    <2> HIDE DEF T
    <2> QED BY <2>2, <2>3, <2>4, NobodyWalksOn
  <1>3. \A i, j \in 1 .. n + 1 : i # j => i < j \/ j < i  OBVIOUS
  <1>4. Distinct(p, n + 1)  BY <1>2, <1>3 DEF Distinct
  <1> QED BY <1>1, <1>4

LEMMA VisitedCount ==
    ASSUME NEW n \in Nat, NEW p \in [1 .. n + 1 -> Subjects],
           Distinct(p, n + 1), NEW k \in 1 .. n + 1
    PROVE  {p[i] : i \in 1 .. k} \in SUBSET Subjects /\ Cardinality({p[i] : i \in 1 .. k}) = k
  <1> DEFINE V == {p[i] : i \in 1 .. k}
             f == [i \in 1 .. k |-> p[i]]
  <1>1. \A i \in 1 .. k : i \in 1 .. n + 1  OBVIOUS
  <1>2. V \in SUBSET Subjects  BY <1>1
  <1>3. f \in Bijection(1 .. k, V)
    <2>1. f \in [1 .. k -> V] /\ \A i, j \in 1 .. k : f[i] = f[j] => i = j
      BY <1>1 DEF Distinct
    <2>2. \A x \in V : \E i \in 1 .. k : f[i] = x  OBVIOUS
    <2> HIDE DEF f, V
    <2> QED BY <2>1, <2>2 DEF Bijection, Injection, Surjection, IsInjective
  <1>4. IsFiniteSet(1 .. k) /\ Cardinality(1 .. k) = k  BY FS_Interval
  <1> HIDE DEF f
  <1>5. Cardinality(V) = k
    <2> HIDE DEF V
    <2> QED BY <1>3, <1>4, FS_Bijection DEF ExistsBijection
  <1> QED BY <1>2, <1>5

LEMMA ClimbHasSource ==
    ASSUME NEW tables, Tables(tables), NEW t, NEW g \in tables.delegations, NEW n, NEW c,
           Climbs(tables, t, g, n, c), \A i \in 1 .. n : ~ c[i].revoked,
           NoLongWalk(Subjects, Delegates(tables, g.role))
    PROVE  HasSource(tables, g, t, {g.delegatee})
  <1> DEFINE p == [i \in 1 .. n + 1 |-> IF i = 1 THEN g.delegatee ELSE c[i - 1].delegator]
             V(k) == {p[i] : i \in 1 .. k}
             B == {k \in 1 .. n : ~ HasSource(tables, c[k], t, V(k))}
  <1>0. /\ n \in Nat /\ n # 0 /\ c \in [1 .. n -> tables.delegations] /\ c[1] = g
        /\ \A i \in 1 .. n : c[i] \in tables.delegations /\ c[i].role = g.role
              /\ c[i].delegator \in Subjects /\ c[i].delegatee \in Subjects
        /\ \A i \in 1 .. n - 1 : c[i + 1] \in Links(tables, c[i].delegator, g.role, c[i].scope, c[i], t)
        /\ Rooted(tables, t, c[n])
    BY LinksAre DEF Climbs
  <1>1. p[1] = g.delegatee /\ \A i \in 1 .. n : p[i + 1] = c[i].delegator  BY <1>0
  <1>2. p \in [1 .. n + 1 -> Subjects]
    <2>1. \A i \in 1 .. n + 1 : i # 1 => i - 1 \in 1 .. n  BY <1>0
    <2>2. \A i \in 1 .. n + 1 : p[i] \in Subjects  BY <1>0, <2>1
    <2> QED BY <2>2
  <1> HIDE DEF p
  <1>3. \A i \in 1 .. n : <<p[i + 1], p[i]>> \in Delegates(tables, g.role)
    <2>1. ASSUME NEW i \in 1 .. n PROVE p[i] = c[i].delegatee
      <3>1. CASE i = 1  BY <1>0, <1>1, <3>1
      <3>2. CASE i # 1
        <4>1. i - 1 \in 1 .. n /\ i - 1 \in 1 .. n - 1 /\ (i - 1) + 1 = i  BY <1>0, <3>2
        <4>2. c[i].delegatee = c[i - 1].delegator  BY <1>0, <4>1 DEF Links
        <4> QED BY <1>1, <4>1, <4>2
      <3> QED BY <3>1, <3>2
    <2> QED BY <1>0, <1>1, <2>1 DEF Delegates
  <1>4. n + 1 <= MaxDepth /\ Distinct(p, n + 1)
    <2>1. n \in Nat  BY <1>0
    <2>2. LinksDown(p, n, Delegates(tables, g.role))  BY <1>3 DEF LinksDown
    <2> QED BY <1>2, <2>1, <2>2, ClimbIsShort
  <1>5. MaxDepth \in Nat  BY SeedAssumption DEF SoundStart
  <1>6. ASSUME NEW k \in 1 .. n
        PROVE  /\ V(k) \in SUBSET Subjects /\ Cardinality(V(k)) <= MaxDepth
               /\ c[k].delegator \notin V(k) /\ V(k + 1) = V(k) \cup {c[k].delegator}
    <2>1. k \in 1 .. n + 1 /\ k <= MaxDepth  BY <1>0, <1>4, <1>5
    <2>2. V(k) \in SUBSET Subjects /\ Cardinality(V(k)) = k
      BY <1>0, <1>2, <1>4, <2>1, VisitedCount
    <2>3. \A i \in 1 .. k : i \in 1 .. n + 1 /\ i # k + 1  BY <1>0
    <2>4. p[k + 1] = c[k].delegator /\ k + 1 \in 1 .. n + 1  BY <1>0, <1>1
    <2>5. c[k].delegator \notin V(k)  BY <1>4, <2>3, <2>4 DEF Distinct
    <2>6. V(k + 1) = V(k) \cup {p[k + 1]}
      <3>1. \A i : i \in 1 .. k + 1 <=> i \in 1 .. k \/ i = k + 1  BY <2>1
      <3> QED BY <3>1
    <2> QED BY <2>1, <2>2, <2>4, <2>5, <2>6
  <1> HIDE DEF V
  <1>7. B = {}
    <2> SUFFICES ASSUME B # {} PROVE FALSE  OBVIOUS
    <2>1. PICK k \in B : \A j \in B : j <= k
      <3>1. B \subseteq Nat /\ \A j \in B : j <= n  BY <1>0
      <3> HIDE DEF B
      <3> QED BY <1>0, <3>1, GreatestOf
    <2>2. k \in 1 .. n /\ ~ HasSource(tables, c[k], t, V(k))  BY <2>1
    <2>3. /\ ~ Rooted(tables, t, c[k])
          /\ \A q \in Links(tables, c[k].delegator, c[k].role, c[k].scope, c[k], t) :
                ~ HasSource(tables, q, t, V(k) \cup {c[k].delegator})
      BY <1>0, <1>6, <2>2, SourceRec
    <2>4. k # n  BY <1>0, <2>3
    <2>5. k \in 1 .. n - 1 /\ k + 1 \in 1 .. n /\ ~ (k + 1 <= k)  BY <1>0, <2>2, <2>4
    <2>6. c[k + 1] \in Links(tables, c[k].delegator, c[k].role, c[k].scope, c[k], t)
      BY <1>0, <2>2, <2>5
    <2>7. ~ HasSource(tables, c[k + 1], t, V(k + 1))  BY <1>6, <2>2, <2>3, <2>6
    <2> QED BY <2>1, <2>5, <2>7
  <1>8. V(1) = {g.delegatee}  BY <1>1 DEF V
  <1>9. 1 \in 1 .. n  BY <1>0
  <1> QED BY <1>0, <1>7, <1>8, <1>9

\* Where the chain of RootedChain stands after i links
Above(c, subject, scope, window, i) ==
    IF i = 0 THEN [who |-> subject, scope |-> scope, from |-> window.from, to |-> window.to]
    ELSE [who |-> c[i].delegator, scope |-> c[i].scope, from |-> c[i].from, to |-> c[i].to]

ChainsTo(tables, subject, role, scope, window, t, n, c) ==
    /\ \A i \in 1 .. n :
          c[i] \in Links(tables, Above(c, subject, scope, window, i - 1).who, role,
                         Above(c, subject, scope, window, i - 1).scope,
                         Above(c, subject, scope, window, i - 1), t)
    /\ HoldsDirectly(tables, Above(c, subject, scope, window, n).who, role,
                     Above(c, subject, scope, window, n).scope, Above(c, subject, scope, window, n), t)

LEMMA RootedChainIs ==
    ASSUME NEW tables, NEW s, NEW role, NEW scope, NEW w, NEW t
    PROVE  RootedChain(tables, s, role, scope, w, t) <=>
             \E n \in 0 .. Cardinality(tables.delegations) :
                \E c \in [1 .. n -> tables.delegations] : ChainsTo(tables, s, role, scope, w, t, n, c)
  BY DEF RootedChain, ChainsTo, Above

LEMMA NoLinks ==
    ASSUME NEW tables, NEW s, NEW role, NEW scope, NEW w, NEW t, NEW c
    PROVE  ChainsTo(tables, s, role, scope, w, t, 0, c) <=> HoldsDirectly(tables, s, role, scope, w, t)
  <1> DEFINE u == [who |-> s, scope |-> scope, from |-> w.from, to |-> w.to]
  <1>1. Above(c, s, scope, w, 0) = u  BY DEF Above
  <1>2. u.who = s /\ u.scope = scope /\ u.from = w.from /\ u.to = w.to  OBVIOUS
  <1> HIDE DEF u
  <1>3. ChainsTo(tables, s, role, scope, w, t, 0, c) <=> HoldsDirectly(tables, u.who, role, u.scope, u, t)
    BY <1>1 DEF ChainsTo
  <1> QED BY <1>2, <1>3, SameWindow

LEMMA LinkedUp ==
    ASSUME NEW tables, NEW s, NEW role, NEW scope, NEW w, NEW t, NEW n \in Nat \ {0},
           NEW c \in [1 .. n -> tables.delegations]
    PROVE  ChainsTo(tables, s, role, scope, w, t, n, c) <=>
             /\ c[1] \in Links(tables, s, role, scope, w, t)
             /\ \A i \in 1 .. n - 1 : c[i + 1] \in Links(tables, c[i].delegator, role, c[i].scope, c[i], t)
             /\ HoldsDirectly(tables, c[n].delegator, role, c[n].scope, c[n], t)
  <1> DEFINE Up(i) == Above(c, s, scope, w, i)
  <1>1. Up(0).who = s /\ Up(0).scope = scope /\ Up(0).from = w.from /\ Up(0).to = w.to
    BY DEF Above
  <1>2. \A i \in 1 .. n : Up(i).who = c[i].delegator /\ Up(i).scope = c[i].scope
                          /\ Up(i).from = c[i].from /\ Up(i).to = c[i].to
    BY DEF Above
  <1>3. ChainsTo(tables, s, role, scope, w, t, n, c) <=>
          /\ \A i \in 1 .. n : c[i] \in Links(tables, Up(i - 1).who, role, Up(i - 1).scope, Up(i - 1), t)
          /\ HoldsDirectly(tables, Up(n).who, role, Up(n).scope, Up(n), t)
    BY DEF ChainsTo
  <1> HIDE DEF Up
  <1>4. Links(tables, Up(0).who, role, Up(0).scope, Up(0), t) = Links(tables, s, role, scope, w, t)
    BY <1>1, SameWindow
  <1>5. \A i \in 1 .. n : /\ Links(tables, Up(i).who, role, Up(i).scope, Up(i), t)
                              = Links(tables, c[i].delegator, role, c[i].scope, c[i], t)
                          /\ HoldsDirectly(tables, Up(i).who, role, Up(i).scope, Up(i), t)
                               <=> HoldsDirectly(tables, c[i].delegator, role, c[i].scope, c[i], t)
    BY <1>2, SameWindow
  <1> DEFINE L(i) == c[i + 1] \in Links(tables, Up(i).who, role, Up(i).scope, Up(i), t)
  <1>6. (\A i \in 1 .. n : c[i] \in Links(tables, Up(i - 1).who, role, Up(i - 1).scope, Up(i - 1), t))
           <=> L(0) /\ \A i \in 1 .. n - 1 : L(i)
    <2>1. \A i \in 1 .. n : (i - 1) + 1 = i  OBVIOUS
    <2>2. (\A i \in 1 .. n : c[i] \in Links(tables, Up(i - 1).who, role, Up(i - 1).scope, Up(i - 1), t))
           <=> \A i \in 1 .. n : L(i - 1)
      BY <2>1
    <2> HIDE DEF L
    <2>3. \A i \in 1 .. n : i - 1 = 0 \/ i - 1 \in 1 .. n - 1  OBVIOUS
    <2>4. 1 \in 1 .. n /\ 1 - 1 = 0 /\ \A i \in 1 .. n - 1 : i + 1 \in 1 .. n /\ (i + 1) - 1 = i
      OBVIOUS
    <2>5. (\A i \in 1 .. n : L(i - 1)) <=> L(0) /\ \A i \in 1 .. n - 1 : L(i)  BY <2>3, <2>4
    <2> QED BY <2>2, <2>5
  <1>7. n \in 1 .. n /\ \A i \in 1 .. n - 1 : i \in 1 .. n  OBVIOUS
  <1>8. L(0) <=> c[1] \in Links(tables, s, role, scope, w, t)  BY <1>4
  <1>9. \A i \in 1 .. n - 1 : L(i) <=> c[i + 1] \in Links(tables, c[i].delegator, role, c[i].scope, c[i], t)
    BY <1>5, <1>7
  <1> HIDE DEF L
  <1> QED BY <1>3, <1>5, <1>6, <1>7, <1>8, <1>9

LEMMA SourceChains ==
    ASSUME NEW tables, Sound(tables), NEW s \in Subjects, NEW role \in DOMAIN tables.roles,
           NEW scope, NEW w, NEW t
    PROVE  has_effective_role_source(tables, s, role, scope, w, t) <=> RootedChain(tables, s, role, scope, w, t)
  <1>0. Tables(tables) /\ IsFiniteSet(tables.delegations) /\ NoLongWalk(Subjects, Delegates(tables, role))
    BY DEF Sound, ValidShape
  <1>1. \A g \in Links(tables, s, role, scope, w, t) :
           g \in tables.delegations /\ g.role = role /\ g.delegatee = s /\ ~ g.revoked
    BY DEF Links
  <1>2. ASSUME HoldsDirectly(tables, s, role, scope, w, t) PROVE RootedChain(tables, s, role, scope, w, t)
    <2> DEFINE c == [i \in 1 .. 0 |-> {}]
    <2>1. c \in [1 .. 0 -> tables.delegations]  OBVIOUS
    <2>2. 0 \in 0 .. Cardinality(tables.delegations)  BY <1>0, FS_CardinalityType
    <2> HIDE DEF c
    <2>3. ChainsTo(tables, s, role, scope, w, t, 0, c)  BY <1>2, NoLinks
    <2> QED BY <2>1, <2>2, <2>3, RootedChainIs
  <1>3. ASSUME NEW g \in Links(tables, s, role, scope, w, t), HasSource(tables, g, t, {s})
        PROVE  RootedChain(tables, s, role, scope, w, t)
    <2>1. {s} \in SUBSET Subjects  OBVIOUS
    <2>2. PICK n, c : Climbs(tables, t, g, n, c) /\ Fresh(n, c, {s})
      BY <1>0, <1>1, <1>3, <2>1, SourceClimbs
    <2>3. n \in 0 .. Cardinality(tables.delegations)  BY <1>0, <2>2, ClimbsFit
    <2>4. /\ n \in Nat \ {0} /\ c \in [1 .. n -> tables.delegations] /\ c[1] = g /\ g.role = role
          /\ \A i \in 1 .. n - 1 : c[i + 1] \in Links(tables, c[i].delegator, role, c[i].scope, c[i], t)
      BY <1>1, <2>2 DEF Climbs
    <2>5. HoldsDirectly(tables, c[n].delegator, role, c[n].scope, c[n], t)
      <3>1. c[n].role = role  BY <2>2, <2>4 DEF Climbs
      <3> QED BY <2>2, <3>1 DEF Climbs, Rooted
    <2>6. ChainsTo(tables, s, role, scope, w, t, n, c)  BY <2>4, <2>5, LinkedUp
    <2> QED BY <2>3, <2>4, <2>6, RootedChainIs
  <1>4. ASSUME RootedChain(tables, s, role, scope, w, t)
        PROVE  has_effective_role_source(tables, s, role, scope, w, t)
    <2>1. PICK n \in 0 .. Cardinality(tables.delegations) :
             \E c \in [1 .. n -> tables.delegations] : ChainsTo(tables, s, role, scope, w, t, n, c)
      BY <1>4, RootedChainIs
    <2>2. PICK c \in [1 .. n -> tables.delegations] : ChainsTo(tables, s, role, scope, w, t, n, c)
      BY <2>1
    <2>3. CASE n = 0  BY <2>2, <2>3, NoLinks DEF has_effective_role_source
    <2>4. CASE n # 0
      <3>0. n \in Nat \ {0}  BY <2>4
      <3>1. /\ c[1] \in Links(tables, s, role, scope, w, t)
            /\ \A i \in 1 .. n - 1 : c[i + 1] \in Links(tables, c[i].delegator, role, c[i].scope, c[i], t)
            /\ HoldsDirectly(tables, c[n].delegator, role, c[n].scope, c[n], t)
        BY <2>2, <3>0, LinkedUp
      <3>2. \A i \in 1 .. n : c[i].role = role /\ ~ c[i].revoked
        <4>1. ASSUME NEW i \in 1 .. n PROVE c[i].role = role /\ ~ c[i].revoked
          <5>1. CASE i = 1  BY <1>1, <3>1, <5>1
          <5>2. CASE i # 1
            <6>1. i - 1 \in 1 .. n - 1 /\ (i - 1) + 1 = i  BY <3>0, <5>2
            <6> QED BY <3>1, <6>1 DEF Links
          <5> QED BY <5>1, <5>2
        <4> QED BY <4>1
      <3>3. c[1] \in tables.delegations /\ c[1].role = role /\ c[1].delegatee = s
        BY <1>1, <3>1
      <3>4. Rooted(tables, t, c[n])  BY <3>0, <3>1, <3>2 DEF Rooted
      <3>5. Climbs(tables, t, c[1], n, c)  BY <3>0, <3>1, <3>2, <3>3, <3>4 DEF Climbs
      <3>6. HasSource(tables, c[1], t, {s})  BY <1>0, <3>2, <3>3, <3>5, ClimbHasSource
      <3> QED BY <3>1, <3>6 DEF has_effective_role_source
    <2> QED BY <2>3, <2>4
  <1> QED BY <1>2, <1>3, <1>4 DEF has_effective_role_source

LEMMA SourcesAreChains ==
    ASSUME Sound(db)
    PROVE  SourceIsAChain
  BY SourceChains DEF SourceIsAChain

-----------------------------------------------------------------------------
(* What was granted stays granted to the end of the transaction.             *)

\* A source is a row of the principal's own or a delegation to it.
FromRow(tables, s, site, t, src) ==
    \E row \in tables.assignments :
       /\ row.subject = s /\ active_at(row, t) /\ InScope(row.scope, site)
       /\ src = <<row.role, {s}>>

FromGrant(tables, people, s, site, t, src) ==
    \E g \in tables.delegations :
       /\ g.delegatee = s /\ ~ g.revoked /\ active_at(g, t) /\ InScope(g.scope, site)
       /\ \E h \in Holders(tables, people, g, t, {s}) : src = <<g.role, h \cup {s}>>

LEMMA SourcesAre ==
    ASSUME NEW tables, NEW people, NEW s, NEW site, NEW t, NEW src
    PROVE  src \in Sources(tables, people, s, site, t) <=>
             FromRow(tables, s, site, t, src) \/ FromGrant(tables, people, s, site, t, src)
  <1> DEFINE Rows == {a \in tables.assignments : a.subject = s /\ active_at(a, t) /\ InScope(a.scope, site)}
             Given == {d \in tables.delegations :
                         /\ d.delegatee = s /\ ~d.revoked /\ active_at(d, t) /\ InScope(d.scope, site)}
             Found(g) == {<<g.role, h \cup {s}>> : h \in Holders(tables, people, g, t, {s})}
  <1>1. Sources(tables, people, s, site, t) = {<<row.role, {s}>> : row \in Rows} \cup UNION {Found(g) : g \in Given}
    BY DEF Sources
  <1>2. src \in {<<row.role, {s}>> : row \in Rows} <=> \E row \in Rows : src = <<row.role, {s}>>
    OBVIOUS
  <1>3. \A g : src \in Found(g) <=> \E h \in Holders(tables, people, g, t, {s}) : src = <<g.role, h \cup {s}>>
    OBVIOUS
  <1>4. src \in UNION {Found(g) : g \in Given} <=> \E g \in Given : src \in Found(g)
    <2> HIDE DEF Found, Given
    <2> QED OBVIOUS
  <1>5. (\E g \in Given : src \in Found(g)) <=> FromGrant(tables, people, s, site, t, src)
    <2> HIDE DEF Found
    <2> QED BY <1>3 DEF FromGrant
  <1>6. (\E row \in Rows : src = <<row.role, {s}>>) <=> FromRow(tables, s, site, t, src)
    BY DEF FromRow
  <1> HIDE DEF Rows, Given, Found
  <1> QED BY <1>1, <1>2, <1>4, <1>5, <1>6

LEMMA SourcesStay ==
    ASSUME NEW A, Tables(A), NEW B, Tables(B), NEW people, NEW still, NEW s \in Subjects, NEW site, NEW t,
           B.delegations = A.delegations, B.assignments = A.assignments,
           NEW src \in Sources(A, people, s, site, t)
    PROVE  /\ s \in src[2] /\ src[1] \in DOMAIN A.roles
           /\ s \in people => src[2] \subseteq people
           /\ src[2] \subseteq still => src \in Sources(B, still, s, site, t)
  <1>0. {s} \in SUBSET Subjects  OBVIOUS
  <1>1. CASE FromRow(A, s, site, t, src)
    <2>1. PICK row \in A.assignments :
            /\ row.subject = s /\ active_at(row, t) /\ InScope(row.scope, site)
            /\ src = <<row.role, {s}>>
      BY <1>1 DEF FromRow
    <2>2. src[1] = row.role /\ src[2] = {s} /\ row.role \in DOMAIN A.roles  BY <2>1 DEF Tables
    <2>3. FromRow(B, s, site, t, src)  BY <2>1 DEF FromRow
    <2>4. src \in Sources(B, still, s, site, t)  BY <2>3, SourcesAre
    <2> QED BY <2>2, <2>4
  <1>2. CASE FromGrant(A, people, s, site, t, src)
    <2>1. PICK g \in A.delegations :
               /\ g.delegatee = s /\ ~ g.revoked /\ active_at(g, t) /\ InScope(g.scope, site)
               /\ \E h \in Holders(A, people, g, t, {s}) : src = <<g.role, h \cup {s}>>
      BY <1>2 DEF FromGrant
    <2>2. PICK h \in Holders(A, people, g, t, {s}) : src = <<g.role, h \cup {s}>>  BY <2>1
    <2>3. h \subseteq people /\ (h \subseteq still => h \in Holders(B, still, g, t, {s}))
      BY <1>0, HoldersStay
    <2>4. src[1] = g.role /\ src[2] = h \cup {s} /\ g.role \in DOMAIN A.roles
      BY <2>2 DEF Tables
    <2>5. ASSUME src[2] \subseteq still PROVE src \in Sources(B, still, s, site, t)
      <3>1. h \in Holders(B, still, g, t, {s})  BY <2>3, <2>4, <2>5
      <3>2. FromGrant(B, still, s, site, t, src)  BY <2>1, <2>2, <3>1 DEF FromGrant
      <3> QED BY <3>2, SourcesAre
    <2> QED BY <2>3, <2>4, <2>5
  <1> QED BY <1>1, <1>2, SourcesAre

\* The decision d has the rows of a source that permits its action.
Granted(tables, people, d) ==
    \E src \in Sources(tables, people, d.subject, d.site, d.at) :
       /\ src[2] \subseteq d.held /\ src[2] \subseteq people
       /\ \E role \in WithParents(tables.roles, {src[1]}) : Permits(tables, role, d.action)

LEMMA GrantedStays ==
    ASSUME NEW A, Tables(A), NEW B, Tables(B), NEW people, NEW still, NEW d \in Decisions, Granted(A, people, d),
           B.roles = A.roles, B.perms = A.perms, B.assignments = A.assignments, B.delegations = A.delegations,
           \A x \in d.held : x \in people => x \in still
    PROVE  Granted(B, still, d)
  <1>1. PICK src \in Sources(A, people, d.subject, d.site, d.at) :
           /\ src[2] \subseteq d.held /\ src[2] \subseteq people
           /\ \E role \in WithParents(A.roles, {src[1]}) : Permits(A, role, d.action)
    BY DEF Granted
  <1>2. src[2] \subseteq still  BY <1>1
  <1>3. d.subject \in Subjects  BY DEF Decisions
  <1>4. src \in Sources(B, still, d.subject, d.site, d.at)  BY <1>2, <1>3, SourcesStay
  <1>5. \E role \in WithParents(B.roles, {src[1]}) : Permits(B, role, d.action)
    BY <1>1 DEF Permits
  <1> QED BY <1>1, <1>2, <1>4, <1>5 DEF Granted

LEMMA GrantedAuthorizes ==
    ASSUME NEW A, Sound(A), NEW people, NEW d \in Decisions, Granted(A, people, d)
    PROVE  authorize(A, people, d.subject, d.action, d.site, d.at)
  <1> DEFINE Z == Sources(A, people, d.subject, d.site, d.at)
             H == {src[1] : src \in Z}
  <1>0. Tables(A) /\ RolesFit(A.roles) /\ NoLongWalk(DOMAIN A.roles, ParentEdges(A.roles))
    BY DEF Sound, Tables, RolesFit, ValidShape, Parents, ParentEdges
  <1>1. PICK src \in Z : /\ src[2] \subseteq people
                         /\ \E role \in WithParents(A.roles, {src[1]}) : Permits(A, role, d.action)
    BY DEF Granted
  <1>2. d.subject \in Subjects  BY DEF Decisions
  <1>3. \A x \in Z : d.subject \in x[2] /\ x[1] \in DOMAIN A.roles  BY <1>0, <1>2, SourcesStay
  <1> HIDE DEF Z
  <1>4. H \in SUBSET DOMAIN A.roles /\ src[1] \in H /\ {src[1]} \in SUBSET DOMAIN A.roles
    BY <1>3
  <1>5. active_roles(A, people, d.subject, d.site, d.at) = WithParents(A.roles, H)
    BY DEF active_roles, Z
  <1> HIDE DEF H
  <1>6. WithParents(A.roles, H) = UNION {Lineage(A.roles, r) : r \in H}
        /\ WithParents(A.roles, {src[1]}) = UNION {Lineage(A.roles, r) : r \in {src[1]}}
    BY <1>0, <1>4, WithParentsIs
  <1>7. WithParents(A.roles, {src[1]}) \subseteq active_roles(A, people, d.subject, d.site, d.at)
    BY <1>4, <1>5, <1>6
  <1> QED BY <1>1, <1>3, <1>7 DEF authorize

\* A write that was applied has what its decision rests on.
AppliedHolds == \A c \in Txs : tx[c].phase = "applied" => Granted(db, members, tx[c])

DecisionInv == PolicyInv /\ AppliedHolds

LEMMA AppliedTypes ==
    ASSUME PolicyInv
    PROVE  \A c \in Txs : tx[c].phase \in {"permitted", "applied"} => tx[c] \in Decisions /\ lock = c
  BY PolicyTypes DEF OpenRows, Idle

LEMMA AppliedSteps ==
    ASSUME PolicyInv, AppliedHolds, NEW c \in Txs, NEW v, tx' = [tx EXCEPT ![c] = v],
           UNCHANGED <<db, members>>, v.phase = "applied" => Granted(db, members, v)
    PROVE  AppliedHolds'
  <1>1. DOMAIN tx = Txs  BY PolicyTypes
  <1>2. \A d \in Txs : tx'[d] = IF d = c THEN v ELSE tx[d]  BY <1>1
  <1>3. \A d \in Txs : tx'[d].phase = "applied" => Granted(db, members, tx'[d])
    BY <1>2 DEF AppliedHolds
  <1> QED BY <1>3 DEF AppliedHolds

LEMMA ApplyGrants ==
    ASSUME PolicyInv, AppliedHolds, NEW c \in Txs, ApplyPermit(c)
    PROVE  AppliedHolds'
  <1>1. tx[c].phase = "permitted" /\ UNCHANGED <<db, members, now>>  BY DEF ApplyPermit
  <1>2. tx[c] \in Decisions /\ lock = c /\ DOMAIN tx = Txs  BY <1>1, AppliedTypes, PolicyTypes
  <1>3. CASE authorize(db, members, tx[c].subject, tx[c].action, tx[c].site, now)
    <2>1. PICK kept \in Locked(tx[c].subject, tx[c].action, tx[c].site) :
             tx' = [tx EXCEPT ![c].phase = "applied", ![c].at = now, ![c].held = @ \cup kept]
      BY <1>3 DEF ApplyPermit
    <2>2. PICK v : v = [tx[c] EXCEPT !.phase = "applied", !.at = now, !.held = @ \cup kept]
      OBVIOUS
    <2>3. tx' = [tx EXCEPT ![c] = v]  BY <1>2, <2>1, <2>2
    <2>4. /\ v.subject = tx[c].subject /\ v.action = tx[c].action /\ v.site = tx[c].site
          /\ v.at = now /\ kept \subseteq v.held
      BY <1>2, <2>2 DEF Decisions
    <2>5. PICK src \in Sources(db, members, tx[c].subject, tx[c].site, now) :
             /\ kept = src[2]
             /\ \E role \in WithParents(db.roles, {src[1]}) : Permits(db, role, tx[c].action)
      BY DEF Locked
    <2>6. tx[c].subject \in Subjects /\ tx[c].subject \in members /\ Tables(db)
      BY <1>2, <1>3, PolicyTypes DEF Decisions, authorize
    <2>7. src[2] \subseteq members  BY <2>6, SourcesStay
    <2>8. Granted(db, members, v)  BY <2>4, <2>5, <2>7 DEF Granted
    <2> QED BY <1>1, <2>3, <2>8, AppliedSteps
  <1>4. CASE ~ authorize(db, members, tx[c].subject, tx[c].action, tx[c].site, now)
    <2>1. tx' = [tx EXCEPT ![c] = Idle] /\ Idle.phase # "applied"
      BY <1>4 DEF ApplyPermit, Idle
    <2> QED BY <1>1, <2>1, AppliedSteps
  <1> QED BY <1>3, <1>4

LEMMA OtherStepsGrant ==
    ASSUME PolicyInv, AppliedHolds, NEW c \in Txs,
           Begin(c) \/ Decide(c) \/ Authorize(c) \/ Abort(c)
    PROVE  AppliedHolds'
  <1>0. Idle.phase # "applied" /\ DOMAIN tx = Txs  BY PolicyTypes DEF Idle
  <1>1. CASE Begin(c)
    <2>1. PICK cmd \in Commands : tx' = [tx EXCEPT ![c] = [phase |-> "locked", cmd |-> cmd]]
      BY <1>1 DEF Begin
    <2>2. PICK v : v = [phase |-> "locked", cmd |-> cmd]  OBVIOUS
    <2>3. tx' = [tx EXCEPT ![c] = v] /\ v.phase # "applied"  BY <2>1, <2>2
    <2>4. UNCHANGED <<db, members>>  BY <1>1 DEF Begin
    <2> QED BY <2>3, <2>4, AppliedSteps
  <1>2. CASE Decide(c)
    <2>0. tx[c] \in [phase : {"locked", "written"}, cmd : Commands] /\ UNCHANGED <<db, members>>
      BY <1>2, PolicyTypes DEF Decide, OpenRows, Decisions, Idle
    <2>1. PICK v : v = [tx[c] EXCEPT !.phase = "written"]  OBVIOUS
    <2>2. v.phase # "applied"  BY <2>0, <2>1
    <2>3. tx' = [tx EXCEPT ![c] = v] \/ tx' = [tx EXCEPT ![c] = Idle]
      BY <1>0, <1>2, <2>1 DEF Decide
    <2> QED BY <1>0, <2>0, <2>2, <2>3, AppliedSteps
  <1>3. CASE Authorize(c)
    <2>1. PICK s \in Subjects, a \in Perms \ {Wild}, site \in Sites :
             \E kept \in Locked(s, a, site) :
                tx' = [tx EXCEPT ![c] = [phase |-> "permitted", subject |-> s, action |-> a,
                                         site |-> site, at |-> now, held |-> kept]]
      BY <1>3 DEF Authorize
    <2>2. PICK kept : tx' = [tx EXCEPT ![c] = [phase |-> "permitted", subject |-> s, action |-> a,
                                               site |-> site, at |-> now, held |-> kept]]
      BY <2>1
    <2>3. PICK v : v = [phase |-> "permitted", subject |-> s, action |-> a, site |-> site, at |-> now, held |-> kept]
      OBVIOUS
    <2>4. tx' = [tx EXCEPT ![c] = v] /\ v.phase # "applied"  BY <2>2, <2>3
    <2>5. UNCHANGED <<db, members>>  BY <1>3 DEF Authorize
    <2> QED BY <2>4, <2>5, AppliedSteps
  <1>4. CASE Abort(c)
    <2>1. tx' = [tx EXCEPT ![c] = Idle] /\ UNCHANGED <<db, members>>  BY <1>4 DEF Abort
    <2> QED BY <1>0, <2>1, AppliedSteps
  <1> QED BY <1>1, <1>2, <1>3, <1>4

LEMMA CommitGrants ==
    ASSUME PolicyInv, AppliedHolds, NEW c \in Txs, Commit(c)
    PROVE  AppliedHolds'
  <1>0. Idle.phase # "applied"  BY DEF Idle
  <1>1. tx' = [tx EXCEPT ![c] = Idle] /\ UNCHANGED <<members, now>>  BY DEF Commit
  <1>2. CASE tx[c].phase = "applied" /\ UNCHANGED db  BY <1>0, <1>1, <1>2, AppliedSteps
  <1>3. CASE tx[c].phase = "written"
    <2>1. \A d \in Txs : tx'[d] = Idle  BY <1>1, <1>3, PolicyTypes DEF Idle
    <2> QED BY <1>0, <2>1 DEF AppliedHolds
  <1> QED BY <1>2, <1>3 DEF Commit

LEMMA EnvironmentGrants ==
    ASSUME PolicyInv, AppliedHolds,
           CreateDetectiveRule \/ (\E s \in Subjects : ChangeMembership(s)) \/ Tick \/ UNCHANGED vars
    PROVE  AppliedHolds'
  <1> SUFFICES ASSUME NEW c \in Txs, tx'[c].phase = "applied" PROVE Granted(db', members', tx'[c])
    BY DEF AppliedHolds
  <1>1. UNCHANGED tx  BY DEF CreateDetectiveRule, ChangeMembership, Tick, vars
  <1>2. tx[c] \in Decisions /\ Granted(db, members, tx[c]) /\ Tables(db) /\ tx'[c] = tx[c]
    BY <1>1, AppliedTypes, PolicyTypes DEF AppliedHolds
  <1>3. CASE CreateDetectiveRule
    <2>1. PolicyInv'  BY <1>3, DetectiveStep
    <2>2. Tables(db')  BY <2>1 DEF PolicyInv, TypeOK
    <2>3. /\ db'.roles = db.roles /\ db'.perms = db.perms /\ db'.assignments = db.assignments
          /\ db'.delegations = db.delegations /\ members' = members
      BY <1>2, <1>3 DEF CreateDetectiveRule, Tables
    <2> QED BY <1>2, <2>2, <2>3, GrantedStays
  <1>4. CASE \E s \in Subjects : ChangeMembership(s)
    <2>1. PICK s \in Subjects : ChangeMembership(s)  BY <1>4
    <2>2. db' = db /\ s \notin tx[c].held /\ members' \in {members \ {s}, members \cup {s}}
      BY <1>1, <2>1 DEF ChangeMembership
    <2>3. \A x \in tx[c].held : x \in members => x \in members'  BY <2>2
    <2> QED BY <1>2, <2>2, <2>3, GrantedStays
  <1>5. CASE Tick \/ UNCHANGED vars  BY <1>2, <1>5 DEF Tick, vars
  <1> QED BY <1>3, <1>4, <1>5

LEMMA DecisionsStep == DecisionInv /\ [Next]_vars => DecisionInv'
  <1> SUFFICES ASSUME PolicyInv, AppliedHolds, [Next]_vars PROVE PolicyInv' /\ AppliedHolds'
    BY DEF DecisionInv
  <1>1. PolicyInv'  BY PolicySteps
  <1>2. CASE \E c \in Txs : \/ Begin(c) \/ Decide(c) \/ Authorize(c) \/ ApplyPermit(c) \/ Commit(c) \/ Abort(c)
    BY <1>1, <1>2, ApplyGrants, OtherStepsGrant, CommitGrants
  <1>3. CASE CreateDetectiveRule \/ (\E s \in Subjects : ChangeMembership(s)) \/ Tick \/ UNCHANGED vars
    BY <1>1, <1>3, EnvironmentGrants
  <1> QED BY <1>1, <1>2, <1>3 DEF Next

\* A live decision is what the tables say - the search for a delegated role
\* is a chain, the walk over parents the lineage, and what is granted is
\* counted by the projection - and it still is when the write it allowed
\* commits (authorize, v2_runtime).
THEOREM DecisionsAlwaysStand == Spec => []DecisionsStand
  <1>1. Init => DecisionInv  BY PolicyBegins DEF DecisionInv, AppliedHolds, Init, Idle
  <1>2. DecisionInv => DecisionsStand
    <2> SUFFICES ASSUME PolicyInv, AppliedHolds PROVE DecisionsStand  BY DEF DecisionInv
    <2>1. SourceIsAChain /\ LiveSeesLineage /\ LiveWithinProjection
      BY PolicyTypes, SourcesAreChains, LiveSees
    <2>2. AppliedStaysAuthorized
      BY PolicyTypes, AppliedTypes, GrantedAuthorizes DEF AppliedStaysAuthorized, AppliedHolds
    <2> QED BY <2>1, <2>2 DEF DecisionsStand, LiveAgrees
  <1> QED BY <1>1, <1>2, DecisionsStep, PTL DEF Spec

-----------------------------------------------------------------------------
(* The application.                                                        *)

LiveStates == {"starting", "up", "stopping"}

AllUp == \A c \in Application!Components : comp[c] = "up"
AllDown == \A c \in Application!Components : comp[c] = "down"
NoneLive == \A c \in Application!Components : comp[c] \notin LiveStates

\* Start-up at the hook at pos
StartShape ==
    /\ pos \in 1..(N + S)
    /\ up = IF pos > N THEN N ELSE pos - 1
    /\ \A c \in Application!Components :
         /\ c < pos => comp[c] = "up"
         /\ c = pos => comp[c] = "starting"
         /\ c > pos => comp[c] = "down"

\* Clean-up at the hook at pos
CleanShape ==
    /\ pos <= N
    /\ \A c \in Application!Components :
         /\ c < pos => comp[c] = "up"
         /\ c = pos => comp[c] = "stopping"
         /\ c > pos => comp[c] \notin LiveStates

\* What each state of the application and each await says
IdleInv ==
    /\ call = "none" =>
                        /\ pc = "idle" /\ pos = 0
                        /\ state \in {"NEW", "RUNNING", "STOPPED", "FAILED"}
    /\ state = "NEW" => call = "none" /\ up = 0 /\ complete = 0 /\ AllDown
    /\ state = "RUNNING" => call = "none" /\ up = N /\ complete = 0 /\ AllUp
    /\ state \in {"STOPPED", "FAILED"} => call = "none" /\ complete = 1 /\ NoneLive
    /\ complete = 1 => state \in {"STOPPED", "FAILED"}

CallInv ==
    /\ state = "STARTING" <=> call \in {"startup", "rollback"}
    /\ state = "STOPPING" <=> call = "shutdown"
    /\ call \in {"startup", "rollback"} => pc \in {"hook", "cancel"}
    /\ call = "shutdown" => pc \in {"drain", "hook", "cancel"}
    /\ call = "startup" => StartShape
    /\ Application!CleaningUp /\ pc # "drain" => CleanShape
    /\ pc = "drain" => call = "shutdown" /\ ((up = N /\ AllUp) \/ (up = 0 /\ AllDown))

\* What a clean-up without an error has left
ErrorInv ==
    /\ forced = 1 => failed = 1
    /\ Application!CleaningUp /\ pc = "cancel" => failed = 1
    /\ state = "STOPPED" => failed = 0 /\ \A c \in Application!Components : comp[c] \in {"down", "stopped"}
    /\ call = "shutdown" /\ pc # "drain" /\ failed = 0 =>
         \A c \in Application!Components : c > pos => comp[c] \in {"down", "stopped"}

LifeInv == Application!LifeTypeOK /\ IdleInv /\ CallInv /\ ErrorInv

\* Where the application is while a request is under way
Serving == state = "RUNNING" \/ (pc = "drain" /\ up = N)

RequestInv ==
    /\ Application!RequestTypeOK
    /\ \A r \in Requests : task[r] \in {"running", "cancelled"} => req[r] \in {"serve", "drain"}
    /\ Application!RequestsCounted
    /\ \A r \in Requests : req[r] # "idle" => forced = 1 \/ Serving

\* The inductive invariant
ApplicationInv == LifeInv /\ RequestInv

USE ApplicationAssumption DEF Application!Components, Application!LastHook

\* The library's cardinality is the instance's
LEMMA ApplicationCardinality == \A T : Application!Cardinality(T) = Cardinality(T)
  BY DEF Application!Cardinality, Cardinality

LEMMA InitApplication == Application!Init => ApplicationInv
<1> SUFFICES ASSUME Application!Init PROVE ApplicationInv  OBVIOUS
<1>1. LifeInv
  BY DEF Application!Init, LifeInv, Application!LifeTypeOK, IdleInv, CallInv, ErrorInv, AllUp, AllDown, NoneLive, StartShape,
         CleanShape, Application!CleaningUp, LiveStates
<1>2. {r \in Requests : req[r] # "idle"} = {}  BY DEF Application!Init
<1>3. Application!RequestsCounted
  <2>1. Cardinality({r \in Requests : req[r] # "idle"}) = 0  BY <1>2, FS_EmptySet
  <2> QED BY <2>1, ApplicationCardinality DEF Application!Init, Application!RequestsCounted
<1>4. RequestInv  BY <1>3 DEF Application!Init, RequestInv, Application!RequestTypeOK
<1> QED BY <1>1, <1>4 DEF ApplicationInv

LEMMA ApplicationImpliesSound == ApplicationInv => ApplicationSound
<1> SUFFICES ASSUME ApplicationInv PROVE ApplicationSound  OBVIOUS
<1> USE DEF ApplicationInv, LifeInv, RequestInv
<1>1. Application!TypeOK  BY DEF Application!TypeOK
<1>2. Application!ServedByAll
  BY DEF Application!ServedByAll, Serving, IdleInv, CallInv, AllUp, AllDown, Application!LifeTypeOK
<1>3. Application!EarlierComponentsUp
  <2> SUFFICES ASSUME NEW c \in Application!Components, comp[c] \in LiveStates, NEW d \in 1..(c - 1)
               PROVE  comp[d] = "up"
    BY DEF Application!EarlierComponentsUp, LiveStates
  <2>1. d \in Application!Components /\ d < c  OBVIOUS
  <2>2. CASE call = "none"  BY <2>1, <2>2 DEF IdleInv, AllUp, AllDown, NoneLive, LiveStates
  <2>3. CASE call = "startup"  BY <2>1, <2>3 DEF CallInv, StartShape, LiveStates
  <2>4. CASE Application!CleaningUp /\ pc # "drain"
    BY <2>1, <2>4 DEF CallInv, CleanShape, LiveStates, Application!LifeTypeOK
  <2>5. CASE pc = "drain"  BY <2>1, <2>5 DEF CallInv, AllUp, AllDown, LiveStates
  <2> QED BY <2>2, <2>3, <2>4, <2>5 DEF Application!LifeTypeOK, Application!CleaningUp
<1>4. Application!NothingLeftUp
  BY DEF Application!NothingLeftUp, IdleInv, NoneLive, LiveStates
<1>5. Application!StoppedIsClean
  BY DEF Application!StoppedIsClean, ErrorInv, CallInv, IdleInv, Serving
<1> QED BY <1>1, <1>2, <1>3, <1>4, <1>5 DEF ApplicationSound, Application!ComponentsSound

-----------------------------------------------------------------------------
(* The lifecycle's steps.                                                  *)

LEMMA StartupLife == ASSUME LifeInv, Application!Startup PROVE LifeInv'
<1> USE DEF LifeInv, Application!Startup
<1>1. Application!LifeTypeOK'  BY DEF Application!LifeTypeOK, Application!SetComp
<1>2. IdleInv' /\ ErrorInv'
  BY DEF IdleInv, ErrorInv, Application!CleaningUp, Application!LifeTypeOK
<1>3. comp' = [comp EXCEPT ![1] = "starting"]  BY DEF Application!SetComp
<1>4. StartShape'  BY <1>3 DEF StartShape, IdleInv, AllDown, Application!LifeTypeOK
<1> QED BY <1>1, <1>2, <1>4 DEF CallInv, Application!CleaningUp

LEMMA HookReturnsLife == ASSUME LifeInv, Application!HookReturns PROVE LifeInv'
<1> USE DEF LifeInv
<1>0. StartShape /\ state = "STARTING" /\ failed \in {0, 1} /\ forced \in {0, 1} /\ complete = 0
  BY DEF Application!HookReturns, CallInv, IdleInv, Application!LifeTypeOK
<1>1. \A c \in Application!Components :
        comp'[c] = IF c = pos THEN "up" ELSE IF c = pos + 1 THEN "starting" ELSE comp[c]
  BY DEF Application!HookReturns
<1>2. up' = IF pos > N THEN N ELSE pos
  BY <1>0 DEF Application!HookReturns, Application!Completed, StartShape
<1>3. comp' \in [Application!Components -> {"down", "starting", "up", "failed", "lingering", "leaked",
                                "stopping", "stopped", "broken", "hanging"}]
  BY DEF Application!HookReturns, Application!LifeTypeOK
<1>4. CASE pos = N + S
  <2>1. state' = "RUNNING" /\ call' = "none" /\ pc' = "idle" /\ pos' = 0
    BY <1>4 DEF Application!HookReturns
  <2>2. AllUp' /\ up' = N  BY <1>0, <1>1, <1>2, <1>4 DEF AllUp, StartShape
  <2>3. Application!LifeTypeOK'
    BY <1>3, <2>1, <2>2 DEF Application!LifeTypeOK, Application!HookReturns
  <2> QED
    BY <1>0, <2>1, <2>2, <2>3 DEF Application!HookReturns, IdleInv, CallInv, ErrorInv, Application!CleaningUp
<1>5. CASE pos # N + S
  <2>1. pos' = pos + 1 /\ UNCHANGED <<state, call, pc>>  BY <1>5 DEF Application!HookReturns
  <2>2. StartShape'  BY <1>0, <1>1, <1>2, <1>5, <2>1 DEF StartShape
  <2>3. Application!LifeTypeOK'
    BY <1>0, <1>2, <1>3, <2>1, <2>2 DEF Application!LifeTypeOK, Application!HookReturns, StartShape
  <2> QED
    BY <1>0, <2>1, <2>2, <2>3 DEF Application!HookReturns, IdleInv, CallInv, ErrorInv, Application!CleaningUp
<1> QED BY <1>4, <1>5

\* Start-up fails at pos: what has started is cleaned up.
LEMMA RollBackLife ==
    ASSUME LifeInv, call = "startup", pc \in {"hook", "cancel"}, NEW s \in {"failed", "lingering", "up"},
           IF s = "up" THEN Application!Completed(pos) ELSE UNCHANGED up, Application!RollBack(s)
    PROVE  LifeInv'
<1> USE DEF LifeInv
<1>0. StartShape /\ state = "STARTING" /\ failed \in {0, 1} /\ forced \in {0, 1} /\ complete = 0
  BY DEF CallInv, IdleInv, Application!LifeTypeOK
<1>1. \A c \in Application!Components : comp'[c] = IF c = up' THEN "stopping" ELSE IF c = pos THEN s ELSE comp[c]
  <2>1. comp \in [Application!Components -> {"down", "starting", "up", "failed", "lingering", "leaked",
                                "stopping", "stopped", "broken", "hanging"}]
    BY DEF Application!LifeTypeOK
  <2> QED BY <2>1 DEF Application!RollBack, Application!Cleanup
<1>2. up' = IF s = "up" /\ pos <= N THEN pos ELSE up
  BY <1>0 DEF Application!Completed, StartShape
<1>3. comp' \in [Application!Components -> {"down", "starting", "up", "failed", "lingering", "leaked",
                                "stopping", "stopped", "broken", "hanging"}]
  <2>1. DOMAIN comp' = Application!Components /\ comp' = [c \in Application!Components |-> comp'[c]]
    BY DEF Application!RollBack, Application!Cleanup
  <2> QED BY <1>1, <2>1 DEF Application!LifeTypeOK
<1>4. call' = "rollback" /\ pc' = "hook" /\ pos' = up'
  BY DEF Application!RollBack, Application!Cleanup
<1>5. pos' \in 0..N /\ up' \in 0..N  BY <1>0, <1>2, <1>4 DEF StartShape
<1>6. CleanShape'  BY <1>0, <1>1, <1>2, <1>4, <1>5 DEF CleanShape, StartShape, LiveStates
<1>7. Application!LifeTypeOK'
  BY <1>3, <1>4, <1>5 DEF Application!LifeTypeOK, Application!RollBack
<1>8. IdleInv' /\ ErrorInv'
  BY <1>0, <1>4 DEF Application!RollBack, IdleInv, ErrorInv, Application!CleaningUp
<1> QED
  BY <1>0, <1>4, <1>6, <1>7, <1>8 DEF Application!RollBack, CallInv, Application!CleaningUp

LEMMA InterruptLife == ASSUME LifeInv, Application!Interrupt PROVE LifeInv'
BY DEF LifeInv, Application!Interrupt, Application!LifeTypeOK, IdleInv, CallInv, ErrorInv, StartShape, Application!CleaningUp, AllUp,
       AllDown, NoneLive

LEMMA ShutdownLife == ASSUME LifeInv, Application!Shutdown PROVE LifeInv'
<1> USE DEF LifeInv, Application!Shutdown
<1>1. Application!LifeTypeOK'  BY DEF Application!LifeTypeOK
<1>2. pos = 0 /\ ((up = N /\ AllUp) \/ (up = 0 /\ AllDown))
  BY DEF IdleInv, Application!LifeTypeOK
<1>3. ((up = N /\ AllUp) \/ (up = 0 /\ AllDown))'  BY <1>2 DEF AllUp, AllDown
<1> QED
  BY <1>1, <1>3 DEF IdleInv, CallInv, ErrorInv, Application!CleaningUp, Application!LifeTypeOK

\* The drain is over: clean-up begins with the last component, if any has started.
LEMMA BeginCleanupLife ==
    ASSUME LifeInv, call = "shutdown", pc = "drain", Application!Cleanup(up, comp),
           UNCHANGED <<state, up, complete, call>>,
           \/ UNCHANGED <<failed, forced>>
           \/ failed' = 1 /\ forced' = 1
    PROVE  LifeInv'
<1> USE DEF LifeInv
<1>0.
      /\ (up = N /\ AllUp) \/ (up = 0 /\ AllDown)
      /\ up \in 0..N /\ state = "STOPPING" /\ failed \in {0, 1} /\ forced \in {0, 1}
  BY DEF CallInv, Application!LifeTypeOK
<1>1. pos' = up /\ pc' = "hook"  BY DEF Application!Cleanup
<1>2. comp' \in [Application!Components -> {"down", "starting", "up", "failed", "lingering", "leaked",
                                "stopping", "stopped", "broken", "hanging"}]
  BY DEF Application!Cleanup, Application!LifeTypeOK
<1>3. \A c \in Application!Components : comp'[c] = IF c = up THEN "stopping" ELSE comp[c]
  BY DEF Application!Cleanup
<1>4. CleanShape'  BY <1>0, <1>1, <1>3 DEF CleanShape, AllUp, AllDown, LiveStates
<1>5. \A c \in Application!Components : c > pos' => comp'[c] = "down"
  BY <1>0, <1>1, <1>3 DEF AllUp, AllDown
<1>6. Application!LifeTypeOK'  BY <1>0, <1>1, <1>2 DEF Application!LifeTypeOK
<1>7. IdleInv' /\ ErrorInv'  BY <1>0, <1>1, <1>5 DEF IdleInv, ErrorInv, Application!CleaningUp
<1> QED BY <1>0, <1>1, <1>4, <1>6, <1>7 DEF CallInv, Application!CleaningUp

\* A clean-up hook is over.  Without an error so far it has stopped its component.
LEMMA CleanupNextLife ==
    ASSUME LifeInv, Application!CleaningUp, pc \in {"hook", "cancel"}, NEW s \in {"stopped", "broken", "hanging"},
           Application!CleanupNext(s), UNCHANGED forced, failed' \in {failed, 1}, failed' = 0 => s = "stopped"
    PROVE  LifeInv'
<1> USE DEF LifeInv
<1>0.
      /\ CleanShape /\ state \in {"STARTING", "STOPPING"} /\ complete = 0
      /\ failed \in {0, 1} /\ forced \in {0, 1} /\ pos \in Application!LastHook..N /\ up \in 0..N
      /\ call = "rollback" => state = "STARTING"
      /\ call = "shutdown" => state = "STOPPING"
  BY DEF CallInv, IdleInv, Application!LifeTypeOK, Application!CleaningUp, CleanShape
<1>1. \A c \in Application!Components :
        comp'[c] = IF c = pos THEN s ELSE IF c = pos - 1 THEN "stopping" ELSE comp[c]
  BY DEF Application!CleanupNext
<1>2. comp' \in [Application!Components -> {"down", "starting", "up", "failed", "lingering", "leaked",
                                "stopping", "stopped", "broken", "hanging"}]
  <2>1. DOMAIN comp' = Application!Components /\ comp' = [c \in Application!Components |-> comp'[c]]
    BY DEF Application!CleanupNext
  <2> QED BY <1>1, <2>1 DEF Application!LifeTypeOK
<1>3. call = "shutdown" /\ failed' = 0 =>
        \A c \in Application!Components : c >= pos => comp'[c] \in {"down", "stopped"}
  BY <1>0, <1>1 DEF ErrorInv
<1>4. CASE pos = Application!LastHook
  <2>1.
        /\ call' = "none" /\ pc' = "idle" /\ pos' = 0 /\ complete' = 1 /\ up' = 0
        /\ state' = IF call = "rollback" \/ failed' = 1 THEN "FAILED" ELSE "STOPPED"
    BY <1>4 DEF Application!CleanupNext
  <2>2. NoneLive'  BY <1>0, <1>1, <1>4 DEF NoneLive, CleanShape, LiveStates
  <2>3. Application!LifeTypeOK'  BY <1>0, <1>2, <2>1 DEF Application!LifeTypeOK
  <2>4. state' = "STOPPED" =>
          failed' = 0 /\ \A c \in Application!Components : comp'[c] \in {"down", "stopped"}
    BY <1>0, <1>3, <1>4, <2>1 DEF Application!CleaningUp
  <2>5. forced' = 1 => failed' = 1  BY <1>0 DEF ErrorInv
  <2> QED
    BY <2>1, <2>2, <2>3, <2>4, <2>5 DEF IdleInv, CallInv, ErrorInv, Application!CleaningUp
<1>5. CASE pos # Application!LastHook
  <2>1. pos' = pos - 1 /\ pc' = "hook" /\ UNCHANGED <<state, up, complete, call>>
    BY <1>5 DEF Application!CleanupNext
  <2>2. CleanShape'  BY <1>0, <1>1, <2>1 DEF CleanShape, LiveStates
  <2>3. Application!LifeTypeOK'  BY <1>0, <1>2, <1>5, <2>1 DEF Application!LifeTypeOK
  <2>4. forced' = 1 => failed' = 1  BY <1>0 DEF ErrorInv
  <2>5. call' = "shutdown" /\ failed' = 0 =>
          \A c \in Application!Components : c > pos' => comp'[c] \in {"down", "stopped"}
    BY <1>0, <1>3, <2>1
  <2>6. ErrorInv'  BY <1>0, <2>1, <2>4, <2>5 DEF ErrorInv
  <2>7. IdleInv' /\ CallInv'  BY <1>0, <2>1, <2>2 DEF IdleInv, CallInv, Application!CleaningUp
  <2> QED BY <2>3, <2>6, <2>7
<1> QED BY <1>4, <1>5

LEMMA StopTimesOutLife == ASSUME LifeInv, Application!StopTimesOut PROVE LifeInv'
BY DEF LifeInv, Application!StopTimesOut, Application!LifeTypeOK, IdleInv, CallInv, ErrorInv, CleanShape, Application!CleaningUp, AllUp,
       AllDown, NoneLive

\* A stray hook is not the one of a component that is live, nor of one that stopped cleanly.
LEMMA StrayEndsLife == ASSUME LifeInv, NEW c \in Application!Components, Application!StrayEnds(c) PROVE LifeInv'
<1> USE DEF LifeInv
<1>1.
      /\ comp[c] \in {"lingering", "hanging"}
      /\ comp'[c] \notin LiveStates
      /\ \A d \in Application!Components \ {c} : comp'[d] = comp[d]
  BY DEF Application!StrayEnds, Application!SetComp, Application!LifeTypeOK, LiveStates
<1>2. comp' \in [Application!Components -> {"down", "starting", "up", "failed", "lingering", "leaked",
                                "stopping", "stopped", "broken", "hanging"}]
  BY DEF Application!StrayEnds, Application!SetComp, Application!LifeTypeOK
<1>3. UNCHANGED <<state, up, complete, call, pc, pos, failed, forced>>
  BY DEF Application!StrayEnds
<1>4. Application!LifeTypeOK'  BY <1>2, <1>3 DEF Application!LifeTypeOK
<1>5. ~AllUp /\ ~AllDown /\ (NoneLive => NoneLive')  BY <1>1 DEF AllUp, AllDown, NoneLive
<1>6. IdleInv'  BY <1>3, <1>5 DEF IdleInv
<1>7. (StartShape => StartShape') /\ (CleanShape => CleanShape')
  BY <1>1, <1>3 DEF StartShape, CleanShape, LiveStates, Application!LifeTypeOK
<1>8. CallInv'  BY <1>3, <1>5, <1>7 DEF CallInv, Application!CleaningUp
<1>9. ErrorInv'  BY <1>1, <1>3 DEF ErrorInv, Application!CleaningUp
<1> QED BY <1>4, <1>6, <1>8, <1>9

LEMMA LifecycleLife ==
    ASSUME LifeInv, Application!Startup \/ Application!Shutdown \/ Application!LifecycleStep \/ \E c \in Application!Components : Application!StrayEnds(c)
    PROVE  LifeInv'
<1>0. failed \in {0, 1}  BY DEF LifeInv, Application!LifeTypeOK
<1>1. CASE Application!HookRaises  BY <1>1, RollBackLife DEF Application!HookRaises
<1>2. CASE Application!CancelledCompletes
  BY <1>2, RollBackLife DEF Application!CancelledCompletes
<1>3. CASE Application!CancelledEnds  BY <1>3, RollBackLife DEF Application!CancelledEnds
<1>4. CASE Application!RequestsDrained \/ Application!DrainTimesOut
  BY <1>4, BeginCleanupLife DEF Application!RequestsDrained, Application!DrainTimesOut
<1>5. CASE Application!StopReturns  BY <1>0, <1>5, CleanupNextLife DEF Application!StopReturns
<1>6. CASE Application!StopRaises  BY <1>0, <1>6, CleanupNextLife DEF Application!StopRaises
<1>7. CASE Application!StopCancelled
  <2>1. failed = 1 /\ UNCHANGED <<failed, forced>> /\ Application!CleaningUp /\ pc = "cancel"
    BY <1>7 DEF Application!StopCancelled, LifeInv, ErrorInv
  <2>2. PICK s \in {"stopped", "broken", "hanging"} : Application!CleanupNext(s)
    BY <1>7 DEF Application!StopCancelled
  <2> QED BY <2>1, <2>2, CleanupNextLife
<1> QED
  BY <1>1, <1>2, <1>3, <1>4, <1>5, <1>6, <1>7, StartupLife, HookReturnsLife, InterruptLife,
     ShutdownLife, StopTimesOutLife, StrayEndsLife DEF Application!LifecycleStep

-----------------------------------------------------------------------------
(* The requests.                                                           *)

\* The lifecycle leaves the requests alone; one that is under way stays where the
\* application serves it, until the drain has timed out.
LEMMA LifecycleRequests ==
    ASSUME LifeInv, RequestInv,
           Application!Startup \/ Application!Shutdown \/ Application!LifecycleStep \/ \E c \in Application!Components : Application!StrayEnds(c)
    PROVE  RequestInv'
<1>1. UNCHANGED <<active, drained, req, task>>
  BY DEF Application!reqVars, Application!Startup, Application!Shutdown, Application!LifecycleStep, Application!StrayEnds, Application!HookReturns, Application!HookRaises, Application!RollBack,
         Application!Interrupt, Application!CancelledCompletes, Application!CancelledEnds, Application!RequestsDrained, Application!DrainTimesOut, Application!StopReturns,
         Application!StopRaises, Application!StopTimesOut, Application!StopCancelled
<1>2. forced = 1 => forced' = 1
  BY DEF Application!Startup, Application!Shutdown, Application!LifecycleStep, Application!StrayEnds, Application!HookReturns, Application!HookRaises, Application!RollBack,
         Application!Interrupt, Application!CancelledCompletes, Application!CancelledEnds, Application!RequestsDrained, Application!DrainTimesOut, Application!StopReturns,
         Application!StopRaises, Application!StopTimesOut, Application!StopCancelled
<1>3.
      /\ state = "RUNNING" => call = "none" /\ pc = "idle" /\ up = N
      /\ pc = "drain" => call = "shutdown" /\ state = "STOPPING"
  BY DEF LifeInv, IdleInv, CallInv
<1>4. CASE Application!RequestsDrained
  <2>1. \A r \in Requests : req[r] = "idle"
    <3>1. Cardinality({r \in Requests : req[r] # "idle"}) = 0
      BY <1>4, ApplicationCardinality DEF Application!RequestsDrained, RequestInv, Application!RequestsCounted
    <3>2. IsFiniteSet({r \in Requests : req[r] # "idle"})  BY FS_Subset
    <3> QED BY <3>1, <3>2, FS_EmptySet
  <2> QED BY <1>1, <2>1 DEF RequestInv, Application!RequestTypeOK, Application!RequestsCounted
<1>5. CASE Application!DrainTimesOut
  BY <1>1, <1>5 DEF Application!DrainTimesOut, RequestInv, Application!RequestTypeOK, Application!RequestsCounted
<1>6. ASSUME ~Application!RequestsDrained, ~Application!DrainTimesOut PROVE Serving => Serving'
  BY <1>3, <1>6 DEF Serving, Application!CleaningUp, Application!Startup, Application!Shutdown, Application!LifecycleStep, Application!StrayEnds, Application!HookReturns,
         Application!HookRaises, Application!Interrupt, Application!CancelledCompletes, Application!CancelledEnds, Application!StopReturns,
         Application!StopRaises, Application!StopTimesOut, Application!StopCancelled
<1>7. CASE ~Application!RequestsDrained /\ ~Application!DrainTimesOut
  BY <1>1, <1>2, <1>6, <1>7 DEF RequestInv, Application!RequestTypeOK, Application!RequestsCounted
<1> QED BY <1>4, <1>5, <1>7

LEMMA RequestsLife ==
    ASSUME LifeInv, UNCHANGED Application!lifeVars
    PROVE  LifeInv'
BY DEF LifeInv, Application!LifeTypeOK, IdleInv, CallInv, ErrorInv, StartShape, CleanShape, Application!CleaningUp, AllUp,
       AllDown, NoneLive, Application!lifeVars

LEMMA AdmitRequests ==
    ASSUME LifeInv, RequestInv, NEW r \in Requests, Application!Admit(r) PROVE RequestInv'
<1> DEFINE W == {x \in Requests : req[x] # "idle"}
<1>1.
      /\ req[r] = "idle" /\ Serving' /\ active' = active + 1 /\ drained' = 0
      /\ req' = [req EXCEPT ![r] = "enter"] /\ UNCHANGED <<task, forced>>
  BY DEF Application!Admit, Serving, Application!lifeVars
<1>2. {x \in Requests : req'[x] # "idle"} = W \cup {r} /\ r \notin W
  BY <1>1 DEF RequestInv, Application!RequestTypeOK
<1>3. IsFiniteSet(W)  BY FS_Subset
<1>4. Cardinality(W \cup {r}) = Cardinality(W) + 1 /\ Cardinality(W) \in Nat
  BY <1>2, <1>3, FS_AddElement, FS_CardinalityType
<1>5. Application!RequestsCounted'
  <2>1. active = Cardinality(W) /\ (drained = 1 <=> active = 0)
    BY ApplicationCardinality DEF Application!RequestsCounted, RequestInv
  <2>2. active' = Cardinality({x \in Requests : req'[x] # "idle"}) /\ (drained' = 1 <=> active' = 0)
    BY <1>1, <1>2, <1>4, <2>1 DEF RequestInv, Application!RequestTypeOK
  <2> QED BY <2>2, ApplicationCardinality DEF Application!RequestsCounted
<1>6. Application!RequestTypeOK' /\ \A x \in Requests : task'[x] \in {"running", "cancelled"} => req'[x] \in {"serve", "drain"}
  BY <1>1 DEF RequestInv, Application!RequestTypeOK
<1> QED BY <1>1, <1>5, <1>6 DEF RequestInv

LEMMA LeaveRequests ==
    ASSUME LifeInv, RequestInv, NEW r \in Requests, Application!Leave(r) PROVE RequestInv'
<1> DEFINE W == {x \in Requests : req[x] # "idle"}
<1>1.
      /\ req[r] \in {"enter", "exit"} /\ active' = active - 1
      /\ drained' = IF active = 1 THEN 1 ELSE drained
      /\ req' = [req EXCEPT ![r] = "idle"] /\ task' = [task EXCEPT ![r] = "none"]
      /\ UNCHANGED <<forced, state, pc, up>>
  BY DEF Application!Leave, Application!lifeVars
<1>2. {x \in Requests : req'[x] # "idle"} = W \ {r} /\ r \in W
  BY <1>1 DEF RequestInv, Application!RequestTypeOK
<1>3. IsFiniteSet(W)  BY FS_Subset
<1>4. Cardinality(W \ {r}) = Cardinality(W) - 1 /\ Cardinality(W) \in Nat /\ Cardinality(W) # 0
  BY <1>2, <1>3, FS_RemoveElement, FS_CardinalityType, FS_EmptySet
<1>5. Application!RequestsCounted'
  <2>1. active = Cardinality(W) /\ (drained = 1 <=> active = 0)
    BY ApplicationCardinality DEF Application!RequestsCounted, RequestInv
  <2>2. active' = Cardinality({x \in Requests : req'[x] # "idle"}) /\ (drained' = 1 <=> active' = 0)
    BY <1>1, <1>2, <1>4, <2>1 DEF RequestInv, Application!RequestTypeOK
  <2> QED BY <2>2, ApplicationCardinality DEF Application!RequestsCounted
<1>6. Application!RequestTypeOK' /\ \A x \in Requests : task'[x] \in {"running", "cancelled"} => req'[x] \in {"serve", "drain"}
  BY <1>1 DEF RequestInv, Application!RequestTypeOK
<1> QED BY <1>1, <1>5, <1>6 DEF RequestInv, Serving

\* A request that goes on stays counted.
LEMMA GoesOnRequests ==
    ASSUME LifeInv, RequestInv, NEW r \in Requests,
           Application!Serve(r) \/ Application!HandlerEnds(r) \/ Application!Disconnect(r) \/ Application!HandlerAwaited(r)
    PROVE  RequestInv'
<1>1.
      /\ UNCHANGED <<active, drained, forced, state, pc, up>>
      /\ Application!RequestTypeOK'
      /\ \A x \in Requests : req'[x] = "idle" <=> req[x] = "idle"
  BY DEF Application!Serve, Application!HandlerEnds, Application!Disconnect, Application!HandlerAwaited, Application!lifeVars, RequestInv, Application!RequestTypeOK
<1>2. {x \in Requests : req'[x] # "idle"} = {x \in Requests : req[x] # "idle"}  BY <1>1
<1>3. Application!RequestsCounted'  BY <1>1, <1>2 DEF Application!RequestsCounted, RequestInv
<1>4. \A x \in Requests : task'[x] \in {"running", "cancelled"} => req'[x] \in {"serve", "drain"}
  BY DEF Application!Serve, Application!HandlerEnds, Application!Disconnect, Application!HandlerAwaited, RequestInv, Application!RequestTypeOK
<1> QED BY <1>1, <1>3, <1>4 DEF RequestInv, Serving

-----------------------------------------------------------------------------
LEMMA StepApplication == ApplicationInv /\ [Application!Next]_Application!vars => ApplicationInv'
<1> SUFFICES ASSUME ApplicationInv, [Application!Next]_Application!vars PROVE ApplicationInv'
  OBVIOUS
<1> USE DEF ApplicationInv
<1>1. CASE Application!Startup \/ Application!Shutdown \/ Application!LifecycleStep \/ \E c \in Application!Components : Application!StrayEnds(c)
  BY <1>1, LifecycleLife, LifecycleRequests
<1>2. ASSUME NEW r \in Requests, Application!RequestStep(r) PROVE ApplicationInv'
  <2>1. LifeInv'
    BY <1>2, RequestsLife DEF Application!RequestStep, Application!Admit, Application!Serve, Application!HandlerEnds, Application!Disconnect, Application!HandlerAwaited, Application!Leave
  <2>2. RequestInv'
    BY <1>2, AdmitRequests, LeaveRequests, GoesOnRequests DEF Application!RequestStep
  <2> QED BY <2>1, <2>2
<1>3. CASE UNCHANGED Application!vars
  <2>1. LifeInv'  BY <1>3, RequestsLife DEF Application!vars
  <2>2. RequestInv'
    BY <1>3 DEF Application!vars, Application!lifeVars, Application!reqVars, RequestInv, Application!RequestTypeOK, Application!RequestsCounted, Serving
  <2> QED BY <2>1, <2>2
<1> QED BY <1>1, <1>2, <1>3 DEF Application!Next

\* Whatever hooks fail, resist or run into a deadline and whenever shutdown is called, the
\* application's components go up in order and down in reverse, none stays up behind a
\* completed clean-up, STOPPED is reported only when all went well, and a request that was
\* admitted is served by the whole application unless its drain timed out
\* (BusinessOSApplication.startup, shutdown and _handle_http_traced).
THEOREM ApplicationStaysSound == Application!Spec => []ApplicationSound
<1> QED BY InitApplication, StepApplication, ApplicationImpliesSound, PTL DEF Application!Spec

-----------------------------------------------------------------------------
(* The event worker.  Its pc is stage here.                                *)

WorkerIdle == mutex = "none" /\ started = 0
Serves == mutex = "none" /\ started = 1
NoJobs == \A j \in Worker!Jobs : job[j] = "none"

\* The program counter and the mutex
PlaceInv ==
    /\ mutex = "start" <=> stage \in {"application", "subscribe", "commit"}
    /\ mutex \in {"failing", "stop"} <=> stage \in Worker!Jobs \cup {"pending", "database"}
    /\ mutex = "start" => started = 0

\* The application is started once, by the only start that subscribes
OnceInv ==
    /\ application = "new" => channel = "none" /\ quarantined = 0 /\ held = 0
                            /\ \A j \in {"closer", "close", "publisher"} : job[j] = "none"
    /\ stage \in {"subscribe", "commit"} \/ Serves => application = "running"
    /\ mutex = "start" /\ stage = "application" => application # "running"
    /\ stage = "subscribe" => quarantined = 0

\* Which tasks there are
JobInv ==
    /\ WorkerIdle => NoJobs /\ held = 0 /\ application # "running"
    /\ WorkerIdle /\ starts > 0 => application = "closed" /\ (errors = 1 \/ channel # "open")
    /\ mutex = "start" => job["close"] = "none" /\ job["publisher"] = "none" /\ starts > 0
    /\ stage \in {"application", "subscribe"} => NoJobs /\ held = 0
    /\ stage = "commit" \/ Serves =>
         IF quarantined = 1 THEN job["closer"] # "none" ELSE held = 1 /\ job["closer"] = "none"
    /\ mutex \in {"failing", "stop"} \/ Serves => starts > 0

\* What every clean-up does in the end
CleanupInv ==
    /\ job["shutdown"] # "none" => stage \in {"shutdown", "pending", "database"}
    /\ stage \in {"shutdown", "pending", "database"} => job["shutdown"] # "none"
    /\ stage = "pending" /\ job["shutdown"] = "running" => "shutdown" \in pending
    /\ stage = "database" => job["shutdown"] = "ended"
    /\ job["shutdown"] = "ended" => application = "closed" /\ (errors = 1 \/ channel # "open")
    /\ database = "closed" => WorkerIdle

\* The inductive invariant
WorkerInv == Worker!TypeOK /\ PlaceInv /\ OnceInv /\ JobInv /\ CleanupInv

USE WorkerAssumption
USE DEF Worker!Jobs, Worker!Running, Worker!After

LEMMA InitWorker == Worker!Init => WorkerInv
BY DEF Worker!Init, WorkerInv, Worker!TypeOK, PlaceInv, OnceInv, JobInv, CleanupInv, WorkerIdle, Serves, NoJobs

LEMMA WorkerImpliesSound == WorkerInv => WorkerSound
<1> SUFFICES ASSUME WorkerInv PROVE WorkerSound  OBVIOUS
<1> USE DEF WorkerInv, WorkerIdle, Serves, NoJobs
<1>1. Worker!DatabaseClosedLast  BY DEF Worker!DatabaseClosedLast, JobInv, CleanupInv
<1>2. Worker!QuarantineCloses  BY DEF Worker!QuarantineCloses, JobInv
<1>3. Worker!CleanStopIsComplete
  BY DEF Worker!CleanStopIsComplete, JobInv, CleanupInv, Worker!TypeOK
<1> QED BY <1>1, <1>2, <1>3 DEF WorkerSound, Worker!WorkerSound

-----------------------------------------------------------------------------
(* The worker's steps.                                                     *)

LEMMA StepWorker ==
    ~DeliverEarly => (WorkerInv /\ [Worker!Next]_Worker!vars => WorkerInv')
<1> SUFFICES ASSUME ~DeliverEarly, WorkerInv, [Worker!Next]_Worker!vars PROVE WorkerInv'
  OBVIOUS
<1> USE DEF WorkerInv, PlaceInv, OnceInv, JobInv, CleanupInv, WorkerIdle, Serves, NoJobs, Worker!TypeOK,
            Worker!worker, Worker!world, Worker!control
<1>1. CASE Worker!Start  BY <1>1 DEF Worker!Start
<1>2. CASE Worker!ApplicationStarted  BY <1>2 DEF Worker!ApplicationStarted
<1>3. CASE Worker!ChannelOpens  BY <1>3 DEF Worker!ChannelOpens
<1>4. CASE Worker!Subscribed  BY <1>4 DEF Worker!Subscribed
<1>5. CASE Worker!StartReturns  BY <1>5 DEF Worker!StartReturns
<1>6. CASE Worker!StartFails  BY <1>6 DEF Worker!StartFails, Worker!EnterCleanup
<1>7. CASE Worker!Stop  BY <1>7 DEF Worker!Stop, Worker!EnterCleanup
<1>8. CASE Worker!StopIdle  BY <1>8 DEF Worker!StopIdle
<1>9. CASE Worker!PublisherEnds  BY <1>9 DEF Worker!PublisherEnds
<1>10. CASE Worker!AwaitPending  BY <1>10 DEF Worker!AwaitPending
<1>11. CASE Worker!CleanupReturns  BY <1>11 DEF Worker!CleanupReturns
<1>12. CASE Worker!ShutdownEnds  BY <1>12 DEF Worker!ShutdownEnds
<1>13. CASE Worker!DeliveryDenied  BY <1>13 DEF Worker!DeliveryDenied, Worker!Quarantine
<1>14. CASE Worker!PublisherDenied  BY <1>14 DEF Worker!PublisherDenied, Worker!Quarantine
<1>15. ASSUME NEW j \in Worker!Jobs, Worker!StepEnds(j) PROVE WorkerInv'
  BY <1>15 DEF Worker!StepEnds, Worker!Proceed
<1>16. ASSUME NEW j \in Worker!Jobs, Worker!StepTimesOut(j) PROVE WorkerInv'
  BY <1>16 DEF Worker!StepTimesOut, Worker!Proceed
<1>17. ASSUME NEW j \in Worker!Jobs, Worker!CloseEnds(j) PROVE WorkerInv'
  BY <1>17 DEF Worker!CloseEnds
<1>18. CASE UNCHANGED Worker!vars  BY <1>18 DEF Worker!vars
<1> QED
  BY <1>1, <1>2, <1>3, <1>4, <1>5, <1>6, <1>7, <1>8, <1>9, <1>10, <1>11, <1>12, <1>13, <1>14, <1>15, <1>16, <1>17, <1>18
     DEF Worker!Next, Worker!Lifecycle, Worker!TaskEnds

\* Whatever start, stop, the publisher, a delivery and the closing tasks do in between, and
\* whichever of them fails or resists its cancellation: the operations database is closed
\* last, a quarantined worker takes no deliveries, and a clean stop has left nothing behind.
\* No message is delivered before subscribe() has returned (EventWorker.start, stop,
\* _quarantine and _cleanup).
THEOREM WorkerStaysSound == ~DeliverEarly => (Worker!Spec => []WorkerSound)
<1> SUFFICES ASSUME ~DeliverEarly PROVE Worker!Spec => []WorkerSound  OBVIOUS
<1>1. WorkerInv /\ [Worker!Next]_Worker!vars => WorkerInv'  BY StepWorker
<1> QED BY <1>1, InitWorker, WorkerImpliesSound, PTL DEF Worker!Spec
=============================================================================
