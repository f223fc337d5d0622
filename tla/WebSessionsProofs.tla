-------------------------- MODULE WebSessionsProofs --------------------------
(***************************************************************************)
(* For any number of requests, handles, principals, logins and callbacks   *)
(* and any length of the lifetimes: the session store keeps one handle per *)
(* login, nothing deleted comes back and no login outlives its lifetime;   *)
(* a login gives one session at most, to the browser that began it.  For   *)
(* any keys, needs and callers of the container: its tables are exact,     *)
(* initializations never wait in a circle, a resource is released after    *)
(* everything that retains it, and what is returned is alive.              *)
(***************************************************************************)
EXTENDS MCWebSessions, FiniteSetTheorems, SequenceTheorems, WellFoundedInduction, TLAPS

\* The initial values name a principal.
LEMMA AnyIsPrincipal == AnyPrincipal \in Principals
  BY SessionAssumption DEF AnyPrincipal

\* Init gives every variable its type.
LEMMA InitTypes == Init => TypeOK
  <1> SUFFICES ASSUME Init PROVE TypeOK  OBVIOUS
  <1>0. 1 \in Handles  BY SessionAssumption DEF Handles
  <1>1. SessionTypes  BY AnyIsPrincipal DEF Init, SessionTypes
  <1>2. StoreTypes  BY DEF Init, StoreTypes
  <1>3. RequestTypes  BY <1>0 DEF Init, RequestTypes, PC, Op
  <1> QED BY <1>1, <1>2, <1>3 DEF TypeOK, Init

\* A step keeps the types of the sessions.
LEMMA SessionTypesStep == TypeOK /\ [Next]_vars => SessionTypes'
  <1> SUFFICES ASSUME TypeOK, [Next]_vars PROVE SessionTypes'  OBVIOUS
  <1> USE SessionAssumption DEF TypeOK, SessionTypes, StoreTypes, RequestTypes
  <1>1. ASSUME NEW h \in Handles, NEW p \in Principals, CreateSession(h, p) PROVE SessionTypes'
    BY <1>1 DEF CreateSession
  <1>2. ASSUME NEW r \in Requests, NEW h \in Handles, NEW o \in Op, Get(r, h, o) PROVE SessionTypes'
    BY <1>2 DEF Get, sessionVars
  <1>3. ASSUME NEW r \in Requests, Validate(r) \/ TouchRead(r) \/ RotateRefused(r) \/ RevokeRead(r)
        PROVE SessionTypes'
    BY <1>3 DEF Validate, TouchRead, RotateRefused, RevokeRead, sessionVars
  <1>4. ASSUME NEW r \in Requests, TouchWrite(r) PROVE SessionTypes'
    <2>1. Candidate(r) \in Nat  BY DEF Candidate, Least
    <2>2. \/ UNCHANGED <<seen, idle>>
          \/ /\ seen' = [seen EXCEPT ![hd[r]] = now[r]]
             /\ idle' = [idle EXCEPT ![hd[r]] = Candidate(r)]
      BY <1>4 DEF TouchWrite
    <2>3. UNCHANGED <<st, own, gen, abs, line, born>>  BY <1>4 DEF TouchWrite
    <2>4. CASE UNCHANGED <<seen, idle>>  BY <2>3, <2>4
    <2>5. CASE seen' = [seen EXCEPT ![hd[r]] = now[r]] /\ idle' = [idle EXCEPT ![hd[r]] = Candidate(r)]
      BY <2>1, <2>3, <2>5
    <2> QED BY <2>2, <2>4, <2>5
  <1>5. ASSUME NEW r \in Requests, NEW h2 \in Handles, Rotate(r, h2) PROVE SessionTypes'
    <2>0. hd[r] \in Handles /\ own[hd[r]] \in Principals /\ gen[hd[r]] + 1 \in Nat /\ copy[r] \in Nat
          /\ abs[hd[r]] \in Nat /\ line[hd[r]] \in Handles /\ born[hd[r]] \in Nat /\ time \in Nat
      OBVIOUS
    <2>1. /\ st' = [st EXCEPT ![hd[r]] = "gone", ![h2] = "stored"]
          /\ own' = [own EXCEPT ![h2] = own[hd[r]]]
          /\ gen' = [gen EXCEPT ![h2] = gen[hd[r]] + 1]
          /\ seen' = [seen EXCEPT ![h2] = time]
          /\ idle' = [idle EXCEPT ![h2] = copy[r]]
          /\ abs' = [abs EXCEPT ![h2] = abs[hd[r]]]
          /\ line' = [line EXCEPT ![h2] = line[hd[r]]]
          /\ born' = [born EXCEPT ![h2] = born[hd[r]]]
      BY <1>5 DEF Rotate, Replace
    <2>2. st' \in [Handles -> {"free", "stored", "gone"}]  BY <2>0, <2>1
    <2>3. own' \in [Handles -> Principals] /\ gen' \in [Handles -> Nat] /\ seen' \in [Handles -> Nat]
      BY <2>0, <2>1
    <2>4. idle' \in [Handles -> Nat] /\ abs' \in [Handles -> Nat] /\ born' \in [Handles -> Nat]
      BY <2>0, <2>1
    <2>5. line' \in [Handles -> Handles]  BY <2>0, <2>1
    <2> QED BY <2>2, <2>3, <2>4, <2>5
  <1>6. ASSUME NEW r \in Requests, RevokeDelete(r) PROVE SessionTypes'
    BY <1>6 DEF RevokeDelete, sessionVars
  <1>7. ASSUME NEW p \in Principals, PurgeRead(p) \/ ExpireIndex(p) \/ SetActive(p) PROVE SessionTypes'
    BY <1>7 DEF PurgeRead, ExpireIndex, SetActive, sessionVars
  <1>8. ASSUME NEW p \in Principals, PurgeDelete(p) PROVE SessionTypes'
    BY <1>8 DEF PurgeDelete, sessionVars
  <1>9. ASSUME NEW h \in Handles, ExpireSession(h) PROVE SessionTypes'
    BY <1>9 DEF ExpireSession, sessionVars
  <1>10. ASSUME Tick \/ UNCHANGED vars PROVE SessionTypes'
    BY <1>10 DEF Tick, vars, sessionVars
  <1> QED BY <1>1, <1>2, <1>3, <1>4, <1>5, <1>6, <1>7, <1>8, <1>9, <1>10 DEF Next, RequestStep

\* A step keeps the types of the index, the revocations and the clock.
LEMMA StoreTypesStep == TypeOK /\ [Next]_vars => StoreTypes'
  <1> SUFFICES ASSUME TypeOK, [Next]_vars PROVE StoreTypes'  OBVIOUS
  <1> USE DEF TypeOK, SessionTypes, StoreTypes, RequestTypes
  <1>1. ASSUME NEW h \in Handles, NEW p \in Principals, CreateSession(h, p) PROVE StoreTypes'
    BY <1>1 DEF CreateSession, Race
  <1>2. ASSUME NEW r \in Requests, NEW h \in Handles, NEW o \in Op, Get(r, h, o) PROVE StoreTypes'
    BY <1>2 DEF Get, purgeVars
  <1>3. ASSUME NEW r \in Requests,
               Validate(r) \/ TouchRead(r) \/ RotateRefused(r) \/ RevokeRead(r) \/ TouchWrite(r)
        PROVE StoreTypes'
    BY <1>3 DEF Validate, TouchRead, RotateRefused, RevokeRead, TouchWrite, purgeVars
  <1>5. ASSUME NEW r \in Requests, NEW h2 \in Handles, Rotate(r, h2) PROVE StoreTypes'
    <2>1. hd[r] \in Handles /\ own[hd[r]] \in Principals  OBVIOUS
    <2>2. index' = [index EXCEPT ![own[hd[r]]] = (@ \ {hd[r]}) \cup {h2}]
      BY <1>5 DEF Rotate, Replace
    <2>3. index' \in [Principals -> SUBSET Handles]  BY <2>1, <2>2
    <2>4. raced' = [raced EXCEPT ![own[hd[r]]] = IF purging[own[hd[r]]] = 1 THEN 1 ELSE @]
          /\ UNCHANGED <<time, active, purge, purging>>
      BY <1>5 DEF Rotate, Replace, Race
    <2>5. raced' \in [Principals -> {0, 1}]  BY <2>1, <2>4
    <2> QED BY <2>3, <2>4, <2>5
  <1>6. ASSUME NEW r \in Requests, RevokeDelete(r) PROVE StoreTypes'
    BY <1>6 DEF RevokeDelete, purgeVars
  <1>4. ASSUME NEW p \in Principals, PurgeRead(p) PROVE StoreTypes'  BY <1>4 DEF PurgeRead
  <1>7. ASSUME NEW p \in Principals, ExpireIndex(p) PROVE StoreTypes'
    BY <1>7 DEF ExpireIndex, purgeVars
  <1>11. ASSUME NEW p \in Principals, SetActive(p) PROVE StoreTypes'
    <2>1. active[p] \in {0, 1}  OBVIOUS
    <2>2. 1 - active[p] \in {0, 1}  BY <2>1
    <2> QED BY <1>11, <2>2 DEF SetActive, purgeVars
  <1>8. ASSUME NEW p \in Principals, PurgeDelete(p) PROVE StoreTypes'  BY <1>8 DEF PurgeDelete
  <1>9. ASSUME NEW h \in Handles, ExpireSession(h) PROVE StoreTypes'
    BY <1>9 DEF ExpireSession, purgeVars
  <1>10. ASSUME Tick \/ UNCHANGED vars PROVE StoreTypes'  BY <1>10 DEF Tick, vars, purgeVars
  <1> QED
    BY <1>1, <1>2, <1>3, <1>4, <1>5, <1>6, <1>7, <1>8, <1>9, <1>10, <1>11 DEF Next, RequestStep

\* A step keeps the types of the requests.
LEMMA RequestTypesStep == TypeOK /\ [Next]_vars => RequestTypes'
  <1> SUFFICES ASSUME TypeOK, [Next]_vars PROVE RequestTypes'  OBVIOUS
  <1> USE SessionAssumption DEF TypeOK, SessionTypes, StoreTypes, RequestTypes
  <1>a. ASSUME NEW r \in Requests, End(r) PROVE RequestTypes'
    <2>1. 1 \in Handles /\ "idle" \in PC /\ "use" \in Op  BY DEF Handles, PC, Op
    <2> QED BY <1>a, <2>1 DEF End
  <1>b. ASSUME NEW r \in Requests, NEW where \in PC, NEW c \in Nat, NEW w \in Nat, NEW n \in Nat,
               Go(r, where, c, w, n)
        PROVE RequestTypes'
    BY <1>b DEF Go
  <1>1. ASSUME NEW h \in Handles, NEW p \in Principals, CreateSession(h, p) PROVE RequestTypes'
    BY <1>1 DEF CreateSession, requestVars
  <1>2. ASSUME NEW r \in Requests, NEW h \in Handles, NEW o \in Op, Get(r, h, o) PROVE RequestTypes'
    BY <1>2 DEF Get, PC
  <1>3. ASSUME NEW r \in Requests, Validate(r) PROVE RequestTypes'
    <2>1. time + IdleTTL \in Nat /\ copy[r] \in Nat  OBVIOUS
    <2>2. {"invalid", "touch", "rotate", "revoke"} \subseteq PC  BY DEF PC
    <2> QED BY <1>3, <1>b, <2>1, <2>2 DEF Validate
  <1>4. ASSUME NEW r \in Requests, TouchRead(r) PROVE RequestTypes'
    <2>1. want[r] \in Nat /\ {"write", "expired"} \subseteq PC  BY DEF PC
    <2> QED BY <1>4, <1>a, <1>b, <2>1 DEF TouchRead
  <1>5. ASSUME NEW r \in Requests, RotateRefused(r) \/ TouchWrite(r) \/ RevokeDelete(r) PROVE RequestTypes'
    BY <1>5, <1>a DEF RotateRefused, TouchWrite, RevokeDelete
  <1>6. ASSUME NEW r \in Requests, RevokeRead(r) PROVE RequestTypes'
    <2>1. "delete" \in PC  BY DEF PC
    <2> QED BY <1>6, <1>a, <1>b, <2>1 DEF RevokeRead
  <1>7. ASSUME NEW r \in Requests, NEW h2 \in Handles, Rotate(r, h2) PROVE RequestTypes'
    BY <1>7, <1>a DEF Rotate
  <1>8. ASSUME NEW p \in Principals, PurgeRead(p) \/ ExpireIndex(p) \/ SetActive(p) \/ PurgeDelete(p)
        PROVE RequestTypes'
    BY <1>8 DEF PurgeRead, ExpireIndex, SetActive, PurgeDelete, requestVars
  <1>9. ASSUME NEW h \in Handles, ExpireSession(h) PROVE RequestTypes'
    BY <1>9 DEF ExpireSession, requestVars
  <1>10. ASSUME Tick \/ UNCHANGED vars PROVE RequestTypes'
    BY <1>10 DEF Tick, vars, requestVars
  <1> QED BY <1>1, <1>2, <1>3, <1>4, <1>5, <1>6, <1>7, <1>8, <1>9, <1>10 DEF Next, RequestStep

\* A key that exists is only ever deleted, and a deleted key stays deleted.
StatusMoves ==
    \A h \in Handles : /\ st[h] # "free" => st'[h] # "free"
                       /\ st[h] = "gone" => st'[h] = "gone"

LEMMA StatusStep == TypeOK /\ [Next]_vars => StatusMoves
  <1> SUFFICES ASSUME TypeOK, [Next]_vars, NEW k \in Handles
               PROVE (st[k] # "free" => st'[k] # "free") /\ (st[k] = "gone" => st'[k] = "gone")
    BY DEF StatusMoves
  <1> DEFINE Goal == (st[k] # "free" => st'[k] # "free") /\ (st[k] = "gone" => st'[k] = "gone")
  <1> USE DEF TypeOK, SessionTypes, RequestTypes
  <1>1. ASSUME NEW h \in Handles, NEW p \in Principals, CreateSession(h, p) PROVE Goal
    BY <1>1 DEF CreateSession, Fresh
  <1>2. ASSUME UNCHANGED st PROVE Goal  BY <1>2
  <1>3. ASSUME NEW r \in Requests, NEW h2 \in Handles, Rotate(r, h2) PROVE Goal
    BY <1>3 DEF Rotate, Replace, Fresh
  <1>4. ASSUME NEW r \in Requests, RevokeDelete(r) PROVE Goal  BY <1>4 DEF RevokeDelete
  <1>5. ASSUME NEW p \in Principals, PurgeDelete(p) PROVE Goal  BY <1>5 DEF PurgeDelete
  <1>6. ASSUME NEW h \in Handles, ExpireSession(h) PROVE Goal  BY <1>6 DEF ExpireSession
  <1>7. ASSUME NEW r \in Requests, NEW h \in Handles, NEW o \in Op, Get(r, h, o) PROVE UNCHANGED st
    BY <1>7 DEF Get
  <1>8. ASSUME NEW r \in Requests,
               Validate(r) \/ TouchRead(r) \/ RotateRefused(r) \/ RevokeRead(r) \/ TouchWrite(r)
        PROVE UNCHANGED st
    BY <1>8 DEF Validate, TouchRead, RotateRefused, RevokeRead, TouchWrite
  <1>9. ASSUME NEW p \in Principals, PurgeRead(p) \/ ExpireIndex(p) \/ SetActive(p) PROVE UNCHANGED st
    BY <1>9 DEF PurgeRead, ExpireIndex, SetActive
  <1>10. ASSUME Tick \/ UNCHANGED vars PROVE UNCHANGED st  BY <1>10 DEF Tick, vars
  <1> HIDE DEF Goal
  <1>11. Goal
    BY <1>1, <1>2, <1>3, <1>4, <1>5, <1>6, <1>7, <1>8, <1>9, <1>10 DEF Next, RequestStep
  <1> QED BY <1>11 DEF Goal

\* A request that is under way keeps the handle it has read.
LEMMA RequestMoves ==
    ASSUME TypeOK, [Next]_vars, NEW r \in Requests, pc'[r] # "idle"
    PROVE  \/ pc[r] # "idle" /\ hd'[r] = hd[r]
           \/ st[hd'[r]] = "stored"
  <1> DEFINE Goal == \/ pc[r] # "idle" /\ hd'[r] = hd[r]
                     \/ st[hd'[r]] = "stored"
  <1> USE DEF TypeOK, RequestTypes
  <1>1. ASSUME UNCHANGED <<pc, hd>> PROVE Goal  BY <1>1
  <1>2. ASSUME NEW q \in Requests, End(q) PROVE Goal  BY <1>2 DEF End
  <1>3. ASSUME NEW q \in Requests, pc[q] # "idle", NEW where, NEW c, NEW w, NEW n, Go(q, where, c, w, n)
        PROVE Goal
    BY <1>3 DEF Go
  <1>4. ASSUME NEW q \in Requests, NEW h \in Handles, NEW o \in Op, Get(q, h, o) PROVE Goal
    BY <1>4 DEF Get
  <1>5. ASSUME NEW q \in Requests, Validate(q) PROVE Goal  BY <1>5, <1>3 DEF Validate
  <1>6. ASSUME NEW q \in Requests, TouchRead(q) PROVE Goal  BY <1>6, <1>2, <1>3 DEF TouchRead
  <1>7. ASSUME NEW q \in Requests, RevokeRead(q) PROVE Goal
    BY <1>7, <1>2, <1>3 DEF RevokeRead
  <1>8. ASSUME NEW q \in Requests, RotateRefused(q) \/ TouchWrite(q) \/ RevokeDelete(q) PROVE Goal
    BY <1>8, <1>2 DEF RotateRefused, TouchWrite, RevokeDelete
  <1>9. ASSUME NEW q \in Requests, NEW h2 \in Handles, Rotate(q, h2) PROVE Goal
    BY <1>9, <1>2 DEF Rotate
  <1>10. ASSUME NEW h \in Handles, NEW p \in Principals, CreateSession(h, p) PROVE UNCHANGED <<pc, hd>>
    BY <1>10 DEF CreateSession, requestVars
  <1>11. ASSUME NEW p \in Principals, PurgeRead(p) \/ PurgeDelete(p) \/ ExpireIndex(p) \/ SetActive(p)
         PROVE UNCHANGED <<pc, hd>>
    BY <1>11 DEF PurgeRead, PurgeDelete, ExpireIndex, SetActive, requestVars
  <1>12. ASSUME NEW h \in Handles, ExpireSession(h) PROVE UNCHANGED <<pc, hd>>
    BY <1>12 DEF ExpireSession, requestVars
  <1>13. ASSUME Tick \/ UNCHANGED vars PROVE UNCHANGED <<pc, hd>>
    BY <1>13 DEF Tick, vars, requestVars
  <1> HIDE DEF Goal
  <1>14. Goal
    BY <1>1, <1>4, <1>5, <1>6, <1>7, <1>8, <1>9, <1>10, <1>11, <1>12, <1>13 DEF Next, RequestStep
  <1> QED BY <1>14 DEF Goal

\* A step keeps the type invariant.
LEMMA TypeStep == TypeOK /\ [Next]_vars => TypeOK'
  <1> SUFFICES ASSUME TypeOK, [Next]_vars PROVE TypeOK'  OBVIOUS
  <1>1. SessionTypes' /\ StoreTypes' /\ RequestTypes'
    BY SessionTypesStep, StoreTypesStep, RequestTypesStep
  <1>2. ASSUME NEW r \in Requests, pc'[r] # "idle" PROVE st'[hd'[r]] # "free"
    <2>1. hd'[r] \in Handles  BY <1>1 DEF RequestTypes
    <2>2. st[hd'[r]] # "free"  BY <1>2, RequestMoves DEF TypeOK
    <2> QED BY <2>1, <2>2, StatusStep DEF StatusMoves
  <1> QED BY <1>1, <1>2 DEF TypeOK

\* Every reachable state is well typed.
THEOREM TypeCorrect == Spec => []TypeOK
  BY InitTypes, TypeStep, PTL DEF Spec

\* No step of any request, revocation or expiry brings a deleted key back.
THEOREM NeverRevived == Spec => NoRevival
  <1>1. TypeOK /\ [Next]_vars => [\A h \in Handles : st[h] = "gone" => st'[h] = "gone"]_vars
    BY StatusStep DEF StatusMoves
  <1> QED BY <1>1, TypeCorrect, PTL DEF Spec, NoRevival

-----------------------------------------------------------------------------
(* The keys in an index, and the ones a revocation has read, exist.        *)

KeysExist == \A p \in Principals : \A h \in index[p] \cup purge[p] : st[h] # "free"

LEMMA KeysStep == TypeOK /\ KeysExist /\ [Next]_vars => KeysExist'
  <1> SUFFICES ASSUME TypeOK, KeysExist, [Next]_vars, NEW q \in Principals,
                      NEW k \in index'[q] \cup purge'[q]
               PROVE st'[k] # "free"
    BY DEF KeysExist
  <1>0. k \in Handles  BY TypeStep DEF TypeOK, StoreTypes
  <1> USE DEF TypeOK, SessionTypes, StoreTypes, RequestTypes
  <1>1. ASSUME k \in index[q] \cup purge[q] PROVE st'[k] # "free"
    BY <1>0, <1>1, StatusStep DEF KeysExist, StatusMoves
  <1>2. ASSUME index' = index, purge' = purge PROVE st'[k] # "free"  BY <1>1, <1>2
  <1>3. ASSUME NEW h \in Handles, NEW p \in Principals, CreateSession(h, p) PROVE st'[k] # "free"
    <2>1. k = h \/ k \in index[q] \cup purge[q]  BY <1>3 DEF CreateSession
    <2>2. k = h => st'[k] = "stored"  BY <1>3 DEF CreateSession
    <2> QED BY <1>1, <2>1, <2>2
  <1>4. ASSUME NEW r \in Requests, NEW h2 \in Handles, Rotate(r, h2) PROVE st'[k] # "free"
    <2>0. own[hd[r]] \in Principals  OBVIOUS
    <2>1. k = h2 \/ k \in index[q] \cup purge[q]  BY <1>4, <2>0 DEF Rotate, Replace
    <2>2. k = h2 => st'[k] = "stored"  BY <1>4 DEF Rotate, Replace
    <2> QED BY <1>1, <2>1, <2>2
  <1>5. ASSUME NEW r \in Requests, RevokeDelete(r) PROVE st'[k] # "free"
    <2>1. own[hd[r]] \in Principals  OBVIOUS
    <2>2. k \in index[q] \cup purge[q]  BY <1>5, <2>1 DEF RevokeDelete, purgeVars
    <2> QED BY <1>1, <2>2
  <1>6. ASSUME NEW p \in Principals, PurgeRead(p) PROVE st'[k] # "free"
    BY <1>1, <1>6 DEF PurgeRead
  <1>7. ASSUME NEW p \in Principals, PurgeDelete(p) PROVE st'[k] # "free"
    BY <1>1, <1>7 DEF PurgeDelete
  <1>8. ASSUME NEW p \in Principals, ExpireIndex(p) PROVE st'[k] # "free"
    BY <1>1, <1>8 DEF ExpireIndex, purgeVars
  <1>9. ASSUME NEW p \in Principals, SetActive(p) PROVE st'[k] # "free"
    BY <1>2, <1>9 DEF SetActive, purgeVars
  <1>10. ASSUME NEW h \in Handles, ExpireSession(h) PROVE st'[k] # "free"
    BY <1>2, <1>10 DEF ExpireSession, purgeVars
  <1>11. ASSUME NEW r \in Requests, NEW h \in Handles, NEW o \in Op, Get(r, h, o) PROVE st'[k] # "free"
    BY <1>2, <1>11 DEF Get, purgeVars
  <1>12. ASSUME NEW r \in Requests,
                Validate(r) \/ TouchRead(r) \/ RotateRefused(r) \/ RevokeRead(r) \/ TouchWrite(r)
         PROVE st'[k] # "free"
    BY <1>2, <1>12 DEF Validate, TouchRead, RotateRefused, RevokeRead, TouchWrite, purgeVars
  <1>13. ASSUME Tick \/ UNCHANGED vars PROVE st'[k] # "free"
    BY <1>2, <1>13 DEF Tick, vars, purgeVars
  <1> QED
    BY <1>3, <1>4, <1>5, <1>6, <1>7, <1>8, <1>9, <1>10, <1>11, <1>12, <1>13 DEF Next, RequestStep

-----------------------------------------------------------------------------
(* One handle for each login.  A login's first handle is no longer free,   *)
(* so that a new login does not share the line of an old one.              *)

LineExists == \A h \in Handles : st[h] # "free" => st[line[h]] # "free"

\* Only a login and a rotation store a session.
Kept ==
    /\ line' = line
    /\ \A h \in Handles : st'[h] = "stored" => st[h] = "stored"
    /\ \A h \in Handles : st'[h] # "free" => st[h] # "free"

LEMMA KeptStep ==
    ASSUME TypeOK, KeysExist, [Next]_vars
    PROVE  \/ Kept
           \/ \E h \in Handles, p \in Principals : CreateSession(h, p)
           \/ \E r \in Requests, h2 \in Handles : Rotate(r, h2)
  <1> USE DEF TypeOK, SessionTypes, StoreTypes, RequestTypes
  <1>1. ASSUME UNCHANGED <<st, line>> PROVE Kept  BY <1>1 DEF Kept
  <1>2. ASSUME NEW r \in Requests, NEW h \in Handles, NEW o \in Op, Get(r, h, o) PROVE UNCHANGED <<st, line>>
    BY <1>2 DEF Get, sessionVars
  <1>3. ASSUME NEW r \in Requests,
               Validate(r) \/ TouchRead(r) \/ RotateRefused(r) \/ RevokeRead(r) \/ TouchWrite(r)
        PROVE UNCHANGED <<st, line>>
    BY <1>3 DEF Validate, TouchRead, RotateRefused, RevokeRead, TouchWrite, sessionVars
  <1>4. ASSUME NEW r \in Requests, RevokeDelete(r) PROVE Kept
    <2>1. hd[r] \in Handles /\ st[hd[r]] # "free"  BY <1>4 DEF RevokeDelete
    <2> QED BY <1>4, <2>1 DEF RevokeDelete, sessionVars, Kept
  <1>5. ASSUME NEW p \in Principals, PurgeRead(p) \/ ExpireIndex(p) \/ SetActive(p)
        PROVE UNCHANGED <<st, line>>
    BY <1>5 DEF PurgeRead, ExpireIndex, SetActive, sessionVars
  <1>6. ASSUME NEW p \in Principals, PurgeDelete(p) PROVE Kept
    <2>1. \A h \in purge[p] : st[h] # "free"  BY DEF KeysExist
    <2> QED BY <1>6, <2>1 DEF PurgeDelete, sessionVars, Kept
  <1>7. ASSUME NEW h \in Handles, ExpireSession(h) PROVE Kept
    BY <1>7 DEF ExpireSession, sessionVars, Kept
  <1>8. ASSUME Tick \/ UNCHANGED vars PROVE UNCHANGED <<st, line>>
    BY <1>8 DEF Tick, vars, sessionVars
  <1> QED BY <1>1, <1>2, <1>3, <1>4, <1>5, <1>6, <1>7, <1>8 DEF Next, RequestStep

LoginInv == TypeOK /\ KeysExist /\ LineExists /\ OneHandle

LEMMA LoginInit == Init => LoginInv
  <1> SUFFICES ASSUME Init PROVE LoginInv  OBVIOUS
  <1>1. KeysExist /\ LineExists /\ OneHandle  BY DEF Init, KeysExist, LineExists, OneHandle
  <1> QED BY <1>1, InitTypes DEF LoginInv

LEMMA LoginStep == LoginInv /\ [Next]_vars => LoginInv'
  <1> SUFFICES ASSUME LoginInv, [Next]_vars PROVE LoginInv'  OBVIOUS
  <1> USE DEF LoginInv
  <1>1. TypeOK' /\ KeysExist' /\ StatusMoves  BY TypeStep, KeysStep, StatusStep
  <1>2. ASSUME Kept PROVE LineExists' /\ OneHandle'
    <2>1. LineExists'  BY <1>1, <1>2 DEF Kept, LineExists, StatusMoves, TypeOK, SessionTypes
    <2>2. OneHandle'  BY <1>2 DEF Kept, OneHandle
    <2> QED BY <2>1, <2>2
  <1>3. ASSUME NEW h \in Handles, NEW p \in Principals, CreateSession(h, p)
        PROVE LineExists' /\ OneHandle'
    <2>1. /\ st[h] = "free"
          /\ st' = [st EXCEPT ![h] = "stored"]
          /\ line' = [line EXCEPT ![h] = h]
      BY <1>3 DEF CreateSession, Fresh
    <2>2. LineExists'  BY <2>1 DEF LineExists, TypeOK, SessionTypes
    <2>3. \A k \in Handles : k # h /\ st'[k] = "stored" => st[k] = "stored" /\ line'[k] = line[k] /\ line[k] # h
      BY <2>1 DEF LineExists, TypeOK, SessionTypes
    <2>4. line'[h] = h  BY <2>1 DEF TypeOK, SessionTypes
    <2>5. OneHandle'  BY <2>3, <2>4 DEF OneHandle
    <2> QED BY <2>2, <2>5
  <1>4. ASSUME NEW r \in Requests, NEW h2 \in Handles, Rotate(r, h2)
        PROVE LineExists' /\ OneHandle'
    <2>1. /\ hd[r] \in Handles /\ st[hd[r]] = "stored" /\ st[h2] = "free"
          /\ st' = [st EXCEPT ![hd[r]] = "gone", ![h2] = "stored"]
          /\ line' = [line EXCEPT ![h2] = line[hd[r]]]
      BY <1>4 DEF Rotate, Replace, Fresh, TypeOK, RequestTypes
    <2>2. \A k \in Handles : k # h2 => line'[k] = line[k]  BY <2>1 DEF TypeOK, SessionTypes
    <2>3. line'[h2] = line[hd[r]] /\ st[line[hd[r]]] # "free" /\ line[hd[r]] \in Handles
      BY <2>1 DEF TypeOK, SessionTypes, LineExists
    <2>4. \A k \in Handles : k # h2 => (st'[k] # "free" => st[k] # "free")
      BY <2>1 DEF TypeOK, SessionTypes
    <2>5. LineExists'
      BY <1>1, <2>2, <2>3, <2>4 DEF LineExists, StatusMoves, TypeOK, SessionTypes
    <2>6. \A k \in Handles : k # h2 /\ st'[k] = "stored" => st[k] = "stored" /\ k # hd[r]
      BY <2>1 DEF TypeOK, SessionTypes
    <2>7. OneHandle'  BY <2>1, <2>2, <2>3, <2>6 DEF OneHandle
    <2> QED BY <2>5, <2>7
  <1> QED BY <1>1, <1>2, <1>3, <1>4, KeptStep

\* However many requests rotate a session at once, a login has one stored
\* session at most.
THEOREM OneHandlePerLogin == Spec => []OneHandle
  <1>1. LoginInv => OneHandle  BY DEF LoginInv
  <1> QED BY <1>1, LoginInit, LoginStep, PTL DEF Spec

-----------------------------------------------------------------------------
(* The index of a principal is complete unless a key was added between the *)
(* two commands of a revocation, which has read every stored session then. *)

PurgeCovers ==
    \A h \in Handles :
        st[h] = "stored" /\ purging[own[h]] = 1 => h \in purge[own[h]] \/ raced[own[h]] = 1

IndexInv == TypeOK /\ IndexedUnlessRaced /\ PurgeCovers

LEMMA IndexInit == Init => IndexInv
  <1> SUFFICES ASSUME Init PROVE IndexInv  OBVIOUS
  <1>1. IndexedUnlessRaced /\ PurgeCovers  BY DEF Init, IndexedUnlessRaced, PurgeCovers
  <1> QED BY <1>1, InitTypes DEF IndexInv

LEMMA IndexStep == IndexInv /\ [Next]_vars => IndexInv'
  <1> SUFFICES ASSUME IndexInv, [Next]_vars PROVE IndexedUnlessRaced' /\ PurgeCovers'
    BY TypeStep DEF IndexInv
  <1> DEFINE Goal == IndexedUnlessRaced' /\ PurgeCovers'
  <1> USE DEF IndexInv, TypeOK, SessionTypes, StoreTypes, RequestTypes
  <1>1. ASSUME UNCHANGED <<st, own, index, purge, purging, raced>> PROVE Goal
    BY <1>1 DEF IndexedUnlessRaced, PurgeCovers
  <1>2. ASSUME NEW h \in Handles, NEW p \in Principals, CreateSession(h, p) PROVE Goal
    <2>1. /\ st' = [st EXCEPT ![h] = "stored"]
          /\ own' = [own EXCEPT ![h] = p]
          /\ index' = [index EXCEPT ![p] = @ \cup {h}]
          /\ purge' = purge /\ purging' = purging
          /\ raced' = [raced EXCEPT ![p] = IF purging[p] = 1 THEN 1 ELSE @]
      BY <1>2 DEF CreateSession, Race
    <2>2. \A q \in Principals : index[q] \subseteq index'[q] /\ (raced[q] = 1 => raced'[q] = 1)
      BY <2>1
    <2>3. h \in index'[own'[h]] /\ (purging[p] = 1 => raced'[p] = 1) /\ own'[h] = p  BY <2>1
    <2>4. \A k \in Handles : k # h => st'[k] = st[k] /\ own'[k] = own[k] /\ own[k] \in Principals
      BY <2>1
    <2>5. IndexedUnlessRaced'  BY <2>2, <2>3, <2>4 DEF IndexedUnlessRaced
    <2>6. PurgeCovers'  BY <2>1, <2>2, <2>3, <2>4 DEF PurgeCovers
    <2> QED BY <2>5, <2>6
  <1>3. ASSUME NEW r \in Requests, NEW h2 \in Handles, Rotate(r, h2) PROVE Goal
    <2> DEFINE p == own[hd[r]]
    <2>0. hd[r] \in Handles /\ p \in Principals /\ h2 # hd[r]  BY <1>3 DEF Rotate, Fresh
    <2>1. /\ st' = [st EXCEPT ![hd[r]] = "gone", ![h2] = "stored"]
          /\ own' = [own EXCEPT ![h2] = p]
          /\ index' = [index EXCEPT ![p] = (@ \ {hd[r]}) \cup {h2}]
          /\ purge' = purge /\ purging' = purging
          /\ raced' = [raced EXCEPT ![p] = IF purging[p] = 1 THEN 1 ELSE @]
      BY <1>3 DEF Rotate, Replace, Race
    <2> HIDE DEF p
    <2>2. \A q \in Principals : /\ index[q] \ {hd[r]} \subseteq index'[q]
                                /\ raced[q] = 1 => raced'[q] = 1
      BY <2>0, <2>1
    <2>3. h2 \in index'[p] /\ (purging[p] = 1 => raced'[p] = 1) /\ own'[h2] = p  BY <2>0, <2>1
    <2>4. \A k \in Handles : k # h2 => own'[k] = own[k] /\ own[k] \in Principals
      BY <2>0, <2>1
    <2>5. \A k \in Handles : k # h2 /\ st'[k] = "stored" => st[k] = "stored" /\ k # hd[r]
      BY <2>0, <2>1
    <2>6. IndexedUnlessRaced'  BY <2>2, <2>3, <2>4, <2>5 DEF IndexedUnlessRaced
    <2>7. PurgeCovers'  BY <2>1, <2>2, <2>3, <2>4, <2>5 DEF PurgeCovers
    <2> QED BY <2>6, <2>7
  <1>4. ASSUME NEW r \in Requests, RevokeDelete(r) PROVE Goal
    <2>1. /\ hd[r] \in Handles /\ own[hd[r]] \in Principals
          /\ st' = [st EXCEPT ![hd[r]] = "gone"]
          /\ index' = [index EXCEPT ![own[hd[r]]] = @ \ {hd[r]}]
          /\ UNCHANGED <<own, purge, purging, raced>>
      BY <1>4 DEF RevokeDelete, sessionVars, purgeVars
    <2>2. \A k \in Handles : st'[k] = "stored" => st[k] = "stored" /\ k # hd[r]  BY <2>1
    <2>3. \A q \in Principals : index[q] \ {hd[r]} \subseteq index'[q]  BY <2>1
    <2> QED BY <2>1, <2>2, <2>3 DEF IndexedUnlessRaced, PurgeCovers
  <1>5. ASSUME NEW p \in Principals, PurgeRead(p) PROVE Goal
    <2>1. /\ purge' = [purge EXCEPT ![p] = index[p]]
          /\ purging' = [purging EXCEPT ![p] = 1]
          /\ UNCHANGED <<st, own, index, raced>>
      BY <1>5 DEF PurgeRead, sessionVars
    <2>2. IndexedUnlessRaced'  BY <2>1 DEF IndexedUnlessRaced
    <2>3. PurgeCovers'  BY <2>1 DEF IndexedUnlessRaced, PurgeCovers
    <2> QED BY <2>2, <2>3
  <1>6. ASSUME NEW p \in Principals, PurgeDelete(p) PROVE Goal
    <2>1. /\ purging[p] = 1
          /\ st' = [h \in Handles |-> IF h \in purge[p] THEN "gone" ELSE st[h]]
          /\ index' = [index EXCEPT ![p] = {}]
          /\ purging' = [purging EXCEPT ![p] = 0]
          /\ purge' = [purge EXCEPT ![p] = {}]
          /\ UNCHANGED <<own, raced>>
      BY <1>6 DEF PurgeDelete, sessionVars
    <2>2. \A k \in Handles : st'[k] = "stored" => st[k] = "stored" /\ k \notin purge[p]
      BY <2>1
    <2>3. \A k \in Handles : st'[k] = "stored" /\ own[k] = p => raced[p] = 1
      BY <2>1, <2>2 DEF PurgeCovers
    <2>4. \A q \in Principals : q # p => index'[q] = index[q] /\ purge'[q] = purge[q] /\ purging'[q] = purging[q]
      BY <2>1
    <2>5. IndexedUnlessRaced'  BY <2>1, <2>2, <2>3, <2>4 DEF IndexedUnlessRaced
    <2>6. PurgeCovers'  BY <2>1, <2>2, <2>3, <2>4 DEF PurgeCovers
    <2> QED BY <2>5, <2>6
  <1>7. ASSUME NEW p \in Principals, ExpireIndex(p) PROVE Goal
    <2>1. /\ \A h \in index[p] : st[h] = "gone"
          /\ index' = [index EXCEPT ![p] = {}]
          /\ UNCHANGED <<st, own, purge, purging, raced>>
      BY <1>7 DEF ExpireIndex, sessionVars, purgeVars
    <2>2. PurgeCovers'  BY <2>1 DEF PurgeCovers
    <2>3. \A q \in Principals : q # p => index'[q] = index[q]  BY <2>1
    <2>4. IndexedUnlessRaced'  BY <2>1, <2>3 DEF IndexedUnlessRaced
    <2> QED BY <2>2, <2>4
  <1>8. ASSUME NEW h \in Handles, ExpireSession(h) PROVE Goal
    <2>1. /\ st' = [st EXCEPT ![h] = "gone"]
          /\ UNCHANGED <<own, index, purge, purging, raced>>
      BY <1>8 DEF ExpireSession, sessionVars, purgeVars
    <2>2. \A k \in Handles : st'[k] = "stored" => st[k] = "stored"  BY <2>1
    <2> QED BY <2>1, <2>2 DEF IndexedUnlessRaced, PurgeCovers
  <1>9. ASSUME NEW p \in Principals, SetActive(p) PROVE Goal
    BY <1>1, <1>9 DEF SetActive, sessionVars, purgeVars
  <1>10. ASSUME NEW r \in Requests, NEW h \in Handles, NEW o \in Op, Get(r, h, o) PROVE Goal
    BY <1>1, <1>10 DEF Get, sessionVars, purgeVars
  <1>11. ASSUME NEW r \in Requests,
                Validate(r) \/ TouchRead(r) \/ RotateRefused(r) \/ RevokeRead(r) \/ TouchWrite(r)
         PROVE Goal
    BY <1>1, <1>11 DEF Validate, TouchRead, RotateRefused, RevokeRead, TouchWrite, sessionVars, purgeVars
  <1>12. ASSUME Tick \/ UNCHANGED vars PROVE Goal
    BY <1>1, <1>12 DEF Tick, vars, sessionVars, purgeVars
  <1> HIDE DEF Goal
  <1>13. Goal
    BY <1>2, <1>3, <1>4, <1>5, <1>6, <1>7, <1>8, <1>9, <1>10, <1>11, <1>12 DEF Next, RequestStep
  <1> QED BY <1>13 DEF Goal

\* revoke_principal misses a session only if it was added between the two
\* commands of an earlier revocation of the same principal.
THEOREM IndexCompleteUnlessRaced == Spec => []IndexedUnlessRaced
  <1>1. IndexInv => IndexedUnlessRaced  BY DEF IndexInv
  <1> QED BY <1>1, IndexInit, IndexStep, PTL DEF Spec

-----------------------------------------------------------------------------
(* The idle period of a session that exists.                               *)

IdleGrows == \A h \in Handles : st[h] # "free" => idle'[h] >= idle[h]

LEMMA IdleStep == TypeOK /\ [Next]_vars => IdleGrows
  <1> SUFFICES ASSUME TypeOK, [Next]_vars PROVE IdleGrows  OBVIOUS
  <1> USE DEF TypeOK, SessionTypes, RequestTypes
  <1>1. ASSUME UNCHANGED idle PROVE IdleGrows  BY <1>1 DEF IdleGrows
  <1>2. ASSUME NEW h \in Handles, NEW p \in Principals, CreateSession(h, p) PROVE IdleGrows
    <2>1. \A k \in Handles : st[k] # "free" => idle'[k] = idle[k]
      BY <1>2 DEF CreateSession, Fresh
    <2> QED BY <2>1 DEF IdleGrows
  <1>3. ASSUME NEW r \in Requests, NEW h2 \in Handles, Rotate(r, h2) PROVE IdleGrows
    <2>1. st[h2] = "free" /\ idle' = [idle EXCEPT ![h2] = copy[r]]
      BY <1>3 DEF Rotate, Replace, Fresh
    <2>2. \A k \in Handles : st[k] # "free" => idle'[k] = idle[k]  BY <2>1
    <2> QED BY <2>2 DEF IdleGrows
  <1>4. ASSUME NEW r \in Requests, TouchWrite(r) PROVE IdleGrows
    <2>1. Candidate(r) \in Nat  BY DEF Candidate, Least
    <2>2. \/ idle' = idle
          \/ ~Stale(r) /\ idle' = [idle EXCEPT ![hd[r]] = Candidate(r)]
      BY <1>4 DEF TouchWrite
    <2>3. hd[r] \in Handles /\ idle[hd[r]] \in Nat  OBVIOUS
    <2>4. ~Stale(r) => Candidate(r) >= idle[hd[r]]  BY <2>1, <2>3 DEF Stale
    <2> QED BY <2>1, <2>2, <2>3, <2>4 DEF IdleGrows
  <1>5. ASSUME NEW r \in Requests, NEW h \in Handles, NEW o \in Op, Get(r, h, o) PROVE UNCHANGED idle
    BY <1>5 DEF Get, sessionVars
  <1>6. ASSUME NEW r \in Requests,
               Validate(r) \/ TouchRead(r) \/ RotateRefused(r) \/ RevokeRead(r) \/ RevokeDelete(r)
        PROVE UNCHANGED idle
    BY <1>6 DEF Validate, TouchRead, RotateRefused, RevokeRead, RevokeDelete, sessionVars
  <1>7. ASSUME NEW p \in Principals, PurgeRead(p) \/ PurgeDelete(p) \/ ExpireIndex(p) \/ SetActive(p)
        PROVE UNCHANGED idle
    BY <1>7 DEF PurgeRead, PurgeDelete, ExpireIndex, SetActive, sessionVars
  <1>8. ASSUME NEW h \in Handles, ExpireSession(h) PROVE UNCHANGED idle
    BY <1>8 DEF ExpireSession, sessionVars
  <1>9. ASSUME Tick \/ UNCHANGED vars PROVE UNCHANGED idle
    BY <1>9 DEF Tick, vars, sessionVars
  <1> QED BY <1>1, <1>2, <1>3, <1>4, <1>5, <1>6, <1>7, <1>8, <1>9 DEF Next, RequestStep

\* Whatever the order in which concurrent touches arrive, the idle period of
\* a session never becomes shorter.
THEOREM IdleIsMonotone == Spec => IdleNeverShrinks
  <1>1. TypeOK /\ [Next]_vars => [\A h \in Handles : st[h] # "free" => idle'[h] >= idle[h]]_vars
    BY IdleStep DEF IdleGrows
  <1> QED BY <1>1, TypeCorrect, PTL DEF Spec, IdleNeverShrinks

\* For any number of principals, handles and concurrent requests, a login has
\* one stored session at most and the principal's index names it, but for the
\* race of revoke_principal.
THEOREM StoreStaysSound == Spec => []StoreSound
  <1>1. TypeOK /\ OneHandle /\ IndexedUnlessRaced => StoreSound  BY DEF StoreSound
  <1> QED BY <1>1, TypeCorrect, OneHandlePerLogin, IndexCompleteUnlessRaced, PTL

-----------------------------------------------------------------------------
(* The lifetime of a login.                                                *)

\* The absolute lifetime is that of the login; nothing that extends a session reaches beyond.
EndsInTime == \A h \in Handles : st[h] # "free" => abs[h] = born[h] + AbsoluteTTL /\ idle[h] <= abs[h]

\* Nor does what a request carries over to the next handle.
CopyInTime == \A r \in Requests : pc[r] \in {"validate", "rotate"} => copy[r] <= abs[hd[r]]

LifetimeInv == EndsInTime /\ CopyInTime

LEMMA LifetimeInit == Init => LifetimeInv
  BY DEF Init, LifetimeInv, EndsInTime, CopyInTime

\* A request goes on with what it has read.
LEMMA CopyStep ==
    ASSUME TypeOK, LifetimeInv, [Next]_vars, TypeOK', NEW r \in Requests,
           pc'[r] \in {"validate", "rotate"}
    PROVE  /\ copy'[r] <= abs[hd'[r]]
           /\ hd'[r] \in Handles /\ st[hd'[r]] # "free"
  <1> USE DEF TypeOK, SessionTypes, RequestTypes
  <1>1. CASE UNCHANGED requestVars  BY <1>1 DEF LifetimeInv, CopyInTime, requestVars
  <1>2. ASSUME NEW q \in Requests, NEW h \in Handles, NEW o \in Op, Get(q, h, o)
        PROVE  copy'[r] <= abs[hd'[r]] /\ st[hd'[r]] # "free"
    BY <1>2 DEF Get, LifetimeInv, CopyInTime, EndsInTime
  <1>3. ASSUME NEW q \in Requests, Validate(q)
        PROVE  copy'[r] <= abs[hd'[r]] /\ st[hd'[r]] # "free"
    <2>1. hd' = hd /\ (r # q => UNCHANGED <<pc[r], copy[r]>>)  BY <1>3 DEF Validate, Go
    <2>2. r = q => pc[r] = "validate" /\ copy'[r] = copy[r]  BY <1>3 DEF Validate, Go
    <2> QED BY <2>1, <2>2 DEF LifetimeInv, CopyInTime
  <1>4. ASSUME NEW q \in Requests,
               \/ TouchRead(q) \/ TouchWrite(q) \/ RotateRefused(q) \/ RevokeRead(q) \/ RevokeDelete(q)
               \/ \E h2 \in Handles : Rotate(q, h2)
        PROVE  copy'[r] <= abs[hd'[r]] /\ st[hd'[r]] # "free"
    <2>1. r # q /\ UNCHANGED <<pc[r], copy[r], hd[r]>>
      BY <1>4 DEF TouchRead, TouchWrite, RotateRefused, RevokeRead, RevokeDelete, Rotate, Go, End
    <2> QED BY <2>1 DEF LifetimeInv, CopyInTime
  <1>5. \/ UNCHANGED requestVars
        \/ \E q \in Requests, h \in Handles, o \in Op : Get(q, h, o)
        \/ \E q \in Requests : RequestStep(q)
    BY DEF Next, vars, CreateSession, PurgeRead, PurgeDelete, ExpireIndex, SetActive, ExpireSession,
           Tick, requestVars
  <1> QED BY <1>1, <1>2, <1>3, <1>4, <1>5 DEF RequestStep

LEMMA LifetimeStep ==
    ASSUME IdleTTL <= AbsoluteTTL, TypeOK, KeysExist, LifetimeInv, [Next]_vars, TypeOK'
    PROVE  LifetimeInv'
  <1> USE SessionAssumption DEF TypeOK, SessionTypes, StoreTypes, RequestTypes
  <1>1. ASSUME \A h \in Handles : st[h] # "free" => abs'[h] = abs[h], EndsInTime' PROVE LifetimeInv'
    BY <1>1, CopyStep DEF LifetimeInv, CopyInTime
  <1>2. ASSUME NEW h \in Handles, NEW p \in Principals, CreateSession(h, p) PROVE LifetimeInv'
    <2>1. EndsInTime'  BY <1>2 DEF CreateSession, Fresh, EndsInTime, LifetimeInv
    <2> QED BY <1>1, <1>2, <2>1 DEF CreateSession, Fresh
  <1>3. ASSUME NEW r \in Requests, NEW h2 \in Handles, Rotate(r, h2) PROVE LifetimeInv'
    <2>1. /\ st[h2] = "free" /\ st[hd[r]] = "stored" /\ pc[r] = "rotate"
          /\ \A k \in Handles \ {h2} : abs'[k] = abs[k] /\ idle'[k] = idle[k] /\ born'[k] = born[k]
          /\ \A k \in Handles \ {h2} : st'[k] # "free" => st[k] # "free"
          /\ idle'[h2] = copy[r] /\ abs'[h2] = abs[hd[r]] /\ born'[h2] = born[hd[r]]
      BY <1>3 DEF Rotate, Replace, Fresh
    <2>2. copy[r] <= abs[hd[r]] /\ abs[hd[r]] = born[hd[r]] + AbsoluteTTL
      BY <2>1 DEF EndsInTime, CopyInTime, LifetimeInv
    <2>3. EndsInTime'
      <3> SUFFICES ASSUME NEW k \in Handles, st'[k] # "free"
                   PROVE  abs'[k] = born'[k] + AbsoluteTTL /\ idle'[k] <= abs'[k]
        BY DEF EndsInTime
      <3>1. CASE k = h2  BY <2>1, <2>2, <3>1
      <3>2. CASE k # h2  BY <2>1, <3>2 DEF EndsInTime, LifetimeInv
      <3> QED BY <3>1, <3>2
    <2> QED BY <1>1, <2>1, <2>3
  <1>4. ASSUME NEW r \in Requests, TouchWrite(r) PROVE LifetimeInv'
    <2>1. Candidate(r) <= abs[hd[r]] /\ UNCHANGED <<st, abs, born>>
      BY <1>4 DEF Candidate, Least, TouchWrite
    <2>2. idle' = idle \/ idle' = [idle EXCEPT ![hd[r]] = Candidate(r)]
      BY <1>4 DEF TouchWrite
    <2>3. EndsInTime'  BY <2>1, <2>2 DEF LifetimeInv, EndsInTime
    <2> QED BY <1>1, <2>1, <2>3
  <1>5. CASE Kept /\ UNCHANGED <<abs, born, idle>>
    BY <1>1, <1>5 DEF Kept, EndsInTime, LifetimeInv
  <1>6. \/ \E h \in Handles, p \in Principals : CreateSession(h, p)
        \/ \E r \in Requests : TouchWrite(r) \/ \E h2 \in Handles : Rotate(r, h2)
        \/ UNCHANGED <<abs, born, idle>>
    BY DEF Next, RequestStep, vars, sessionVars, Get, Validate, TouchRead, RotateRefused, RevokeRead,
           RevokeDelete, PurgeRead, PurgeDelete, ExpireIndex, SetActive, ExpireSession, Tick
  <1> QED BY <1>2, <1>3, <1>4, <1>5, <1>6, KeptStep

\* If the idle period is configured no longer than the absolute lifetime, no sequence of
\* concurrent touches and rotations keeps a login alive beyond it.
THEOREM LifetimeStaysBounded == IdleTTL <= AbsoluteTTL => (Spec => []LifetimeIsBounded)
  <1> SUFFICES ASSUME IdleTTL <= AbsoluteTTL PROVE Spec => []LifetimeIsBounded  OBVIOUS
  <1>1. TypeOK /\ LifetimeInv => LifetimeIsBounded
    BY SessionAssumption DEF LifetimeInv, EndsInTime, LifetimeIsBounded, TypeOK, SessionTypes
  <1>2. LoginInv /\ LifetimeInv /\ [Next]_vars => LifetimeInv'
    BY LoginStep, LifetimeStep DEF LoginInv
  <1> QED BY <1>1, <1>2, LifetimeInit, LoginInit, LoginStep, PTL DEF Spec, LoginInv

-----------------------------------------------------------------------------
(* Logins: the callbacks that consume their transactions.                  *)

\* A callback that can still create a session
MayCreate(c) == at[c] \in {"consumed", "exchange", "verify", "authority", "create"}

\* Where a callback's cookie has been found to belong to its state, and its token as well
CookieChecked == {"exchange", "verify", "authority", "create", "cleanup", "done"}
TokenChecked == {"authority", "create", "cleanup", "done"}

\* What a callback was sent is known from its first step on; what it checked holds ever after.
InputInv ==
    \A c \in Requests :
        /\ at[c] # "none" => state[c] \in Logins /\ browser[c] \in Logins
        /\ at[c] \in CookieChecked => browser[c] = state[c]
        /\ at[c] \in TokenChecked => code[c] = state[c]

\* The callback that consumed a login's transaction is the only one that can create its session.
ConsumerInv ==
    /\ \A c, d \in Requests : MayCreate(c) /\ MayCreate(d) /\ state[c] = state[d] => c = d
    /\ \A c \in Requests : MayCreate(c) => txn[state[c]] = "gone" /\ sessions[state[c]] = 0

\* A login whose transaction has not been consumed has no session.
SessionInv == \A l \in Logins : (txn[l] # "gone" => sessions[l] = 0) /\ sessions[l] <= 1

\* The inductive invariant
CallbackInv == Login!TypeOK /\ InputInv /\ ConsumerInv /\ SessionInv

LEMMA CallbackInit == Login!Init => CallbackInv
  BY LoginAssumption DEF Login!Init, CallbackInv, InputInv, ConsumerInv, SessionInv, CookieChecked, TokenChecked,
         Login!TypeOK, MayCreate, Login!PC, Login!NotYet

LEMMA CallbackTypes == Login!TypeOK /\ [Login!Next]_Login!vars => Login!TypeOK'
  <1> SUFFICES ASSUME Login!TypeOK, [Login!Next]_Login!vars PROVE Login!TypeOK'  OBVIOUS
  <1> USE LoginAssumption DEF Login!TypeOK, Login!PC, Login!Goto, Login!Mark, Login!Count,
          Login!storeVars, Login!inputVars
  <1>1. ASSUME NEW l \in Logins, Login!StartLogin(l) PROVE Login!TypeOK'
    BY <1>1 DEF Login!StartLogin
  <1>2. ASSUME NEW l \in Logins, Login!StoreTransaction(l) PROVE Login!TypeOK'
    BY <1>2 DEF Login!StoreTransaction
  <1>3. ASSUME NEW l \in Logins, Login!StartFails(l) PROVE Login!TypeOK'
    BY <1>3 DEF Login!StartFails
  <1>4. ASSUME NEW l \in Logins, Login!ExpireTransaction(l) PROVE Login!TypeOK'
    BY <1>4 DEF Login!ExpireTransaction
  <1>5. ASSUME NEW l \in Logins, Login!ExpireMark(l) PROVE Login!TypeOK'
    BY <1>5 DEF Login!ExpireMark
  <1>6. ASSUME NEW c \in Requests, Login!Consume(c) PROVE Login!TypeOK'
    BY <1>6 DEF Login!Consume
  <1>7. ASSUME NEW c \in Requests, Login!CheckTransaction(c) PROVE Login!TypeOK'
    BY <1>7 DEF Login!CheckTransaction
  <1>8. ASSUME NEW c \in Requests, Login!RefuseCallback(c) PROVE Login!TypeOK'
    BY <1>8 DEF Login!RefuseCallback, Login!ClearBinding
  <1>9. ASSUME NEW c \in Requests, Login!ExchangeCode(c) PROVE Login!TypeOK'
    BY <1>9 DEF Login!ExchangeCode
  <1>10. ASSUME NEW c \in Requests, Login!LoginFails(c) PROVE Login!TypeOK'
    BY <1>10 DEF Login!LoginFails
  <1>11. ASSUME NEW c \in Requests, Login!VerifyToken(c) PROVE Login!TypeOK'
    BY <1>11 DEF Login!VerifyToken
  <1>12. ASSUME NEW c \in Requests, Login!Authority(c) PROVE Login!TypeOK'
    BY <1>12 DEF Login!Authority
  <1>13. ASSUME NEW c \in Requests, Login!CreateSession(c) PROVE Login!TypeOK'
    <2>1. sessions' \in [Logins -> Nat]
      <3>1. CASE state[c] \in Logins  BY <1>13, <3>1 DEF Login!CreateSession
      <3>2. CASE state[c] \notin Logins  BY <1>13, <3>2 DEF Login!CreateSession
      <3> QED BY <3>1, <3>2
    <2>2. at' \in [Requests -> Login!PC]  BY <1>13 DEF Login!CreateSession
    <2> QED BY <1>13, <2>1, <2>2 DEF Login!CreateSession
  <1>14. ASSUME NEW c \in Requests, Login!FinishCallback(c) PROVE Login!TypeOK'
    BY <1>14 DEF Login!FinishCallback, Login!ClearBinding
  <1>15. ASSUME NEW c \in Requests, Login!Die(c) PROVE Login!TypeOK'  BY <1>15 DEF Login!Die
  <1>16. ASSUME NEW c \in Requests, NEW l \in Logins, NEW p \in Logins, NEW q \in Logins,
               Login!Callback(c, l, p, q)
        PROVE  Login!TypeOK'
    BY <1>16 DEF Login!Callback
  <1>17. CASE Login!StartRefused  BY <1>17 DEF Login!StartRefused
  <1>18. CASE Login!WindowEnds  BY <1>18 DEF Login!WindowEnds
  <1>19. CASE Login!Administer  BY <1>19 DEF Login!Administer
  <1>20. CASE Login!Tick  BY <1>20 DEF Login!Tick
  <1>21. CASE UNCHANGED Login!vars  BY <1>21 DEF Login!vars
  <1> QED
    BY <1>1, <1>2, <1>3, <1>4, <1>5, <1>6, <1>7, <1>8, <1>9, <1>10, <1>11, <1>12, <1>13, <1>14, <1>15, <1>16, <1>17, <1>18, <1>19, <1>20, <1>21
       DEF Login!Next, Login!CallbackStep

\* A step keeps the invariant if it creates no session, brings no transaction back, lets no
\* callback create a session that could not before, and passes no check that would fail.
LEMMA CallbackKept ==
    ASSUME CallbackInv, Login!TypeOK', UNCHANGED <<state, browser, code, sessions>>,
           \A l \in Logins : txn[l] = "gone" => txn'[l] = "gone",
           \A c \in Requests :
               /\ at'[c] # "none" => at[c] # "none"
               /\ at'[c] \in {"consumed", "exchange", "verify", "authority", "create"} => MayCreate(c)
               /\ at'[c] \in CookieChecked => browser[c] = state[c]
               /\ at'[c] \in TokenChecked => code[c] = state[c]
    PROVE  CallbackInv'
  <1>1. InputInv'  BY DEF CallbackInv, InputInv
  <1>2. \A c \in Requests : MayCreate(c)' => MayCreate(c) /\ state[c] \in Logins
    BY DEF MayCreate, CallbackInv, InputInv
  <1>3. ConsumerInv'  BY <1>2 DEF CallbackInv, ConsumerInv
  <1>4. SessionInv'  BY DEF CallbackInv, SessionInv
  <1> QED BY <1>1, <1>3, <1>4 DEF CallbackInv

\* Consumption is the step that lets a callback create its login's session.
LEMMA ConsumeKeeps ==
    ASSUME CallbackInv, Login!TypeOK', NEW r \in Requests, Login!Consume(r)
    PROVE  CallbackInv'
  <1> USE DEF Login!Consume, Login!Goto, Login!storeVars, Login!inputVars, Login!Mark
  <1>1. CASE mark[state[r]] = 1 \/ txn[state[r]] # "stored"
    <2>1. at' = [at EXCEPT ![r] = "failed"] \/ at' = [at EXCEPT ![r] = "refused"]  BY <1>1
    <2>2. UNCHANGED <<state, browser, code, sessions, txn>> /\ at[r] = "consume"  BY <1>1
    <2>3. \A c \in Requests : at'[c] = at[c] \/ (c = r /\ at'[c] \in {"failed", "refused"})
      BY <2>1 DEF CallbackInv, Login!TypeOK
    <2> QED
      BY <2>2, <2>3, CallbackKept DEF CallbackInv, InputInv, CookieChecked, TokenChecked, MayCreate
  <1>2. CASE ~(mark[state[r]] = 1 \/ txn[state[r]] # "stored")
    <2>1. /\ txn[state[r]] = "stored" /\ state[r] \in Logins /\ at[r] = "consume"
          /\ at' = [at EXCEPT ![r] = "consumed"] /\ txn' = [txn EXCEPT ![state[r]] = "gone"]
          /\ UNCHANGED <<state, browser, code, sessions>>
      BY <1>2 DEF CallbackInv, InputInv
    <2>2. at'[r] = "consumed" /\ \A c \in Requests \ {r} : at'[c] = at[c]
      BY <2>1 DEF CallbackInv, Login!TypeOK
    <2>3. txn'[state[r]] = "gone" /\ \A l \in Logins : l # state[r] => txn'[l] = txn[l]
      BY <2>1 DEF CallbackInv, Login!TypeOK
    <2>4. InputInv'  BY <2>1, <2>2 DEF CallbackInv, InputInv, CookieChecked, TokenChecked
    <2>5. \A c \in Requests : MayCreate(c)' => c = r \/ (MayCreate(c) /\ state[c] # state[r] /\ state[c] \in Logins)
      BY <2>1, <2>2 DEF CallbackInv, ConsumerInv, InputInv, MayCreate
    <2>6. sessions[state[r]] = 0  BY <2>1 DEF CallbackInv, SessionInv
    <2>7. ConsumerInv'  BY <2>1, <2>3, <2>5, <2>6 DEF CallbackInv, ConsumerInv
    <2>8. SessionInv'  BY <2>1, <2>3 DEF CallbackInv, SessionInv
    <2> QED BY <2>4, <2>7, <2>8 DEF CallbackInv
  <1> QED BY <1>1, <1>2

LEMMA CreationKeeps ==
    ASSUME CallbackInv, Login!TypeOK', NEW r \in Requests, Login!CreateSession(r)
    PROVE  CallbackInv'
  <1>1. /\ at[r] = "create" /\ state[r] \in Logins /\ at' = [at EXCEPT ![r] = "cleanup"]
        /\ sessions' = [sessions EXCEPT ![state[r]] = @ + 1]
        /\ UNCHANGED <<state, browser, code, txn>>
    BY DEF Login!CreateSession, Login!Goto, Login!storeVars, Login!inputVars, CallbackInv, InputInv
  <1>2. at'[r] = "cleanup" /\ \A c \in Requests \ {r} : at'[c] = at[c]
    BY <1>1 DEF CallbackInv, Login!TypeOK
  <1>3. MayCreate(r) /\ txn[state[r]] = "gone" /\ sessions[state[r]] = 0
    BY <1>1 DEF MayCreate, CallbackInv, ConsumerInv
  <1>4. sessions'[state[r]] = 1 /\ \A l \in Logins : l # state[r] => sessions'[l] = sessions[l]
    BY <1>1, <1>3 DEF CallbackInv, Login!TypeOK
  <1>5. InputInv'  BY <1>1, <1>2 DEF CallbackInv, InputInv, CookieChecked, TokenChecked
  <1>6. \A c \in Requests : MayCreate(c)' => MayCreate(c) /\ c # r /\ state[c] # state[r] /\ state[c] \in Logins
    BY <1>1, <1>2, <1>3 DEF CallbackInv, ConsumerInv, InputInv, MayCreate
  <1>7. ConsumerInv'  BY <1>1, <1>4, <1>6 DEF CallbackInv, ConsumerInv
  <1>8. SessionInv'  BY <1>1, <1>3, <1>4 DEF CallbackInv, SessionInv
  <1> QED BY <1>5, <1>7, <1>8 DEF CallbackInv

LEMMA ArrivalKeeps ==
    ASSUME CallbackInv, Login!TypeOK', NEW r \in Requests,
           NEW l \in Logins, NEW p \in Logins, NEW q \in Logins, Login!Callback(r, l, p, q)
    PROVE  CallbackInv'
  <1>1. /\ at' = [at EXCEPT ![r] = "consume"] /\ state' = [state EXCEPT ![r] = l]
        /\ browser' = [browser EXCEPT ![r] = p] /\ code' = [code EXCEPT ![r] = q]
        /\ UNCHANGED <<txn, sessions>>
    BY DEF Login!Callback, Login!Goto, Login!storeVars
  <1>2. at'[r] = "consume" /\ state'[r] = l /\ browser'[r] = p
    BY <1>1 DEF CallbackInv, Login!TypeOK
  <1>3. \A c \in Requests \ {r} : UNCHANGED <<at[c], state[c], browser[c], code[c]>>
    BY <1>1 DEF CallbackInv, Login!TypeOK
  <1>4. InputInv'  BY <1>2, <1>3 DEF CallbackInv, InputInv, CookieChecked, TokenChecked
  <1>5. \A c \in Requests : MayCreate(c)' => c # r /\ MayCreate(c) /\ state'[c] = state[c]
    BY <1>2, <1>3 DEF MayCreate
  <1>6. ConsumerInv'  BY <1>1, <1>5 DEF CallbackInv, ConsumerInv
  <1>7. SessionInv'  BY <1>1 DEF CallbackInv, SessionInv
  <1> QED BY <1>4, <1>6, <1>7 DEF CallbackInv

LEMMA OtherCallbackStepKeeps ==
    ASSUME CallbackInv, Login!TypeOK', NEW r \in Requests,
           \/ Login!CheckTransaction(r) \/ Login!RefuseCallback(r) \/ Login!ExchangeCode(r)
           \/ Login!LoginFails(r) \/ Login!VerifyToken(r) \/ Login!Authority(r)
           \/ Login!FinishCallback(r) \/ Login!Die(r)
    PROVE  CallbackInv'
  <1> DEFINE Goes(from, to) == at[r] \in from /\ \E where \in to : at' = [at EXCEPT ![r] = where]
  <1> USE DEF Login!Goto, Login!storeVars, Login!inputVars
  <1>1. ASSUME NEW from, NEW to, Goes(from, to)
        PROVE  /\ at[r] \in from /\ at'[r] \in to
               /\ \A c \in Requests \ {r} : at'[c] = at[c]
    BY <1>1 DEF CallbackInv, Login!TypeOK
  <1>2. UNCHANGED <<state, browser, code, sessions>> /\ \A l \in Logins : txn[l] = "gone" => txn'[l] = "gone"
    BY DEF Login!CheckTransaction, Login!RefuseCallback, Login!ExchangeCode, Login!LoginFails,
           Login!VerifyToken, Login!Authority, Login!FinishCallback, Login!Die, Login!ClearBinding,
           CallbackInv, Login!TypeOK
  <1> USE DEF CallbackInv, InputInv, CookieChecked, TokenChecked, MayCreate
  <1>3. CASE Login!CheckTransaction(r)
    <2>1. Goes({"consumed"}, {"failed", "exchange", "refused"})
      BY <1>3 DEF Login!CheckTransaction
    <2>2. at'[r] = "exchange" => browser[r] = state[r]
      BY <1>3 DEF Login!CheckTransaction, Login!Bound, Login!TypeOK
    <2> QED BY <1>1, <1>2, <2>1, <2>2, CallbackKept
  <1>4. CASE Login!RefuseCallback(r)
    <2>1. Goes({"refused"}, {"failed"})  BY <1>4 DEF Login!RefuseCallback
    <2> QED BY <1>1, <1>2, <2>1, CallbackKept
  <1>5. CASE Login!ExchangeCode(r)
    <2>1. Goes({"exchange"}, {"verify"})  BY <1>5 DEF Login!ExchangeCode
    <2> QED BY <1>1, <1>2, <2>1, CallbackKept
  <1>6. CASE Login!LoginFails(r)
    <2>1. Goes({"exchange", "verify", "authority"}, {"clear"})  BY <1>6 DEF Login!LoginFails
    <2> QED BY <1>1, <1>2, <2>1, CallbackKept
  <1>7. CASE Login!VerifyToken(r)
    <2>1. Goes({"verify"}, {"authority"}) /\ code[r] = state[r]
      BY <1>7 DEF Login!VerifyToken, Login!NonceMatches
    <2> QED BY <1>1, <1>2, <2>1, CallbackKept
  <1>8. CASE Login!Authority(r)
    <2>1. Goes({"authority"}, {"create", "clear"})  BY <1>8 DEF Login!Authority
    <2> QED BY <1>1, <1>2, <2>1, CallbackKept
  <1>9. CASE Login!FinishCallback(r)
    <2>1. CASE Goes({"clear"}, {"failed"})  BY <1>1, <1>2, <2>1, CallbackKept
    <2>2. CASE Goes({"cleanup"}, {"done"})  BY <1>1, <1>2, <2>2, CallbackKept
    <2> QED BY <1>9, <2>1, <2>2 DEF Login!FinishCallback
  <1>10. CASE Login!Die(r)
    <2>1. Goes(Login!PC \ {"none"}, {"dead"})  BY <1>10 DEF Login!Die, Login!TypeOK
    <2> QED BY <1>1, <1>2, <2>1, CallbackKept
  <1> QED BY <1>3, <1>4, <1>5, <1>6, <1>7, <1>8, <1>9, <1>10

\* Nothing the store, the clock or an administrator does touches a callback.
LEMMA EnvironmentKeeps ==
    ASSUME CallbackInv, Login!TypeOK',
           \/ \E l \in Logins : \/ Login!StartLogin(l) \/ Login!StoreTransaction(l) \/ Login!StartFails(l)
                                \/ Login!ExpireTransaction(l) \/ Login!ExpireMark(l)
           \/ Login!StartRefused \/ Login!WindowEnds \/ Login!Administer \/ Login!Tick
           \/ UNCHANGED Login!vars
    PROVE  CallbackInv'
  <1>1. /\ UNCHANGED <<at, state, browser, code, sessions>>
        /\ \A l \in Logins : txn[l] = "gone" => txn'[l] = "gone"
    BY DEF Login!StartLogin, Login!StoreTransaction, Login!StartFails, Login!ExpireTransaction,
           Login!ExpireMark, Login!StartRefused, Login!WindowEnds, Login!Administer, Login!Tick,
           Login!vars, Login!storeVars, Login!inputVars, CallbackInv, Login!TypeOK
  <1> QED BY <1>1, CallbackKept DEF CallbackInv, InputInv, MayCreate

LEMMA CallbackStep == CallbackInv /\ [Login!Next]_Login!vars => CallbackInv'
  BY CallbackTypes, ConsumeKeeps, CreationKeeps, ArrivalKeeps, OtherCallbackStepKeeps, EnvironmentKeeps
     DEF Login!Next, Login!CallbackStep, CallbackInv

LEMMA CallbackSuffices == CallbackInv => Login!LoginSound /\ Login!OneSessionPerLogin
  BY DEF CallbackInv, InputInv, SessionInv, CookieChecked, TokenChecked, Login!LoginSound,
         Login!SessionIsBound, Login!OneSessionPerLogin, Login!Bound

\* However callbacks are repeated, delayed, crossed between browsers or cut off by a crash, and
\* whatever keys expire: a login gives one session at most, to the browser that began it.
THEOREM LoginsStaySound == Login!Spec => [](Login!LoginSound /\ Login!OneSessionPerLogin)
  BY CallbackInit, CallbackStep, CallbackSuffices, PTL DEF Login!Spec

-----------------------------------------------------------------------------
(* Sessions and logins side by side, as the run explores them.             *)

SharedInv == LoginInv /\ LifetimeInv /\ (scene = "login" => CallbackInv)

LEMMA SharedStep ==
    ASSUME IdleTTL <= AbsoluteTTL, SharedInv, [MCNext]_allVars
    PROVE  SharedInv'
  <1>1. /\ [Next]_vars
        /\ scene' = scene
        /\ scene = "login" => [Login!Next]_Login!vars
    BY DEF MCNext, SessionNext, LoginNext, allVars, loginVars, Login!vars
  <1>2. LoginInv' /\ LifetimeInv'  BY <1>1, LoginStep, LifetimeStep DEF SharedInv, LoginInv
  <1>3. scene' = "login" => CallbackInv'  BY <1>1, CallbackStep DEF SharedInv
  <1> QED BY <1>2, <1>3 DEF SharedInv

\* If the idle period is configured no longer than the absolute lifetime: a session belongs to
\* the browser that began its login, which gives one session at most, and ends with its
\* absolute lifetime.
THEOREM SessionsStaySound == IdleTTL <= AbsoluteTTL => (MCSpec => []SessionsSound)
  <1> SUFFICES ASSUME IdleTTL <= AbsoluteTTL PROVE MCSpec => []SessionsSound  OBVIOUS
  <1>1. MCInit => SharedInv  BY LoginInit, LifetimeInit, CallbackInit DEF MCInit, SharedInv
  <1>2. SharedInv /\ [MCNext]_allVars => SharedInv'  BY SharedStep
  <1>3. SharedInv => SessionsSound
    BY SessionAssumption, CallbackSuffices
       DEF SharedInv, SessionsSound, LoginInv, LifetimeInv, EndsInTime, LifetimeIsBounded, TypeOK, SessionTypes
  <1> QED BY <1>1, <1>2, <1>3, PTL DEF MCSpec

-----------------------------------------------------------------------------
(* The container: singletons and the tasks that own them.                  *)

\* One task at a time initializes a key; it is the flight that others join, and its result is
\* open until it has published or failed.
InitializerInv ==
    \A i \in Container!Inst :
        /\ stage[i] = "init" => flight[key[i]] = i /\ cur[key[i]] = 0
        /\ stage[i] \in {"free", "init"} <=> res[i] = "pending"
        /\ stage[i] = "published" => res[i] = "value"

\* The path of a task ends with its key, and what it retains has been published.
TaskInv ==
    \A i \in Container!Inst :
        /\ stage[i] # "free" => Len(path[i]) > 0 /\ path[i][Len(path[i])] = key[i]
        /\ stage[i] = "free" => deps[i] = {}
        /\ \A j \in deps[i] : stage[j] \notin {"free", "init"}

\* Tasks wait only while they initialize, and everybody waits for a task that was started.
WaiterInv ==
    /\ \A x \in Container!Resolvers : wait[x] # 0 =>
         /\ stage[wait[x]] # "free"
         /\ x \in Container!Inst => stage[x] = "init"
    /\ \A k \in Keys : flight[k] # 0 => stage[flight[k]] # "free" /\ key[flight[k]] = k

\* The order of publication names each owner once, after everything it retains.
OrderInv ==
    /\ \A n \in 1..Len(order) :
         /\ cur[key[order[n]]] = order[n]
         /\ stage[order[n]] \in {"published", "final", "ended"}
    /\ \A n, m \in 1..Len(order) :
         /\ order[n] = order[m] => n = m
         /\ order[m] \in deps[order[n]] => m < n
    /\ \A i \in Container!Inst : stage[i] = "published" => \E n \in 1..Len(order) : order[n] = i

\* What close() and remove_owner_generation() have achieved at each of their awaits
PhaseInv ==
    /\ closed = 1 <=> cleanup # "none"
    /\ closed = 1 => removal \in {"none", "done"}
    /\ cleanup \in {"initializers", "published", "done"} =>
         \A i \in Container!Inst : stage[i] # "init"
    /\ cleanup = "published" =>
         \A i \in Container!Inst : stage[i] = "final" => \E n \in 1..Len(order) : order[n] = i
    /\ cleanup = "done" => \A i \in Container!Inst : stage[i] \in {"free", "ended"}
    /\ removal \in {"drain", "published"} => \A k \in Module : avail[k] = "inactive"
    /\ removal \in {"published", "done"} =>
         \A i \in Container!Inst : stage[i] = "init" => key[i] \notin Module \/ avail[key[i]] = "active"

\* A result that waits to be taken is that of the current owner, unless the owner was released
\* and its key cannot have got another one since.
AnswerInv ==
    \A x \in Container!Resolvers : wait[x] # 0 /\ res[wait[x]] = "value" =>
        \/ cur[key[wait[x]]] = wait[x]
        \/ /\ cur[key[wait[x]]] = 0
           /\ \/ closed = 1
              \/ /\ key[wait[x]] \in Module /\ avail[key[wait[x]]] # "active"
                 /\ removal \in {"published", "done"}

\* Who waits with edge e in its chain
Waiters(e) ==
    {x \in Container!Resolvers :
       \E i \in Container!Inst, k \in Keys : wait[x] = i /\ key[i] = k /\ e \in Container!Chain(x, k)}

\* Every nonempty set of keys has one that waits for none of them.
NoCircle == \A S \in SUBSET Keys : S # {} => \E k \in S : \A l \in S : waits[<<k, l>>] = 0

\* The wait graph counts the resolutions under way and has no circle.
GraphInv ==
    /\ cleanup # "done" => \A e \in Keys \X Keys : waits[e] = Cardinality(Waiters(e))
    /\ NoCircle

\* The inductive invariant
ContainerInv ==
    /\ Container!TypeOK
    /\ InitializerInv /\ TaskInv /\ WaiterInv
    /\ OrderInv /\ PhaseInv /\ AnswerInv
    /\ Container!ReleasedAfterDependents
    /\ GraphInv

\* The container's cardinalities are the usual ones.
LEMMA SameCardinality == \A S : Container!Cardinality(S) = Cardinality(S)
  BY DEF Container!Cardinality, Cardinality

\* The next owner to be closed is the last one of those at hand.
LEMMA LastIsNext ==
    ASSUME NEW last \in Nat, NEW S \in SUBSET (1..last), S # {}
    PROVE  Container!NextToClose(S) \in S /\ \A m \in S : m <= Container!NextToClose(S)
  <1> DEFINE T == {last - m : m \in S}
  <1>0. \A m \in S : m \in Nat /\ last - m \in Nat  OBVIOUS
  <1>1. T \subseteq Nat /\ T # {}  BY <1>0
  <1>2. \A m \in S : last - m \in T  OBVIOUS
  <1>3. \A t \in T : \E m \in S : t = last - m  OBVIOUS
  <1> HIDE DEF T
  <1>4. PICK t \in T : \A u \in T : ~ (<<u, t>> \in OpToRel(<, Nat))
    BY <1>1, NatLessThanWellFounded, WFMin
  <1>5. \A u \in T : ~ u < t  BY <1>1, <1>4 DEF OpToRel
  <1>6. PICK n \in S : t = last - n  BY <1>3
  <1>7. \A m \in S : m <= n  BY <1>2, <1>5, <1>6
  <1> QED BY <1>7 DEF Container!NextToClose

USE ContainerAssumption DEF Container!Inst, Container!Resolvers

LEMMA ContainerInit == Container!Init => ContainerInv
  <1> SUFFICES ASSUME Container!Init PROVE ContainerInv  OBVIOUS
  <1> USE DEF Container!Init
  <1>1. Container!TypeOK
    <2>1. key \in [Container!Inst -> Keys]  BY DEF Container!Inst
    <2>2. path \in [Container!Inst -> Seq(Keys)] /\ order \in Seq(Container!Inst)  OBVIOUS
    <2> QED BY <2>1, <2>2 DEF Container!TypeOK
  <1>2. InitializerInv /\ TaskInv /\ WaiterInv /\ AnswerInv
    BY DEF InitializerInv, TaskInv, WaiterInv, AnswerInv
  <1>3. OrderInv /\ PhaseInv  BY DEF OrderInv, PhaseInv
  <1>4. Container!ReleasedAfterDependents  BY DEF Container!ReleasedAfterDependents
  <1>5. \A e \in Keys \X Keys : waits[e] = Cardinality(Waiters(e))
    <2> SUFFICES ASSUME NEW e \in Keys \X Keys PROVE Waiters(e) = {} /\ waits[e] = 0
      BY FS_EmptySet
    <2> QED BY DEF Waiters
  <1> QED BY <1>1, <1>2, <1>3, <1>4, <1>5 DEF ContainerInv, GraphInv, NoCircle

\* What a resolution that is answered changes
LEMMA ReceiveFacts ==
    ASSUME Container!TypeOK, NEW x \in Container!Resolvers, NEW i \in Container!Inst, Container!Receive(x, i)
    PROVE  /\ UNCHANGED <<key, stage, res, path>>
           /\ todo' \in [Container!Inst -> SUBSET Keys] /\ deps' \in [Container!Inst -> SUBSET Container!Inst]
           /\ got' \in [Requests -> 0..MaxInst]
           /\ \A j \in Container!Inst : deps'[j] \subseteq deps[j] \cup {i} /\ (j # x => deps'[j] = deps[j])
  <1>1. CASE x \in Container!Inst
    <2>1. /\ UNCHANGED <<key, stage, res, path, got>>
          /\ todo' = [todo EXCEPT ![x] = @ \ {key[i]}] /\ deps' = [deps EXCEPT ![x] = @ \cup {i}]
      BY <1>1 DEF Container!Receive
    <2> QED BY <1>1, <2>1 DEF Container!TypeOK
  <1>2. CASE x \notin Container!Inst
    <2>1. UNCHANGED <<key, stage, res, todo, deps, path>> /\ got' = [got EXCEPT ![x] = i]
      BY <1>2 DEF Container!Receive, Container!instVars
    <2> QED BY <1>2, <2>1 DEF Container!TypeOK
  <1> QED BY <1>1, <1>2

LEMMA RaiseFacts ==
    ASSUME Container!TypeOK, NEW x \in Container!Resolvers, Container!Raise(x)
    PROVE  /\ UNCHANGED <<key, todo, deps, path, got>>
           /\ stage' \in [Container!Inst -> {"free", "init", "published", "final", "ended"}]
           /\ res' \in [Container!Inst -> {"pending", "value", "error"}]
           /\ \A j \in Container!Inst :
                IF j = x THEN stage'[j] = "final" /\ res'[j] = "error"
                         ELSE stage'[j] = stage[j] /\ res'[j] = res[j]
  <1>0. /\ stage \in [Container!Inst -> {"free", "init", "published", "final", "ended"}]
        /\ res \in [Container!Inst -> {"pending", "value", "error"}]
    BY DEF Container!TypeOK
  <1>1. UNCHANGED <<key, todo, deps, path, got>>  BY DEF Container!Raise, Container!instVars
  <1>2. CASE x \in Container!Inst
    <2>1. stage' = [stage EXCEPT ![x] = "final"] /\ res' = [res EXCEPT ![x] = "error"]
      BY <1>2 DEF Container!Raise
    <2> HIDE DEF Container!Inst
    <2> QED BY <1>0, <1>1, <1>2, <2>1
  <1>3. CASE x \notin Container!Inst
    <2>1. UNCHANGED <<stage, res>>  BY <1>3 DEF Container!Raise, Container!instVars
    <2> HIDE DEF Container!Inst
    <2> QED BY <1>0, <1>1, <1>3, <2>1
  <1> QED BY <1>2, <1>3

LEMMA ChainEdges ==
    ASSUME Container!TypeOK, NEW x \in Container!Resolvers, NEW k \in Keys
    PROVE  Container!Chain(x, k) \subseteq Keys \X Keys
  <1>1. Container!PathOf(x) \in Seq(Keys)  BY DEF Container!TypeOK, Container!PathOf
  <1>2. Append(Container!PathOf(x), k) \in Seq(Keys)  BY <1>1
  <1> DEFINE p == Append(Container!PathOf(x), k)
  <1>3. \A n \in 1..(Len(p) - 1) : p[n] \in Keys /\ p[n + 1] \in Keys  BY <1>2
  <1>4. \A e \in Container!Chain(x, k) : \E n \in 1..(Len(p) - 1) : e = <<p[n], p[n + 1]>>
    BY DEF Container!Chain
  <1> HIDE DEF p
  <1> QED BY <1>3, <1>4

LEMMA WaitTypes ==
    ASSUME Container!TypeOK, NEW x \in Container!Resolvers, NEW k \in Keys,
           Container!AddWaits(x, k) \/ Container!RemoveWaits(x, k)
    PROVE  waits' \in [Keys \X Keys -> Nat]
  <1>1. \A n, m \in Nat : Container!Less(n, m) \in Nat  BY DEF Container!Less
  <1>2. \A e \in Keys \X Keys : waits[e] \in Nat
                               /\ (IF e \in Container!Chain(x, k) THEN 1 ELSE 0) \in Nat
    BY DEF Container!TypeOK
  <1>3. CASE Container!AddWaits(x, k)  BY <1>2, <1>3 DEF Container!AddWaits
  <1>4. CASE Container!RemoveWaits(x, k)  BY <1>1, <1>2, <1>4 DEF Container!RemoveWaits
  <1> QED BY <1>3, <1>4

\* Taking an owner out of the order
LEMMA TakenOut ==
    ASSUME order \in Seq(Container!Inst), NEW n \in 1..Len(order),
           order' = [m \in 1..(Len(order) - 1) |-> IF m < n THEN order[m] ELSE order[m + 1]]
    PROVE  /\ order' \in Seq(Container!Inst) /\ Len(order') = Len(order) - 1
           /\ \A m \in 1..Len(order') : order'[m] = IF m < n THEN order[m] ELSE order[m + 1]
           /\ \A m \in 1..Len(order) : m # n => \E l \in 1..Len(order') : order'[l] = order[m]
  <1>1. order' \in [1..(Len(order) - 1) -> Container!Inst] /\ Len(order) - 1 \in Nat
    BY ElementOfSeq
  <1>2. order' \in Seq(Container!Inst) /\ Len(order') = Len(order) - 1
    <2>1. PICK l \in Nat : l = Len(order) - 1  BY <1>1
    <2>2. order' \in [1..l -> Container!Inst]  BY <1>1, <2>1
    <2> HIDE DEF Container!Inst
    <2>3. order' \in Seq(Container!Inst)  BY <2>2, IsASeq
    <2>4. DOMAIN order' = 1..Len(order') /\ Len(order') \in Nat /\ DOMAIN order' = 1..l
      BY <2>2, <2>3, LenProperties
    <2> QED BY <2>1, <2>3, <2>4
  <1>3. \A m \in 1..Len(order') : order'[m] = IF m < n THEN order[m] ELSE order[m + 1]
    BY <1>2
  <1>4. ASSUME NEW m \in 1..Len(order), m # n
        PROVE  \E l \in 1..Len(order') : order'[l] = order[m]
    <2>1. CASE m < n
      <3>1. m \in 1..Len(order') /\ order'[m] = order[m]  BY <1>1, <1>2, <1>3, <2>1
      <3> QED BY <3>1
    <2>2. CASE m > n
      <3>1. m - 1 \in 1..Len(order') /\ order'[m - 1] = order[m]  BY <1>1, <1>2, <1>3, <2>2
      <3> QED BY <3>1
    <2> QED BY <1>1, <1>4, <2>1, <2>2
  <1> QED BY <1>2, <1>3, <1>4


\* What close() and remove_owner_generation() take next
LEMMA NextIsListed ==
    ASSUME Container!TypeOK
    PROVE  /\ order # <<>> => Len(order) > 0 /\ Container!NextToClose(1..Len(order)) = Len(order)
           /\ Container!ModulePositions # {} =>
                /\ Container!NextToClose(Container!ModulePositions) \in 1..Len(order)
                /\ key[order[Container!NextToClose(Container!ModulePositions)]] \in Module
  <1>1. Len(order) \in Nat /\ (order # <<>> => Len(order) > 0)
    BY EmptySeq, LenProperties DEF Container!TypeOK
  <1>2. ASSUME order # <<>> PROVE Container!NextToClose(1..Len(order)) = Len(order)
    <2>0. Len(order) \in Nat /\ Len(order) > 0  BY <1>1, <1>2
    <2>1. Len(order) \in 1..Len(order)  BY <2>0
    <2>2. 1..Len(order) # {}  BY <2>1
    <2>3. /\ Container!NextToClose(1..Len(order)) \in 1..Len(order)
          /\ \A m \in 1..Len(order) : m <= Container!NextToClose(1..Len(order))
      BY <2>0, <2>2, LastIsNext
    <2> QED BY <2>0, <2>1, <2>3
  <1>3. ASSUME Container!ModulePositions # {}
        PROVE  /\ Container!NextToClose(Container!ModulePositions) \in 1..Len(order)
               /\ key[order[Container!NextToClose(Container!ModulePositions)]] \in Module
    <2>1. Container!ModulePositions \in SUBSET (1..Len(order))
      BY DEF Container!ModulePositions
    <2>2. Container!NextToClose(Container!ModulePositions) \in Container!ModulePositions
      BY <1>1, <1>3, <2>1, LastIsNext
    <2> QED BY <2>2 DEF Container!ModulePositions
  <1> QED BY <1>1, <1>2, <1>3

LEMMA CancelTypes ==
    ASSUME Container!TypeOK, Container!CancelInitializers PROVE waits' \in [Keys \X Keys -> Nat]
  <1> DEFINE I == {i \in Container!Inst : stage[i] = "init"}
             W == {i \in I : wait[i] # 0}
             Left(e) == {i \in W : e \in Container!Chain(i, key[wait[i]])}
  <1>1. waits' = [e \in Keys \X Keys |-> Container!Less(waits[e], Container!Cardinality(Left(e)))]
    BY DEF Container!CancelInitializers
  <1> HIDE DEF Left
  <1>2. ASSUME NEW e \in Keys \X Keys
        PROVE  Container!Less(waits[e], Container!Cardinality(Left(e))) \in Nat
    <2>1. IsFiniteSet(Container!Inst)  BY FS_Interval
    <2>2. Left(e) \in SUBSET Container!Inst  BY DEF Left
    <2>3. Cardinality(Left(e)) \in Nat  BY <2>1, <2>2, FS_Subset, FS_CardinalityType
    <2> QED BY <2>3, SameCardinality DEF Container!Less, Container!TypeOK
  <1> QED BY <1>1, <1>2

\* The types, if no task or value changes but by a resolution that raises or returns
LEMMA RaiseTypes ==
    ASSUME Container!TypeOK, NEW x \in Container!Resolvers, Container!Raise(x),
           UNCHANGED <<avail, closed, cleanup, removal, flight, cur, order>>,
           waits' \in [Keys \X Keys -> Nat], wait' \in [Container!Resolvers -> 0..MaxInst]
    PROVE  Container!TypeOK'
  <1>1. /\ UNCHANGED <<key, todo, deps, path, got>>
        /\ stage' \in [Container!Inst -> {"free", "init", "published", "final", "ended"}]
        /\ res' \in [Container!Inst -> {"pending", "value", "error"}]
    BY RaiseFacts
  <1>2. \A j \in Container!Inst : stage'[j] = "published" => stage[j] = "published"
    BY RaiseFacts
  <1> HIDE DEF Container!Inst, Container!Resolvers
  <1>3. \A j \in Container!Inst : stage'[j] = "published" => cur'[key'[j]] = j
    BY <1>1, <1>2 DEF Container!TypeOK
  <1> QED BY <1>1, <1>3 DEF Container!TypeOK

LEMMA ReceiveTypes ==
    ASSUME Container!TypeOK, NEW x \in Container!Resolvers, NEW i \in Container!Inst,
           Container!Receive(x, i),
           UNCHANGED <<avail, closed, cleanup, removal, flight, cur, order>>,
           waits' \in [Keys \X Keys -> Nat], wait' \in [Container!Resolvers -> 0..MaxInst]
    PROVE  Container!TypeOK'
  <1>1. /\ UNCHANGED <<key, stage, res, path>>
        /\ todo' \in [Container!Inst -> SUBSET Keys] /\ deps' \in [Container!Inst -> SUBSET Container!Inst]
        /\ got' \in [Requests -> 0..MaxInst]
    BY ReceiveFacts
  <1> HIDE DEF Container!Inst, Container!Resolvers
  <1>2. \A j \in Container!Inst : stage'[j] = "published" => cur'[key'[j]] = j
    BY <1>1 DEF Container!TypeOK
  <1> QED BY <1>1, <1>2 DEF Container!TypeOK

LEMMA ContainerTypes ==
    ASSUME ContainerInv, Container!Next PROVE Container!TypeOK'
  <1> USE DEF Container!TypeOK, Container!ctlVars, Container!graphVars, Container!instVars
  <1>0. Container!TypeOK /\ InitializerInv /\ OrderInv  BY DEF ContainerInv
  <1>1. ASSUME NEW x \in Container!Resolvers, NEW k \in Keys, Container!Refuse(x, k)
        PROVE  Container!TypeOK'
    <2>1. UNCHANGED <<avail, closed, cleanup, removal, waits, flight, cur, order, wait>>
      BY <1>1 DEF Container!Refuse
    <2>2. Container!Raise(x)  BY <1>1 DEF Container!Refuse
    <2>3. waits' \in [Keys \X Keys -> Nat] /\ wait' \in [Container!Resolvers -> 0..MaxInst]
      BY <1>0, <2>1
    <2> HIDE DEF Container!TypeOK
    <2> QED BY <1>0, <2>1, <2>2, <2>3, RaiseTypes
  <1>2. ASSUME NEW x \in Container!Resolvers, NEW k \in Keys, Container!Hit(x, k)
        PROVE  Container!TypeOK'
    <2>1. UNCHANGED <<avail, closed, cleanup, removal, waits, flight, cur, order, wait>>
      BY <1>2 DEF Container!Hit
    <2>2. Container!Receive(x, cur[k]) /\ cur[k] \in Container!Inst
      BY <1>0, <1>2 DEF Container!Hit
    <2>3. waits' \in [Keys \X Keys -> Nat] /\ wait' \in [Container!Resolvers -> 0..MaxInst]
      BY <1>0, <2>1
    <2> HIDE DEF Container!TypeOK
    <2> QED BY <1>0, <2>1, <2>2, <2>3, ReceiveTypes
  <1>3. ASSUME NEW x \in Container!Resolvers, NEW k \in Keys, Container!Join(x, k)
        PROVE  Container!TypeOK'
    <2>1. waits' \in [Keys \X Keys -> Nat]  BY <1>0, <1>3, WaitTypes DEF Container!Join
    <2>2. wait' \in [Container!Resolvers -> 0..MaxInst]  BY <1>0, <1>3 DEF Container!Join
    <2> QED BY <1>0, <1>3, <2>1, <2>2 DEF Container!Join
  <1>4. ASSUME NEW x \in Container!Resolvers, NEW k \in Keys, Container!Launch(x, k)
        PROVE  Container!TypeOK'
    <2>1. waits' \in [Keys \X Keys -> Nat]  BY <1>0, <1>4, WaitTypes DEF Container!Launch
    <2>2. Append(Container!PathOf(x), k) \in Seq(Keys)  BY <1>0 DEF Container!PathOf
    <2>3. PICK i \in Container!Inst, needed \in Needs[k] :
             /\ stage[i] = "free"
             /\ key' = [key EXCEPT ![i] = k]
             /\ stage' = [stage EXCEPT ![i] = "init"]
             /\ todo' = [todo EXCEPT ![i] = needed]
             /\ path' = [path EXCEPT ![i] = Append(Container!PathOf(x), k)]
             /\ flight' = [flight EXCEPT ![k] = i]
             /\ wait' = [wait EXCEPT ![x] = i]
      BY <1>4 DEF Container!Launch
    <2>4. needed \in SUBSET Keys  OBVIOUS
    <2>5. \A j \in Container!Inst : stage'[j] = "published" => stage[j] = "published" /\ key'[j] = key[j]
      BY <1>0, <2>3
    <2>6. path' \in [Container!Inst -> Seq(Keys)]  BY <1>0, <2>2, <2>3
    <2>7. /\ UNCHANGED <<avail, closed, cleanup, removal, cur, order, res, deps, got>>
      BY <1>4 DEF Container!Launch
    <2>8. /\ key' \in [Container!Inst -> Keys] /\ todo' \in [Container!Inst -> SUBSET Keys]
          /\ stage' \in [Container!Inst -> {"free", "init", "published", "final", "ended"}]
      BY <1>0, <2>3, <2>4
    <2>9. flight' \in [Keys -> 0..MaxInst]  BY <1>0, <2>3
    <2>10. wait' \in [Container!Resolvers -> 0..MaxInst]
      <3>1. wait \in [Container!Resolvers -> 0..MaxInst] /\ i \in 0..MaxInst  BY <1>0
      <3>2. wait' = [wait EXCEPT ![x] = i]  BY <2>3
      <3> HIDE DEF Container!Resolvers
      <3> QED BY <3>1, <3>2
    <2> QED BY <1>0, <2>1, <2>5, <2>6, <2>7, <2>8, <2>9, <2>10
  <1>5. ASSUME NEW x \in Container!Resolvers, Container!Answer(x) PROVE Container!TypeOK'
    <2>1. UNCHANGED <<avail, closed, cleanup, removal, flight, cur, order>>
      BY <1>5 DEF Container!Answer
    <2>2. wait[x] \in Container!Inst /\ key[wait[x]] \in Keys
      BY <1>0, <1>5 DEF Container!Answer
    <2>3. waits' \in [Keys \X Keys -> Nat]
      BY <1>0, <1>5, <2>2, WaitTypes DEF Container!Answer
    <2>4. wait' \in [Container!Resolvers -> 0..MaxInst]
      <3>1. wait \in [Container!Resolvers -> 0..MaxInst] /\ wait' = [wait EXCEPT ![x] = 0] /\ 0 \in 0..MaxInst
        BY <1>0, <1>5 DEF Container!Answer
      <3> HIDE DEF Container!TypeOK, Container!Resolvers
      <3> QED BY <3>1
    <2> HIDE DEF Container!TypeOK
    <2>5. CASE Container!Receive(x, wait[x])
      BY <1>0, <2>1, <2>2, <2>3, <2>4, <2>5, ReceiveTypes
    <2>6. CASE Container!Raise(x)  BY <1>0, <2>1, <2>2, <2>3, <2>4, <2>6, RaiseTypes
    <2> QED BY <1>5, <2>5, <2>6 DEF Container!Answer
  <1>6. ASSUME NEW c \in Requests, Container!Forget(c) PROVE Container!TypeOK'
    <2>1. /\ UNCHANGED <<avail, closed, cleanup, removal, waits, flight, cur, order>>
          /\ UNCHANGED <<key, stage, res, todo, deps, path, wait>>
          /\ got' = [got EXCEPT ![c] = 0]
      BY <1>6 DEF Container!Forget
    <2>2. got' \in [Requests -> 0..MaxInst]  BY <1>0, <2>1
    <2> QED BY <1>0, <2>1, <2>2
  <1>7. ASSUME NEW c \in Requests, Container!Abandon(c) PROVE Container!TypeOK'
    <2>1. waits' \in [Keys \X Keys -> Nat]
      <3>1. key[wait[c]] \in Keys  BY <1>0, <1>7 DEF Container!Abandon
      <3> QED BY <1>0, <1>7, <3>1, WaitTypes DEF Container!Abandon
    <2>2. wait' \in [Container!Resolvers -> 0..MaxInst]  BY <1>0, <1>7 DEF Container!Abandon
    <2>3. UNCHANGED <<avail, closed, cleanup, removal, flight, cur, order, key, stage, res, todo, deps, path, got>>
      BY <1>7 DEF Container!Abandon
    <2> QED BY <1>0, <2>1, <2>2, <2>3
  <1>8. ASSUME NEW i \in Container!Inst, Container!Fail(i) PROVE Container!TypeOK'
    <2>1. UNCHANGED <<avail, closed, cleanup, removal, waits, flight, cur, order, wait>>
      BY <1>8 DEF Container!Fail
    <2>2. Container!Raise(i) /\ i \in Container!Resolvers  BY <1>8 DEF Container!Fail
    <2>3. waits' \in [Keys \X Keys -> Nat] /\ wait' \in [Container!Resolvers -> 0..MaxInst]
      BY <1>0, <2>1
    <2> HIDE DEF Container!TypeOK
    <2> QED BY <1>0, <2>1, <2>2, <2>3, RaiseTypes
  <1>9. ASSUME NEW i \in Container!Inst, Container!Publish(i) PROVE Container!TypeOK'
    <2>1. /\ stage[i] = "init" /\ cur' = [cur EXCEPT ![key[i]] = i] /\ order' = Append(order, i)
          /\ stage' = [stage EXCEPT ![i] = "published"] /\ res' = [res EXCEPT ![i] = "value"]
          /\ UNCHANGED <<avail, closed, cleanup, removal, waits, flight, key, todo, deps, path, wait, got>>
      BY <1>9 DEF Container!Publish
    <2>2. cur[key[i]] = 0  BY <1>0, <2>1 DEF InitializerInv
    <2>3. \A j \in Container!Inst : stage'[j] = "published" => cur'[key'[j]] = j
      <3>1. /\ cur \in [Keys -> 0..MaxInst] /\ key[i] \in Keys
            /\ stage \in [Container!Inst -> {"free", "init", "published", "final", "ended"}]
            /\ \A j \in Container!Inst : key[j] \in Keys /\ (stage[j] = "published" => cur[key[j]] = j)
        BY <1>0
      <3> HIDE DEF Container!TypeOK
      <3>2. ASSUME NEW j \in Container!Inst, j # i, stage'[j] = "published" PROVE cur'[key[j]] = j
        <4>1. stage[j] = "published"  BY <2>1, <3>1, <3>2
        <4>2. cur[key[j]] = j /\ key[j] # key[i]  BY <2>2, <3>1, <4>1
        <4> QED BY <2>1, <3>1, <4>2
      <3>3. cur'[key[i]] = i  BY <2>1, <3>1
      <3> QED BY <2>1, <3>2, <3>3
    <2>4. order' \in Seq(Container!Inst)  BY <1>0, <2>1
    <2>5. /\ cur' \in [Keys -> 0..MaxInst]
          /\ stage' \in [Container!Inst -> {"free", "init", "published", "final", "ended"}]
          /\ res' \in [Container!Inst -> {"pending", "value", "error"}]
      <3>1. /\ cur \in [Keys -> 0..MaxInst] /\ i \in 0..MaxInst
            /\ stage \in [Container!Inst -> {"free", "init", "published", "final", "ended"}]
            /\ res \in [Container!Inst -> {"pending", "value", "error"}]
        BY <1>0
      <3> HIDE DEF Container!TypeOK, Container!Inst
      <3> QED BY <2>1, <3>1
    <2> QED BY <1>0, <2>1, <2>3, <2>4, <2>5
  <1>10. ASSUME NEW i \in Container!Inst, Container!Finish(i) PROVE Container!TypeOK'
    <2>1. /\ stage' = [stage EXCEPT ![i] = "ended"]
          /\ flight' = [k \in Keys |-> IF flight[k] = i /\ res[i] = "error" THEN 0 ELSE flight[k]]
          /\ UNCHANGED <<avail, closed, cleanup, removal, waits, cur, order, key, res, todo, deps, path, wait, got>>
      BY <1>10 DEF Container!Finish
    <2>2. stage' \in [Container!Inst -> {"free", "init", "published", "final", "ended"}]
      BY <1>0, <2>1
    <2>3. flight' \in [Keys -> 0..MaxInst]
      <3>1. \A k \in Keys : flight[k] \in 0..MaxInst /\ 0 \in 0..MaxInst  BY <1>0
      <3> HIDE DEF Container!TypeOK
      <3> QED BY <2>1, <3>1
    <2>4. \A j \in Container!Inst : stage'[j] = "published" => stage[j] = "published"
      BY <1>0, <2>1
    <2> QED BY <1>0, <2>1, <2>2, <2>3, <2>4
  <1>11. CASE Container!Close  BY <1>0, <1>11 DEF Container!Close
  <1>12. CASE Container!CancelInitializers
    <2>1. waits' \in [Keys \X Keys -> Nat]  BY <1>0, <1>12, CancelTypes
    <2>2. /\ UNCHANGED <<avail, closed, removal, flight, cur, order, key, todo, deps, path, got>>
          /\ cleanup' = "initializers"
          /\ stage' \in [Container!Inst -> {"free", "init", "published", "final", "ended"}]
          /\ res' \in [Container!Inst -> {"pending", "value", "error"}]
          /\ \A i \in Container!Inst : stage'[i] = "published" => stage[i] = "published"
      BY <1>0, <1>12 DEF Container!CancelInitializers
    <2>3. wait' \in [Container!Resolvers -> 0..MaxInst]
      BY <1>0, <1>12 DEF Container!CancelInitializers
    <2> QED BY <1>0, <2>1, <2>2, <2>3
  <1>13. CASE Container!InitializersDrained  BY <1>0, <1>13 DEF Container!InitializersDrained
  <1>14. CASE Container!CloseNext
    <2>1. order # <<>> /\ order[Len(order)] \in Container!Inst
      <3>1. order # <<>> /\ Len(order) \in 1..Len(order)
        BY <1>0, <1>14, NextIsListed, LenProperties DEF Container!CloseNext
      <3> QED BY <1>0, <3>1, ElementOfSeq
    <2>2. stage' = [stage EXCEPT ![order[Len(order)]] = "final"]
      BY <1>0, <1>14, <2>1, NextIsListed DEF Container!CloseNext, Container!RequestClose
    <2>3. UNCHANGED <<avail, closed, cleanup, removal, waits, flight, cur, order, key, res, todo, deps, path, wait, got>>
      BY <1>14 DEF Container!CloseNext
    <2> QED BY <1>0, <2>1, <2>2, <2>3
  <1>15. CASE Container!CloseDrained
    <2> DEFINE n == Container!NextToClose(1..Len(order))
    <2>1. /\ order # <<>>
          /\ order' = [m \in 1..(Len(order) - 1) |-> IF m < n THEN order[m] ELSE order[m + 1]]
          /\ UNCHANGED <<avail, closed, cleanup, removal, waits, flight, cur>>
          /\ UNCHANGED <<key, stage, res, todo, deps, path, wait, got>>
      BY <1>15 DEF Container!CloseDrained
    <2>2. n \in 1..Len(order)
      <3>1. Len(order) \in Nat /\ Len(order) > 0 /\ n = Len(order)
        BY <1>0, <2>1, NextIsListed, LenProperties
      <3> QED BY <3>1
    <2> HIDE DEF n
    <2>3. order' \in Seq(Container!Inst)  BY <1>0, <2>1, <2>2, TakenOut
    <2> QED BY <1>0, <2>1, <2>3
  <1>16. CASE Container!CloseReturns
    <2>1. \A i \in Container!Inst : stage[i] # "published"
      BY <1>0, <1>16 DEF Container!CloseReturns, OrderInv
    <2> QED BY <1>0, <1>16, <2>1 DEF Container!CloseReturns
  <1>17. CASE Container!GateCloses  BY <1>0, <1>17 DEF Container!GateCloses
  <1>18. CASE Container!GateDrained  BY <1>0, <1>18 DEF Container!GateDrained
  <1>19. CASE Container!RemoveNext
    <2> DEFINE i == order[Container!NextToClose(Container!ModulePositions)]
    <2>1. i \in Container!Inst
      BY <1>0, <1>19, NextIsListed, ElementOfSeq DEF Container!RemoveNext
    <2>2. stage' = [stage EXCEPT ![i] = "final"]
      BY <1>19 DEF Container!RemoveNext, Container!RequestClose
    <2>3. UNCHANGED <<avail, closed, cleanup, removal, waits, flight, cur, order, key, res, todo, deps, path, wait, got>>
      BY <1>19 DEF Container!RemoveNext
    <2> QED BY <1>0, <2>1, <2>2, <2>3
  <1>20. CASE Container!RemoveDrained
    <2> DEFINE n == Container!NextToClose(Container!ModulePositions)
    <2>1. n \in 1..Len(order)  BY <1>0, <1>20, NextIsListed DEF Container!RemoveDrained
    <2>2. /\ stage[order[n]] = "ended"
          /\ order' = [m \in 1..(Len(order) - 1) |-> IF m < n THEN order[m] ELSE order[m + 1]]
          /\ cur' = [cur EXCEPT ![key[order[n]]] = 0]
          /\ flight' = [flight EXCEPT ![key[order[n]]] = 0]
          /\ UNCHANGED <<avail, closed, cleanup, removal, waits, key, stage, res, todo, deps, path, wait, got>>
      BY <1>20 DEF Container!RemoveDrained
    <2> HIDE DEF n
    <2>3. order' \in Seq(Container!Inst)  BY <1>0, <2>1, <2>2, TakenOut
    <2>4. cur[key[order[n]]] = order[n]  BY <1>0, <2>1 DEF OrderInv
    <2>5. \A i \in Container!Inst : stage'[i] = "published" => cur'[key'[i]] = i
      BY <1>0, <2>2, <2>4
    <2>6. PICK k \in Keys : k = key[order[n]]
      <3>1. order[n] \in Container!Inst  BY <1>0, <2>1, ElementOfSeq
      <3>2. key[order[n]] \in Keys  BY <1>0, <3>1
      <3> QED BY <3>2
    <2>7. cur' = [cur EXCEPT ![k] = 0] /\ flight' = [flight EXCEPT ![k] = 0]  BY <2>2, <2>6
    <2>8. cur' \in [Keys -> 0..MaxInst] /\ flight' \in [Keys -> 0..MaxInst]  BY <1>0, <2>7
    <2> QED BY <1>0, <2>2, <2>3, <2>5, <2>8
  <1>21. CASE Container!RemoveReturns  BY <1>0, <1>21 DEF Container!RemoveReturns
  <1>22. CASE Container!Reregister  BY <1>0, <1>22 DEF Container!Reregister
  <1> QED
    BY <1>1, <1>2, <1>3, <1>4, <1>5, <1>6, <1>7, <1>8, <1>9, <1>10, <1>11, <1>12, <1>13, <1>14, <1>15, <1>16,
       <1>17, <1>18, <1>19, <1>20, <1>21, <1>22
       DEF Container!Next, Container!Resolve, Container!OwnerStep, Container!CleanupStep, Container!RemovalStep

-----------------------------------------------------------------------------
(* What the steps of the container do to its tasks, one by one.            *)

controlVars == <<avail, closed, cleanup, removal>>
tableVars == <<flight, cur, order>>

\* The provider of x, if x has one, fails.
Raises(x) ==
    /\ x \in Container!Inst => stage[x] = "init"
    /\ \A i \in Container!Inst : IF i = x THEN stage'[i] = "final" /\ res'[i] = "error"
                                          ELSE stage'[i] = stage[i] /\ res'[i] = res[i]
    /\ \A y \in Container!Resolvers : wait'[y] = IF y = x THEN 0 ELSE wait[y]
    /\ UNCHANGED <<controlVars, tableVars, key, deps, path>>

\* x gets the value of instance i.
Receives(x, i) ==
    /\ i \in Container!Inst /\ stage[i] = "published"
    /\ x \in Container!Inst => stage[x] = "init"
    /\ \A j \in Container!Inst : deps'[j] \subseteq deps[j] \cup {i} /\ (j # x => deps'[j] = deps[j])
    /\ \A y \in Container!Resolvers : wait'[y] = IF y = x THEN 0 ELSE wait[y]
    /\ UNCHANGED <<controlVars, tableVars, key, stage, res, path>>

\* x waits for instance i, which somebody else has launched.
Joins(x, i) ==
    /\ i \in Container!Inst /\ res[i] = "pending" /\ stage[i] # "free"
    /\ x \in Container!Inst => stage[x] = "init"
    /\ \A y \in Container!Resolvers : wait'[y] = IF y = x THEN i ELSE wait[y]
    /\ UNCHANGED <<controlVars, tableVars, key, stage, res, deps, path>>

\* x launches instance i for key k and waits for it.
Launches(x, k, i) ==
    /\ k \in Keys /\ i \in Container!Inst /\ stage[i] = "free"
    /\ x \in Container!Inst => stage[x] = "init"
    /\ Container!Registered(k) /\ cur[k] = 0 /\ ~Container!InFlight(k)
    /\ stage'[i] = "init" /\ key'[i] = k /\ flight'[k] = i
    /\ Len(path'[i]) > 0 /\ path'[i][Len(path'[i])] = k
    /\ \A j \in Container!Inst \ {i} : UNCHANGED <<stage[j], key[j], path[j]>>
    /\ \A l \in Keys \ {k} : UNCHANGED flight[l]
    /\ \A y \in Container!Resolvers : wait'[y] = IF y = x THEN i ELSE wait[y]
    /\ UNCHANGED <<controlVars, cur, order, res, deps>>

\* A caller stops waiting, or forgets what it got.
Leaves ==
    /\ \A y \in Container!Resolvers : wait'[y] \in {0, wait[y]}
    /\ UNCHANGED <<controlVars, tableVars, key, stage, res, deps, path>>

\* Instance i becomes the owner of its key.
Publishes(i) ==
    /\ i \in Container!Inst /\ stage[i] = "init" /\ stage'[i] = "published" /\ res'[i] = "value"
    /\ wait[i] = 0
    /\ Container!Registered(key[i])
    /\ \A j \in deps[i] : stage[j] = "published"
    /\ \A j \in Container!Inst \ {i} : UNCHANGED <<stage[j], res[j]>>
    /\ cur'[key[i]] = i /\ \A k \in Keys \ {key[i]} : UNCHANGED cur[k]
    /\ order' = Append(order, i)
    /\ UNCHANGED <<controlVars, flight, key, deps, path, wait>>

\* Instance i has closed its resources.
Finishes(i) ==
    /\ i \in Container!Inst /\ stage[i] = "final" /\ stage'[i] = "ended"
    /\ \A j \in Container!Inst \ {i} : UNCHANGED stage[j]
    /\ \A k \in Keys : flight'[k] = flight[k] \/ (flight[k] = i /\ flight'[k] = 0)
    /\ UNCHANGED <<controlVars, cur, order, key, res, deps, path, wait>>

\* The owner at position n of the order is asked to close.
Closes(n) ==
    /\ n \in 1..Len(order)
    /\ \/ cleanup = "published" /\ n = Len(order)
       \/ removal = "published" /\ key[order[n]] \in Module
    /\ stage[order[n]] = "published" /\ stage'[order[n]] = "final"
    /\ \A j \in Container!Inst \ {order[n]} : UNCHANGED stage[j]
    /\ UNCHANGED <<controlVars, tableVars, key, res, deps, path, wait>>

\* The owner at position n has been closed and leaves the order, and the tables if its module
\* is removed.
Drained(n) ==
    /\ n \in 1..Len(order) /\ stage[order[n]] = "ended"
    /\ order' = [m \in 1..(Len(order) - 1) |-> IF m < n THEN order[m] ELSE order[m + 1]]
    /\ \/ cleanup = "published" /\ UNCHANGED <<cur, flight>>
       \/ /\ removal = "published" /\ key[order[n]] \in Module
          /\ cur'[key[order[n]]] = 0 /\ flight'[key[order[n]]] = 0
          /\ \A k \in Keys \ {key[order[n]]} : UNCHANGED <<cur[k], flight[k]>>
    /\ UNCHANGED <<controlVars, key, stage, res, deps, path, wait>>

\* The initializations are cancelled.
Cancels ==
    /\ cleanup = "begin" /\ cleanup' = "initializers"
    /\ \A i \in Container!Inst : IF stage[i] = "init" THEN stage'[i] = "final" /\ res'[i] = "error"
                                 ELSE stage'[i] = stage[i] /\ res'[i] = res[i]
    /\ \A y \in Container!Resolvers :
         wait'[y] = IF y \in Container!Inst /\ stage[y] = "init" THEN 0 ELSE wait[y]
    /\ UNCHANGED <<avail, closed, removal, tableVars, key, deps, path>>

\* close(), removal and registration as a whole go on, nothing happens to a task.
Controls ==
    /\ \/ Container!Close \/ Container!InitializersDrained \/ Container!CloseReturns
       \/ Container!GateCloses \/ Container!GateDrained \/ Container!RemoveReturns \/ Container!Reregister
    /\ UNCHANGED <<order, key, stage, res, deps, path, wait>>

LEMMA ValidIsPublished ==
    ASSUME NEW i, Container!Valid(i)
    PROVE  i \in Container!Inst /\ stage[i] = "published" /\ Container!Registered(key[i])
  BY DEF Container!Valid

LEMMA ContainerKinds ==
    ASSUME ContainerInv, Container!Next
    PROVE  \/ \E x \in Container!Resolvers : \/ Raises(x)
                                             \/ \E i \in Container!Inst : Receives(x, i) \/ Joins(x, i)
                                             \/ \E k \in Keys, i \in Container!Inst : Launches(x, k, i)
           \/ Leaves
           \/ \E i \in Container!Inst : Publishes(i) \/ Finishes(i)
           \/ \E n \in 1..Len(order) : Closes(n) \/ Drained(n)
           \/ Cancels \/ Controls
  <1> USE DEF Container!ctlVars, Container!graphVars, Container!instVars, controlVars, tableVars
  <1>0. Container!TypeOK /\ InitializerInv /\ WaiterInv /\ AnswerInv  BY DEF ContainerInv
  <1>1. ASSUME NEW x \in Container!Resolvers, NEW k \in Keys, Container!Refuse(x, k)
        PROVE  Raises(x)
    <2>1. Container!Raise(x) /\ stage[x] = "init" /\ wait[x] = 0
      BY <1>1 DEF Container!Refuse, Container!Asks
    <2>2. UNCHANGED <<avail, closed, cleanup, removal, flight, cur, order, wait>>
      BY <1>1 DEF Container!Refuse
    <2> QED BY <1>0, <2>1, <2>2, RaiseFacts DEF Raises
  <1>2. ASSUME NEW x \in Container!Resolvers, NEW k \in Keys, Container!Hit(x, k)
        PROVE  \E i \in Container!Inst : Receives(x, i)
    <2>1. PICK i \in Container!Inst : i = cur[k]  BY <1>2, ValidIsPublished DEF Container!Hit
    <2>2. Container!Receive(x, i) /\ stage[i] = "published"
      BY <1>2, <2>1, ValidIsPublished DEF Container!Hit
    <2>3. UNCHANGED <<avail, closed, cleanup, removal, flight, cur, order, wait>>
      BY <1>2 DEF Container!Hit
    <2>4. wait[x] = 0 /\ (x \in Container!Inst => stage[x] = "init")
      BY <1>2 DEF Container!Hit, Container!Asks
    <2>5. Receives(x, i)  BY <1>0, <2>2, <2>3, <2>4, ReceiveFacts DEF Receives
    <2> QED BY <2>5
  <1>3. ASSUME NEW x \in Container!Resolvers, NEW k \in Keys, Container!Join(x, k)
        PROVE  \E i \in Container!Inst : Joins(x, i)
    <2>1. PICK i \in Container!Inst : i = flight[k] /\ res[i] = "pending"
      BY <1>0, <1>3 DEF Container!Join, Container!InFlight, Container!TypeOK
    <2>2. stage[i] # "free"  BY <1>0, <2>1 DEF WaiterInv
    <2>3. x \in Container!Inst => stage[x] = "init"
      BY <1>3 DEF Container!Join, Container!Miss, Container!Asks
    <2>4. Joins(x, i)
      BY <1>0, <1>3, <2>1, <2>2, <2>3 DEF Joins, Container!Join, Container!TypeOK
    <2> QED BY <2>4
  <1>4. ASSUME NEW x \in Container!Resolvers, NEW k \in Keys, Container!Launch(x, k)
        PROVE  \E i \in Container!Inst : Launches(x, k, i)
    <2>1. /\ x \in Container!Inst => stage[x] = "init"
          /\ Container!Registered(k) /\ cur[k] = 0 /\ ~Container!InFlight(k)
          /\ UNCHANGED <<avail, closed, cleanup, removal, cur, order, res, deps>>
      BY <1>4 DEF Container!Launch, Container!Miss, Container!Asks
    <2>2. PICK i \in Container!Inst :
             /\ stage[i] = "free"
             /\ key' = [key EXCEPT ![i] = k]
             /\ stage' = [stage EXCEPT ![i] = "init"]
             /\ path' = [path EXCEPT ![i] = Append(Container!PathOf(x), k)]
             /\ flight' = [flight EXCEPT ![k] = i]
             /\ wait' = [wait EXCEPT ![x] = i]
      BY <1>4 DEF Container!Launch
    <2>3. path'[i] = Append(Container!PathOf(x), k) /\ Container!PathOf(x) \in Seq(Keys)
      BY <1>0, <2>2 DEF Container!TypeOK, Container!PathOf
    <2>4. Len(path'[i]) > 0 /\ path'[i][Len(path'[i])] = k
      BY <2>3, AppendProperties, LenProperties
    <2>5. Launches(x, k, i)  BY <1>0, <2>1, <2>2, <2>4 DEF Launches, Container!TypeOK
    <2> QED BY <2>5
  <1>5. ASSUME NEW x \in Container!Resolvers, Container!Answer(x)
        PROVE  Raises(x) \/ \E i \in Container!Inst : Receives(x, i)
    <2>1. /\ UNCHANGED <<avail, closed, cleanup, removal, flight, cur, order>>
          /\ wait[x] # 0 /\ wait' = [wait EXCEPT ![x] = 0]
      BY <1>5 DEF Container!Answer
    <2>2. x \in Container!Inst => stage[x] = "init"  BY <1>0, <2>1 DEF WaiterInv
    <2>3. \A y \in Container!Resolvers : wait'[y] = IF y = x THEN 0 ELSE wait[y]
      BY <1>0, <2>1 DEF Container!TypeOK
    <2>4. PICK i \in Container!Inst : i = wait[x]  BY <1>0, <2>1 DEF Container!TypeOK
    <2>5. CASE res[i] = "value" /\ cur[key[i]] # 0 /\ Container!Valid(cur[key[i]])
      <3>1. cur[key[i]] = i  BY <1>0, <2>1, <2>4, <2>5 DEF AnswerInv
      <3>2. stage[i] = "published" /\ Container!Receive(x, i)
        BY <1>5, <2>4, <2>5, <3>1, ValidIsPublished DEF Container!Answer
      <3>3. Receives(x, i)  BY <1>0, <2>1, <2>2, <2>3, <3>2, ReceiveFacts DEF Receives
      <3> QED BY <3>3
    <2>6. CASE ~(res[i] = "value" /\ cur[key[i]] # 0 /\ Container!Valid(cur[key[i]]))
      <3>1. Container!Raise(x)  BY <1>5, <2>4, <2>6 DEF Container!Answer
      <3> QED BY <1>0, <2>1, <2>2, <2>3, <3>1, RaiseFacts DEF Raises
    <2> QED BY <2>5, <2>6
  <1>6. ASSUME NEW c \in Requests, Container!Forget(c) \/ Container!Abandon(c)
        PROVE  Leaves
    BY <1>0, <1>6 DEF Container!Forget, Container!Abandon, Leaves, Container!TypeOK
  <1>7. ASSUME NEW i \in Container!Inst, Container!Fail(i) PROVE Raises(i)
    <2>1. Container!Raise(i) /\ stage[i] = "init" /\ wait[i] = 0  BY <1>7 DEF Container!Fail
    <2>2. UNCHANGED <<avail, closed, cleanup, removal, flight, cur, order, wait>>
      BY <1>7 DEF Container!Fail
    <2> QED BY <1>0, <2>1, <2>2, RaiseFacts DEF Raises
  <1>8. ASSUME NEW i \in Container!Inst, Container!Publish(i) PROVE Publishes(i)
    <2>1. \A j \in deps[i] : stage[j] = "published"
      BY <1>8, ValidIsPublished DEF Container!Publish
    <2> QED BY <1>0, <1>8, <2>1 DEF Container!Publish, Publishes, Container!TypeOK
  <1>9. ASSUME NEW i \in Container!Inst, Container!Finish(i) PROVE Finishes(i)
    BY <1>0, <1>9 DEF Container!Finish, Finishes, Container!TypeOK
  <1>10. CASE Container!CloseNext
    <2>1. /\ cleanup = "published" /\ order # <<>>
          /\ UNCHANGED <<avail, closed, cleanup, removal, flight, cur, order, key, res, deps, path, wait>>
      BY <1>10 DEF Container!CloseNext
    <2>2. Len(order) \in 1..Len(order) /\ order[Len(order)] \in Container!Inst
      <3>1. Len(order) \in Nat /\ Len(order) > 0
        BY <1>0, <2>1, NextIsListed, LenProperties DEF Container!TypeOK
      <3>2. Len(order) \in 1..Len(order)  BY <3>1
      <3> QED BY <1>0, <3>2, ElementOfSeq DEF Container!TypeOK
    <2>3. stage[order[Len(order)]] = "published" /\ stage' = [stage EXCEPT ![order[Len(order)]] = "final"]
      BY <1>0, <1>10, <2>1, NextIsListed DEF Container!CloseNext, Container!RequestClose
    <2>4. Closes(Len(order))  BY <1>0, <2>1, <2>2, <2>3 DEF Closes, Container!TypeOK
    <2> QED BY <2>2, <2>4
  <1>11. CASE Container!RemoveNext
    <2>1. PICK n : n = Container!NextToClose(Container!ModulePositions)  OBVIOUS
    <2>2. /\ removal = "published" /\ Container!ModulePositions # {}
          /\ UNCHANGED <<avail, closed, cleanup, removal, flight, cur, order, key, res, deps, path, wait>>
      BY <1>11 DEF Container!RemoveNext
    <2>3. stage[order[n]] = "published" /\ stage' = [stage EXCEPT ![order[n]] = "final"]
      BY <1>11, <2>1 DEF Container!RemoveNext, Container!RequestClose
    <2>4. n \in 1..Len(order) /\ key[order[n]] \in Module  BY <1>0, <2>1, <2>2, NextIsListed
    <2>5. order[n] \in Container!Inst  BY <1>0, <2>4, ElementOfSeq DEF Container!TypeOK
    <2>6. Closes(n)  BY <1>0, <2>2, <2>3, <2>4, <2>5 DEF Closes, Container!TypeOK
    <2> QED BY <2>4, <2>6
  <1>12. CASE Container!CloseDrained
    <2>1. PICK n : n = Container!NextToClose(1..Len(order))  OBVIOUS
    <2>2. /\ order # <<>> /\ cleanup = "published" /\ stage[order[n]] = "ended"
          /\ order' = [m \in 1..(Len(order) - 1) |-> IF m < n THEN order[m] ELSE order[m + 1]]
          /\ UNCHANGED <<avail, closed, cleanup, removal, flight, cur, key, stage, res, deps, path, wait>>
      BY <1>12, <2>1 DEF Container!CloseDrained
    <2>3. n \in 1..Len(order)
      <3>1. Len(order) \in Nat /\ Len(order) > 0 /\ n = Len(order)
        BY <1>0, <2>1, <2>2, NextIsListed, LenProperties DEF Container!TypeOK
      <3> QED BY <3>1
    <2>4. Drained(n)  BY <2>2, <2>3 DEF Drained
    <2> QED BY <2>3, <2>4
  <1>13. CASE Container!RemoveDrained
    <2>1. PICK n : n = Container!NextToClose(Container!ModulePositions)  OBVIOUS
    <2>2. /\ Container!ModulePositions # {} /\ removal = "published" /\ stage[order[n]] = "ended"
          /\ order' = [m \in 1..(Len(order) - 1) |-> IF m < n THEN order[m] ELSE order[m + 1]]
          /\ cur' = [cur EXCEPT ![key[order[n]]] = 0] /\ flight' = [flight EXCEPT ![key[order[n]]] = 0]
          /\ UNCHANGED <<avail, closed, cleanup, removal, key, stage, res, deps, path, wait>>
      BY <1>13, <2>1 DEF Container!RemoveDrained
    <2>3. n \in 1..Len(order) /\ key[order[n]] \in Module  BY <1>0, <2>1, <2>2, NextIsListed
    <2>4. PICK l \in Keys : l = key[order[n]]  BY <2>3
    <2>5. /\ cur'[l] = 0 /\ flight'[l] = 0
          /\ \A k \in Keys \ {l} : UNCHANGED <<cur[k], flight[k]>>
      BY <1>0, <2>2, <2>4 DEF Container!TypeOK
    <2>6. Drained(n)  BY <2>2, <2>3, <2>4, <2>5 DEF Drained
    <2> QED BY <2>3, <2>6
  <1>14. CASE Container!CancelInitializers
    BY <1>0, <1>14 DEF Container!CancelInitializers, Cancels, Container!TypeOK, WaiterInv
  <1>15. ASSUME \/ Container!Close \/ Container!InitializersDrained \/ Container!CloseReturns
                \/ Container!GateCloses \/ Container!GateDrained \/ Container!RemoveReturns
                \/ Container!Reregister
         PROVE  Controls
    BY <1>15 DEF Controls, Container!Close, Container!InitializersDrained, Container!CloseReturns,
           Container!GateCloses, Container!GateDrained, Container!RemoveReturns, Container!Reregister
  <1>16. ASSUME NEW x \in Container!Resolvers, Container!Resolve(x)
         PROVE  Raises(x) \/ \E i \in Container!Inst : \/ Receives(x, i) \/ Joins(x, i)
                                                     \/ \E k \in Keys : Launches(x, k, i)
    BY <1>1, <1>2, <1>3, <1>4, <1>5, <1>16 DEF Container!Resolve
  <1>17. CASE \E x \in Container!Resolvers : Container!Resolve(x)  BY <1>16, <1>17
  <1>18. CASE \E i \in Container!Inst : Container!Fail(i) \/ Container!Publish(i) \/ Container!Finish(i)
    BY <1>7, <1>8, <1>9, <1>18
  <1>19. CASE Container!CleanupStep \/ Container!RemovalStep
    BY <1>10, <1>11, <1>12, <1>13, <1>14, <1>15, <1>19
       DEF Container!CleanupStep, Container!RemovalStep
  <1> QED BY <1>6, <1>15, <1>17, <1>18, <1>19 DEF Container!Next, Container!OwnerStep

-----------------------------------------------------------------------------
(* Every kind of step keeps every part of the invariant.                   *)

LEMMA InitializerStep ==
    ASSUME ContainerInv, Container!Next, Container!TypeOK' PROVE InitializerInv'
  <1> USE DEF InitializerInv, controlVars, tableVars
  <1>0. Container!TypeOK /\ InitializerInv /\ PhaseInv /\ OrderInv  BY DEF ContainerInv
  <1>1. ASSUME NEW x \in Container!Resolvers, Raises(x) PROVE InitializerInv'
    BY <1>0, <1>1 DEF Raises
  <1>2. ASSUME NEW x \in Container!Resolvers, NEW i \in Container!Inst, Receives(x, i) \/ Joins(x, i)
        PROVE  InitializerInv'
    BY <1>0, <1>2 DEF Receives, Joins
  <1>3. ASSUME NEW x \in Container!Resolvers, NEW k \in Keys, NEW i \in Container!Inst, Launches(x, k, i)
        PROVE  InitializerInv'
    <2>1. \A j \in Container!Inst \ {i} : stage[j] = "init" => key[j] # k
      BY <1>0, <1>3 DEF Launches, Container!InFlight
    <2>2. \A j \in Container!Inst \ {i} : key[j] \in Keys  BY <1>0 DEF Container!TypeOK
    <2> QED BY <1>0, <1>3, <2>1, <2>2 DEF Launches
  <1>4. CASE Leaves  BY <1>0, <1>4 DEF Leaves
  <1>5. ASSUME NEW i \in Container!Inst, Publishes(i) PROVE InitializerInv'
    <2>1. \A j \in Container!Inst \ {i} : key[j] \in Keys /\ (stage[j] = "init" => key[j] # key[i])
      <3>1. stage[i] = "init" /\ \A j \in Container!Inst : key[j] \in Keys
        BY <1>0, <1>5 DEF Publishes, Container!TypeOK
      <3>2. \A j \in Container!Inst : stage[j] = "init" => flight[key[j]] = j  BY <1>0
      <3> QED BY <1>5, <3>1, <3>2
    <2> QED BY <1>0, <1>5, <2>1 DEF Publishes
  <1>6. ASSUME NEW i \in Container!Inst, Finishes(i) PROVE InitializerInv'
    <2>1. \A j \in Container!Inst : key[j] \in Keys  BY <1>0 DEF Container!TypeOK
    <2> QED BY <1>0, <1>6, <2>1 DEF Finishes
  <1>7. ASSUME NEW n \in 1..Len(order), Closes(n) PROVE InitializerInv'
    <2>1. PICK i \in Container!Inst : i = order[n]
      BY <1>0, <1>7, ElementOfSeq DEF Container!TypeOK
    <2> QED BY <1>0, <1>7, <2>1 DEF Closes
  <1>8. ASSUME NEW n \in 1..Len(order), Drained(n) PROVE InitializerInv'
    <2>1. \A j \in Container!Inst : /\ key[j] \in Keys
                                    /\ stage[j] = "init" /\ removal = "published" => key[j] \notin Module
      BY <1>0 DEF Container!TypeOK, PhaseInv
    <2>2. \A j \in Container!Inst : stage[j] = "init" => flight'[key[j]] = flight[key[j]] /\ cur'[key[j]] = cur[key[j]]
      BY <1>8, <2>1 DEF Drained
    <2>3. UNCHANGED <<key, stage, res>>  BY <1>8 DEF Drained
    <2> QED BY <1>0, <2>2, <2>3
  <1>9. CASE Cancels  BY <1>0, <1>9 DEF Cancels
  <1>10. CASE Controls
    <2>1. \A j \in Container!Inst : key[j] \in Keys  BY <1>0 DEF Container!TypeOK
    <2>2. CASE UNCHANGED <<flight, cur>>  BY <1>0, <1>10, <2>2 DEF Controls
    <2>3. CASE Container!CloseReturns
      <3>1. \A j \in Container!Inst : stage[j] # "init"
        BY <1>0, <2>3 DEF Container!CloseReturns, PhaseInv
      <3> QED BY <1>0, <1>10, <3>1 DEF Controls
    <2>4. CASE Container!RemoveReturns
      <3>1. \A j \in Container!Inst : stage[j] = "init" => key[j] \notin Module
        BY <1>0, <2>1, <2>4 DEF Container!RemoveReturns, PhaseInv
      <3> QED BY <1>0, <1>10, <2>1, <2>4, <3>1 DEF Controls, Container!RemoveReturns
    <2> QED
      BY <1>10, <2>2, <2>3, <2>4
         DEF Controls, Container!Close, Container!InitializersDrained, Container!GateCloses,
             Container!GateDrained, Container!Reregister, Container!graphVars
  <1> QED BY <1>1, <1>2, <1>3, <1>4, <1>5, <1>6, <1>7, <1>8, <1>9, <1>10, ContainerKinds

LEMMA TaskStep ==
    ASSUME ContainerInv, Container!Next, Container!TypeOK' PROVE TaskInv'
  <1> USE DEF TaskInv, controlVars, tableVars
  <1>0. Container!TypeOK /\ TaskInv  BY DEF ContainerInv
  <1>1. CASE /\ UNCHANGED <<key, deps, path>>
             /\ \A j \in Container!Inst : /\ stage[j] = "free" <=> stage'[j] = "free"
                                          /\ stage'[j] = "init" => stage[j] = "init"
    <2>1. \A i \in Container!Inst : \A j \in deps[i] : j \in Container!Inst /\ stage[j] \notin {"free", "init"}
      BY <1>0 DEF Container!TypeOK
    <2>2. \A i \in Container!Inst : \A j \in deps[i] : stage'[j] \notin {"free", "init"}
      BY <1>1, <2>1
    <2> QED BY <1>0, <1>1, <2>2
  <1>2. ASSUME NEW x \in Container!Resolvers, NEW i \in Container!Inst, Receives(x, i)
        PROVE  TaskInv'
    BY <1>0, <1>2 DEF Receives
  <1>3. ASSUME NEW x \in Container!Resolvers, NEW k \in Keys, NEW i \in Container!Inst, Launches(x, k, i)
        PROVE  TaskInv'
    <2>1. \A j \in Container!Inst : stage[j] \notin {"free", "init"} => stage'[j] \notin {"free", "init"}
      BY <1>0, <1>3 DEF Launches
    <2>2. \A j \in Container!Inst : deps[j] \subseteq Container!Inst
      BY <1>0 DEF Container!TypeOK
    <2>3. \A j \in Container!Inst : stage'[j] # "free" => Len(path'[j]) > 0 /\ path'[j][Len(path'[j])] = key'[j]
      BY <1>0, <1>3 DEF Launches
    <2>4. \A j \in Container!Inst : deps'[j] = deps[j] /\ (stage'[j] = "free" => stage[j] = "free")
      BY <1>0, <1>3 DEF Launches
    <2> QED BY <1>0, <2>1, <2>2, <2>3, <2>4
  <1>4. ASSUME NEW n \in 1..Len(order), Closes(n) PROVE TaskInv'
    <2>1. \A j \in Container!Inst : stage'[j] = stage[j] \/ (stage[j] = "published" /\ stage'[j] = "final")
      BY <1>4 DEF Closes
    <2>2. \A j \in Container!Inst : /\ stage[j] = "free" <=> stage'[j] = "free"
                                    /\ stage'[j] = "init" => stage[j] = "init"
      BY <2>1
    <2> QED BY <1>1, <1>4, <2>2 DEF Closes
  <1>5. ASSUME NEW x \in Container!Resolvers, Raises(x) PROVE TaskInv'
    BY <1>1, <1>5 DEF Raises
  <1>6. ASSUME NEW i \in Container!Inst, Publishes(i) \/ Finishes(i) PROVE TaskInv'
    BY <1>1, <1>6 DEF Publishes, Finishes
  <1>7. CASE Cancels  BY <1>1, <1>7 DEF Cancels
  <1> QED
    BY <1>1, <1>2, <1>3, <1>4, <1>5, <1>6, <1>7, ContainerKinds DEF Joins, Leaves, Drained, Controls

LEMMA WaiterStep ==
    ASSUME ContainerInv, Container!Next, Container!TypeOK' PROVE WaiterInv'
  <1> USE DEF WaiterInv, controlVars, tableVars
  <1>0. Container!TypeOK /\ WaiterInv  BY DEF ContainerInv
  <1>t. /\ \A y \in Container!Resolvers : wait[y] # 0 => wait[y] \in Container!Inst
        /\ \A k \in Keys : flight[k] # 0 => flight[k] \in Container!Inst
    BY <1>0 DEF Container!TypeOK
  <1>1. ASSUME NEW x \in Container!Resolvers, Raises(x) PROVE WaiterInv'
    BY <1>0, <1>t, <1>1 DEF Raises
  <1>2. ASSUME NEW x \in Container!Resolvers, NEW i \in Container!Inst, Receives(x, i) \/ Joins(x, i)
        PROVE  WaiterInv'
    BY <1>0, <1>2 DEF Receives, Joins
  <1>3. ASSUME NEW x \in Container!Resolvers, NEW k \in Keys, NEW i \in Container!Inst, Launches(x, k, i)
        PROVE  WaiterInv'
    <2>1. \A j \in Container!Inst : (stage[j] # "free" => stage'[j] # "free") /\ (stage[j] = "init" => stage'[j] = "init")
      BY <1>3 DEF Launches
    <2>2. stage'[i] = "init"  BY <1>3 DEF Launches
    <2>3. \A y \in Container!Resolvers : wait'[y] # 0 => y = x \/ wait'[y] = wait[y]
      BY <1>3 DEF Launches
    <2>4. wait'[x] = i /\ flight'[k] = i /\ \A l \in Keys \ {k} : flight'[l] = flight[l]
      BY <1>3 DEF Launches
    <2>5. x \in Container!Inst => stage[x] = "init"  BY <1>3 DEF Launches
    <2>6. stage[i] = "free" /\ key'[i] = k /\ \A j \in Container!Inst : j # i => key'[j] = key[j]
      BY <1>3 DEF Launches
    <2> QED BY <1>0, <1>t, <2>1, <2>2, <2>3, <2>4, <2>5, <2>6
  <1>4. CASE Leaves  BY <1>0, <1>4 DEF Leaves
  <1>5. ASSUME NEW i \in Container!Inst, Publishes(i) PROVE WaiterInv'
    BY <1>0, <1>t, <1>5 DEF Publishes
  <1>6. ASSUME NEW i \in Container!Inst, Finishes(i) PROVE WaiterInv'
    <2>1. \A j \in Container!Inst : (stage[j] # "free" => stage'[j] # "free") /\ (stage[j] = "init" => stage'[j] = "init")
      BY <1>6 DEF Finishes
    <2>2. UNCHANGED <<wait, key>> /\ \A k \in Keys : flight'[k] = flight[k] \/ flight'[k] = 0
      BY <1>6 DEF Finishes
    <2> QED BY <1>0, <1>t, <2>1, <2>2
  <1>7. ASSUME NEW n \in 1..Len(order), Closes(n) PROVE WaiterInv'
    <2>1. \A j \in Container!Inst : (stage[j] # "free" => stage'[j] # "free") /\ (stage[j] = "init" => stage'[j] = "init")
      BY <1>7 DEF Closes
    <2> QED BY <1>0, <1>t, <1>7, <2>1 DEF Closes
  <1>8. ASSUME NEW n \in 1..Len(order), Drained(n) PROVE WaiterInv'
    <2>1. \A k \in Keys : flight'[k] = flight[k] \/ flight'[k] = 0  BY <1>8 DEF Drained
    <2> QED BY <1>0, <1>8, <2>1 DEF Drained
  <1>9. CASE Cancels  BY <1>0, <1>t, <1>9 DEF Cancels
  <1>10. CASE Controls
    <2>1. \A k \in Keys : flight'[k] = flight[k] \/ flight'[k] = 0
      BY <1>10 DEF Controls, Container!CloseReturns, Container!RemoveReturns,
         Container!Close, Container!InitializersDrained, Container!GateCloses,
         Container!GateDrained, Container!Reregister, Container!graphVars
    <2> QED BY <1>0, <1>10, <2>1 DEF Controls
  <1> QED BY <1>1, <1>2, <1>3, <1>4, <1>5, <1>6, <1>7, <1>8, <1>9, <1>10, ContainerKinds

LEMMA OrderStep ==
    ASSUME ContainerInv, Container!Next, Container!TypeOK' PROVE OrderInv'
  <1> USE DEF OrderInv, controlVars, tableVars
  <1>0. Container!TypeOK /\ InitializerInv /\ TaskInv /\ OrderInv /\ PhaseInv
    BY DEF ContainerInv
  <1>t. /\ Len(order) \in Nat
        /\ \A n \in 1..Len(order) : order[n] \in Container!Inst /\ key[order[n]] \in Keys
    <2>1. \A n \in 1..Len(order) : order[n] \in Container!Inst
      BY <1>0, ElementOfSeq DEF Container!TypeOK
    <2> QED
      <3>1. Len(order) \in Nat  BY <1>0, LenProperties DEF Container!TypeOK
      <3>2. \A i \in Container!Inst : key[i] \in Keys  BY <1>0 DEF Container!TypeOK
      <3> QED BY <2>1, <3>1, <3>2
  <1>1. CASE /\ UNCHANGED <<cur, order, key, deps>>
             /\ \A i \in Container!Inst :
                  /\ stage'[i] = "published" => stage[i] = "published"
                  /\ stage[i] \in {"published", "final", "ended"} => stage'[i] \in {"published", "final", "ended"}
    BY <1>0, <1>t, <1>1
  <1>2. ASSUME NEW x \in Container!Resolvers, NEW i \in Container!Inst, Receives(x, i)
        PROVE  OrderInv'
    <2>1. \A n \in 1..Len(order) : order[n] # x \/ x \notin Container!Inst
      BY <1>0, <1>2 DEF Receives
    <2>2. \A n \in 1..Len(order) : deps'[order[n]] = deps[order[n]]
      BY <1>t, <1>2, <2>1 DEF Receives
    <2> QED BY <1>0, <1>2, <2>2 DEF Receives
  <1>3. ASSUME NEW x \in Container!Resolvers, NEW k \in Keys, NEW i \in Container!Inst, Launches(x, k, i)
        PROVE  OrderInv'
    <2>1. \A n \in 1..Len(order) : order[n] # i  BY <1>0, <1>3 DEF Launches
    <2>2. \A n \in 1..Len(order) : stage'[order[n]] = stage[order[n]] /\ key'[order[n]] = key[order[n]]
      BY <1>t, <1>3, <2>1 DEF Launches
    <2>3. \A j \in Container!Inst : stage'[j] = "published" => stage[j] = "published"
      BY <1>3 DEF Launches
    <2>4. UNCHANGED <<cur, order, deps>>  BY <1>3 DEF Launches
    <2> QED BY <1>0, <2>2, <2>3, <2>4
  <1>4. ASSUME NEW i \in Container!Inst, Publishes(i) PROVE OrderInv'
    <2>1. /\ Len(order') = Len(order) + 1 /\ order'[Len(order) + 1] = i
          /\ \A n \in 1..Len(order) : order'[n] = order[n]
      BY <1>0, <1>4, AppendProperties DEF Publishes, Container!TypeOK
    <2>2. cur[key[i]] = 0 /\ stage[i] = "init" /\ cur'[key[i]] = i /\ stage'[i] = "published"
      BY <1>0, <1>4 DEF Publishes, InitializerInv
    <2>3. \A n \in 1..Len(order) : order[n] # i /\ key[order[n]] # key[i]  BY <1>0, <1>t, <2>2
    <2>4. UNCHANGED <<key, deps>> /\ \A n \in 1..Len(order) : cur'[key[order[n]]] = cur[key[order[n]]] /\ stage'[order[n]] = stage[order[n]]
      BY <1>t, <1>4, <2>3 DEF Publishes
    <2>5. \A n \in 1..Len(order') : n \in 1..Len(order) \/ n = Len(order) + 1  BY <1>t, <2>1
    <2>6. \A n \in 1..Len(order') : cur'[key'[order'[n]]] = order'[n] /\ stage'[order'[n]] \in {"published", "final", "ended"}
      BY <1>0, <2>1, <2>2, <2>4, <2>5
    <2>7. \A n, m \in 1..Len(order') : order'[n] = order'[m] => n = m
      BY <1>0, <2>1, <2>3, <2>5
    <2>8. \A n \in 1..Len(order') : order'[n] \in Container!Inst /\ i \notin deps[order'[n]]
      BY <1>0, <1>t, <2>1, <2>2, <2>5 DEF TaskInv
    <2>9. \A n, m \in 1..Len(order') : order'[m] \in deps'[order'[n]] => m < n
      BY <1>0, <1>t, <2>1, <2>4, <2>5, <2>8
    <2>10. \A j \in Container!Inst : stage'[j] = "published" => \E n \in 1..Len(order') : order'[n] = j
      BY <1>0, <1>t, <1>4, <2>1 DEF Publishes
    <2> QED BY <2>6, <2>7, <2>9, <2>10
  <1>5. ASSUME NEW n \in 1..Len(order), Drained(n) PROVE OrderInv'
    <2>1. /\ Len(order') = Len(order) - 1
          /\ \A m \in 1..Len(order') : order'[m] = IF m < n THEN order[m] ELSE order[m + 1]
          /\ \A m \in 1..Len(order) : m # n => \E l \in 1..Len(order') : order'[l] = order[m]
      <3>1. /\ order \in Seq(Container!Inst)
            /\ order' = [m \in 1..(Len(order) - 1) |-> IF m < n THEN order[m] ELSE order[m + 1]]
        BY <1>0, <1>5 DEF Drained, Container!TypeOK
      <3> QED BY <3>1, TakenOut
    <2>2. UNCHANGED <<key, stage, deps>> /\ stage[order[n]] = "ended"  BY <1>5 DEF Drained
    <2>3. \A m \in 1..Len(order) : m # n => cur'[key[order[m]]] = cur[key[order[m]]]
      <3>1. \A m \in 1..Len(order) : m # n => key[order[m]] # key[order[n]]  BY <1>0
      <3> QED BY <1>t, <1>5, <3>1 DEF Drained
    <2> DEFINE old(m) == IF m < n THEN m ELSE m + 1
    <2>4. \A m \in 1..Len(order') : /\ old(m) \in 1..Len(order) /\ old(m) # n
                                    /\ order'[m] = order[old(m)]
      BY <1>t, <2>1
    <2>5. \A l, m \in 1..Len(order') : (old(l) = old(m) => l = m) /\ (old(l) < old(m) => l < m)
      BY <1>t, <2>1
    <2> HIDE DEF old
    <2>6. \A m \in 1..Len(order') : cur'[key'[order'[m]]] = order'[m] /\ stage'[order'[m]] \in {"published", "final", "ended"}
      BY <1>0, <2>2, <2>3, <2>4
    <2>7. \A l, m \in 1..Len(order') : /\ order'[l] = order'[m] => l = m
                                       /\ order'[m] \in deps'[order'[l]] => m < l
      BY <1>0, <2>2, <2>4, <2>5
    <2>8. \A j \in Container!Inst : stage'[j] = "published" => \E m \in 1..Len(order') : order'[m] = j
      <3> SUFFICES ASSUME NEW j \in Container!Inst, stage'[j] = "published"
                   PROVE  \E m \in 1..Len(order') : order'[m] = j
        OBVIOUS
      <3>1. PICK m \in 1..Len(order) : order[m] = j  BY <1>0, <2>2
      <3>2. m # n  BY <2>2, <3>1
      <3> QED BY <2>1, <3>1, <3>2
    <2> QED BY <2>6, <2>7, <2>8
  <1>6. CASE Controls
    <2>1. CASE UNCHANGED cur  BY <1>0, <1>6, <2>1 DEF Controls
    <2>2. CASE Container!CloseReturns
      <3>1. 1..Len(order) = {} /\ \A i \in Container!Inst : stage[i] # "published"
        BY <1>0, <2>2 DEF Container!CloseReturns
      <3> QED BY <1>6, <3>1 DEF Controls
    <2> QED
      BY <1>6, <2>1, <2>2
         DEF Controls, Container!Close, Container!InitializersDrained, Container!GateCloses,
             Container!GateDrained, Container!RemoveReturns, Container!Reregister, Container!graphVars
  <1>7. ASSUME NEW n \in 1..Len(order), Closes(n) PROVE OrderInv'  BY <1>1, <1>7 DEF Closes
  <1>8. ASSUME NEW x \in Container!Resolvers, Raises(x) PROVE OrderInv'
    BY <1>1, <1>8 DEF Raises
  <1>9. ASSUME NEW i \in Container!Inst, Finishes(i) PROVE OrderInv'
    BY <1>1, <1>9 DEF Finishes
  <1>10. CASE Cancels  BY <1>1, <1>10 DEF Cancels
  <1> QED
    BY <1>1, <1>2, <1>3, <1>4, <1>5, <1>6, <1>7, <1>8, <1>9, <1>10, ContainerKinds DEF Joins, Leaves

LEMMA PhaseStep ==
    ASSUME ContainerInv, Container!Next, Container!TypeOK' PROVE PhaseInv'
  <1> USE DEF PhaseInv, controlVars, tableVars
  <1>0. Container!TypeOK /\ OrderInv /\ PhaseInv /\ InitializerInv  BY DEF ContainerInv
  <1>1. CASE /\ UNCHANGED <<controlVars, order>>
             /\ \A i \in Container!Inst :
                  /\ stage'[i] = "init" => stage[i] = "init" /\ key'[i] = key[i]
                  /\ stage'[i] = "final" => stage[i] \in {"init", "published", "final"}
                  /\ stage[i] \in {"free", "ended"} => stage'[i] \in {"free", "ended"}
    <2>1. cleanup = "published" =>
            \A i \in Container!Inst : stage'[i] = "final" => \E n \in 1..Len(order) : order[n] = i
      BY <1>0, <1>1 DEF OrderInv
    <2> QED BY <1>0, <1>1, <2>1
  <1>2. ASSUME NEW x \in Container!Resolvers, NEW k \in Keys, NEW i \in Container!Inst, Launches(x, k, i)
        PROVE  PhaseInv'
    <2>1. closed = 0 /\ avail[k] = "active" /\ UNCHANGED <<avail, closed, cleanup, removal, order>>
      BY <1>2 DEF Launches, Container!Registered
    <2>2. cleanup = "none"  BY <1>0, <2>1
    <2>3. \A j \in Container!Inst : stage'[j] = "init" => j = i \/ (stage[j] = "init" /\ key'[j] = key[j])
      BY <1>2 DEF Launches
    <2>4. key'[i] = k  BY <1>2 DEF Launches
    <2> QED BY <1>0, <2>1, <2>2, <2>3, <2>4
  <1>3. ASSUME NEW i \in Container!Inst, Publishes(i) PROVE PhaseInv'
    <2>1. closed = 0 /\ UNCHANGED <<avail, closed, cleanup, removal, key>>
      BY <1>3 DEF Publishes, Container!Registered
    <2>2. cleanup = "none"  BY <1>0, <2>1
    <2>3. \A j \in Container!Inst : stage'[j] = "init" => stage[j] = "init"
      BY <1>3 DEF Publishes
    <2> QED BY <1>0, <2>1, <2>2, <2>3
  <1>4. ASSUME NEW n \in 1..Len(order), Drained(n) PROVE PhaseInv'
    <2>1. UNCHANGED <<avail, closed, cleanup, removal, key, stage>> /\ stage[order[n]] = "ended"
      BY <1>4 DEF Drained
    <2>2. \A m \in 1..Len(order) : m # n => \E l \in 1..Len(order') : order'[l] = order[m]
      <3>1. order' = [m \in 1..(Len(order) - 1) |-> IF m < n THEN order[m] ELSE order[m + 1]]
        BY <1>4 DEF Drained
      <3>2. order \in Seq(Container!Inst)  BY <1>0 DEF Container!TypeOK
      <3> QED BY <3>1, <3>2, TakenOut
    <2>3. cleanup = "published" =>
            \A i \in Container!Inst : stage[i] = "final" => \E l \in 1..Len(order') : order'[l] = i
      BY <1>0, <2>1, <2>2
    <2> QED BY <1>0, <2>1, <2>3
  <1>5. CASE Cancels  BY <1>0, <1>5 DEF Cancels
  <1>6. CASE Controls
    <2>1. UNCHANGED <<order, key, stage>>  BY <1>6 DEF Controls
    <2>2. CASE Container!Close
      BY <1>0, <2>1, <2>2 DEF Container!Close, Container!graphVars, Container!instVars
    <2>3. CASE Container!InitializersDrained
      BY <1>0, <2>1, <2>3 DEF Container!InitializersDrained
    <2>4. CASE Container!CloseReturns
      <3>1. \A i \in Container!Inst : stage[i] \notin {"init", "published", "final"}
        BY <1>0, <2>4 DEF Container!CloseReturns, OrderInv
      <3>2. \A i \in Container!Inst : stage[i] \in {"free", "ended"}
        BY <1>0, <3>1 DEF Container!TypeOK
      <3> QED BY <1>0, <2>1, <2>4, <3>2 DEF Container!CloseReturns
    <2>5. CASE Container!GateCloses  BY <1>0, <2>1, <2>5 DEF Container!GateCloses
    <2>6. CASE Container!GateDrained  BY <1>0, <2>1, <2>6 DEF Container!GateDrained
    <2>7. CASE Container!RemoveReturns
      <3>1. \A j \in Container!Inst : stage[j] = "init" => key[j] \notin Module
        BY <1>0, <2>7 DEF Container!RemoveReturns, Container!TypeOK
      <3> QED BY <1>0, <2>1, <2>7, <3>1 DEF Container!RemoveReturns
    <2>8. CASE Container!Reregister
      <3>1. \A k \in Module : avail'[k] = "active"  BY <2>8 DEF Container!Reregister
      <3> QED BY <1>0, <2>1, <2>8, <3>1 DEF Container!Reregister
    <2> QED BY <1>6, <2>2, <2>3, <2>4, <2>5, <2>6, <2>7, <2>8 DEF Controls
  <1>7. ASSUME NEW n \in 1..Len(order), Closes(n) PROVE PhaseInv'  BY <1>1, <1>7 DEF Closes
  <1>8. ASSUME NEW x \in Container!Resolvers, Raises(x) PROVE PhaseInv'
    BY <1>1, <1>8 DEF Raises
  <1>9. ASSUME NEW i \in Container!Inst, Finishes(i) PROVE PhaseInv'
    BY <1>1, <1>9 DEF Finishes
  <1> QED
    BY <1>1, <1>2, <1>3, <1>4, <1>5, <1>6, <1>7, <1>8, <1>9, ContainerKinds DEF Joins, Leaves, Receives

LEMMA AnswerStep ==
    ASSUME ContainerInv, Container!Next, Container!TypeOK' PROVE AnswerInv'
  <1> USE DEF AnswerInv, controlVars, tableVars
  <1>0. Container!TypeOK /\ InitializerInv /\ WaiterInv /\ OrderInv /\ PhaseInv /\ AnswerInv
    BY DEF ContainerInv
  <1>t. ASSUME NEW x \in Container!Resolvers, wait[x] # 0
        PROVE  wait[x] \in Container!Inst /\ key[wait[x]] \in Keys /\ stage[wait[x]] # "free"
    <2>1. wait[x] \in Container!Inst  BY <1>0, <1>t DEF Container!TypeOK
    <2>2. key[wait[x]] \in Keys  BY <1>0, <2>1 DEF Container!TypeOK
    <2>3. stage[wait[x]] # "free"  BY <1>0, <1>t DEF WaiterInv
    <2> QED
      BY <2>1, <2>2, <2>3
  \* A step that neither releases an owner nor sets a result
  <1>1. CASE /\ UNCHANGED <<controlVars, cur, key>>
             /\ \A i \in Container!Inst : res'[i] = "value" => res[i] = "value"
             /\ \A y \in Container!Resolvers : wait'[y] \in {0, wait[y]} \/ res[wait'[y]] = "pending"
    <2> SUFFICES ASSUME NEW y \in Container!Resolvers, wait'[y] # 0, res'[wait'[y]] = "value"
                 PROVE  wait'[y] = wait[y] /\ res[wait[y]] = "value"
      BY <1>0, <1>1
    <2>1. wait'[y] \in Container!Inst  BY DEF Container!TypeOK
    <2> QED BY <1>1, <2>1
  <1>2. ASSUME NEW x \in Container!Resolvers, NEW k \in Keys, NEW i \in Container!Inst, Launches(x, k, i)
        PROVE  AnswerInv'
    <2>1. res[i] = "pending" /\ UNCHANGED <<controlVars, cur, res>>
      BY <1>0, <1>2 DEF Launches, InitializerInv
    <2>2. \A y \in Container!Resolvers : wait'[y] = i \/ wait'[y] = wait[y]
      BY <1>2 DEF Launches
    <2>3. \A j \in Container!Inst : j # i => key'[j] = key[j]  BY <1>2 DEF Launches
    <2> QED BY <1>0, <1>t, <2>1, <2>2, <2>3
  <1>3. ASSUME NEW i \in Container!Inst, Publishes(i) PROVE AnswerInv'
    <2>1. /\ cur[key[i]] = 0 /\ cur'[key[i]] = i /\ closed = 0 /\ avail[key[i]] = "active"
          /\ UNCHANGED <<controlVars, key, wait>>
      BY <1>0, <1>3 DEF Publishes, InitializerInv, Container!Registered
    <2>2. \A j \in Container!Inst \ {i} : res'[j] = res[j]  BY <1>3 DEF Publishes
    <2>3. \A k \in Keys \ {key[i]} : cur'[k] = cur[k]  BY <1>3 DEF Publishes
    <2> SUFFICES ASSUME NEW y \in Container!Resolvers, wait[y] # 0, res'[wait[y]] = "value"
                 PROVE  \/ cur'[key[wait[y]]] = wait[y]
                        \/ /\ cur'[key[wait[y]]] = 0
                           /\ \/ closed = 1
                              \/ /\ key[wait[y]] \in Module /\ avail[key[wait[y]]] # "active"
                                 /\ removal \in {"published", "done"}
      BY <2>1
    <2>4. CASE wait[y] = i  BY <2>1, <2>4
    <2>5. CASE wait[y] # i
      <3>1. res[wait[y]] = "value"  BY <1>t, <2>2, <2>5
      <3>2. CASE key[wait[y]] = key[i]  BY <1>0, <2>1, <3>1, <3>2, <1>t
      <3>3. CASE key[wait[y]] # key[i]  BY <1>0, <1>t, <2>3, <3>1, <3>3
      <3> QED BY <3>2, <3>3
    <2> QED BY <2>4, <2>5
  <1>4. ASSUME NEW n \in 1..Len(order), Drained(n) PROVE AnswerInv'
    <2>1. UNCHANGED <<controlVars, key, res, wait>>  BY <1>4 DEF Drained
    <2>2. CASE UNCHANGED cur  BY <1>0, <2>1, <2>2
    <2>3. CASE /\ removal = "published" /\ key[order[n]] \in Module
               /\ cur'[key[order[n]]] = 0
               /\ \A k \in Keys \ {key[order[n]]} : UNCHANGED cur[k]
      <3>1. avail[key[order[n]]] # "active"  BY <1>0, <2>3 DEF PhaseInv
      <3> QED BY <1>0, <1>t, <2>1, <2>3, <3>1
    <2> QED BY <1>4, <2>2, <2>3 DEF Drained
  <1>5. CASE Controls
    <2>1. UNCHANGED <<key, res, wait>>  BY <1>5 DEF Controls
    <2>2. CASE Container!Close  BY <1>0, <2>1, <2>2 DEF Container!Close, Container!graphVars
    <2>3. CASE Container!InitializersDrained
      BY <1>0, <2>1, <2>3 DEF Container!InitializersDrained, Container!graphVars
    <2>4. CASE Container!CloseReturns
      <3>1. closed' = 1 /\ \A k \in Keys : cur'[k] = 0
        BY <1>0, <2>4 DEF Container!CloseReturns, PhaseInv
      <3> QED BY <1>t, <2>1, <3>1
    <2>5. CASE Container!GateCloses
      BY <1>0, <1>t, <2>1, <2>5 DEF Container!GateCloses, Container!graphVars
    <2>6. CASE Container!GateDrained
      BY <1>0, <1>t, <2>1, <2>6 DEF Container!GateDrained, Container!graphVars
    <2>7. CASE Container!RemoveReturns
      <3>1. removal' = "done" /\ UNCHANGED <<cur, closed>> /\ \A k \in Module : avail'[k] # "active"
        BY <2>7 DEF Container!RemoveReturns
      <3> QED BY <1>0, <1>t, <2>1, <3>1
    <2>8. CASE Container!Reregister
      <3>1. UNCHANGED <<cur, closed>>  BY <2>8 DEF Container!Reregister, Container!graphVars
      <3>2. \A y \in Container!Resolvers : wait[y] # 0 => res[wait[y]] = "pending"
        BY <2>8 DEF Container!Reregister
      <3> QED BY <2>1, <3>2
    <2> QED BY <1>5, <2>2, <2>3, <2>4, <2>5, <2>6, <2>7, <2>8 DEF Controls
  <1>6. ASSUME NEW x \in Container!Resolvers, Raises(x) PROVE AnswerInv'
    BY <1>1, <1>6 DEF Raises
  <1>7. ASSUME NEW x \in Container!Resolvers, NEW i \in Container!Inst, Receives(x, i) \/ Joins(x, i)
        PROVE  AnswerInv'
    BY <1>1, <1>7 DEF Receives, Joins
  <1>8. CASE Cancels
    <2>1. \A y \in Container!Resolvers : wait[y] # 0 /\ res'[wait[y]] = "value" => res[wait[y]] = "value"
      BY <1>t, <1>8 DEF Cancels
    <2>2. \A y \in Container!Resolvers : wait'[y] \in {0, wait[y]}  BY <1>8 DEF Cancels
    <2>3. UNCHANGED <<avail, closed, removal, cur, key>>  BY <1>8 DEF Cancels
    <2> QED BY <1>0, <2>1, <2>2, <2>3
  <1>9. ASSUME NEW i \in Container!Inst, Finishes(i) PROVE AnswerInv'
    BY <1>1, <1>9 DEF Finishes
  <1>10. ASSUME NEW n \in 1..Len(order), Closes(n) PROVE AnswerInv'  BY <1>1, <1>10 DEF Closes
  <1>11. CASE Leaves  BY <1>1, <1>11 DEF Leaves
  <1> QED BY <1>2, <1>3, <1>4, <1>5, <1>6, <1>7, <1>8, <1>9, <1>10, <1>11, ContainerKinds

LEMMA ReleaseStep ==
    ASSUME ContainerInv, Container!Next, Container!TypeOK' PROVE Container!ReleasedAfterDependents'
  <1> USE DEF Container!ReleasedAfterDependents, controlVars, tableVars
  <1>0. Container!TypeOK /\ TaskInv /\ OrderInv /\ PhaseInv /\ Container!ReleasedAfterDependents
    BY DEF ContainerInv
  <1>t. \A i \in Container!Inst : deps[i] \subseteq Container!Inst
    BY <1>0 DEF Container!TypeOK
  \* A step that closes nothing
  <1>1. CASE /\ UNCHANGED <<removal, key, deps>>
             /\ \A i \in Container!Inst :
                  /\ stage[i] = "published" => stage'[i] = "published"
                  /\ stage'[i] \in {"init", "published", "final"} => stage[i] \in {"init", "published", "final"}
    BY <1>0, <1>t, <1>1
  <1>2. ASSUME NEW x \in Container!Resolvers, NEW i \in Container!Inst, Receives(x, i)
        PROVE  Container!ReleasedAfterDependents'
    BY <1>0, <1>2 DEF Receives
  <1>3. ASSUME NEW x \in Container!Resolvers, NEW k \in Keys, NEW i \in Container!Inst, Launches(x, k, i)
        PROVE  Container!ReleasedAfterDependents'
    <2>1. deps[i] = {} /\ UNCHANGED <<deps, removal>> /\ stage[i] = "free"
      BY <1>0, <1>3 DEF Launches, TaskInv
    <2>2. \A j \in Container!Inst : j # i => stage'[j] = stage[j] /\ key'[j] = key[j]
      BY <1>3 DEF Launches
    <2>3. \A l \in Container!Inst : \A j \in deps[l] : j \in Container!Inst /\ j # i
      BY <1>0, <1>t, <2>1 DEF TaskInv
    <2> QED BY <1>0, <2>1, <2>2, <2>3
  <1>4. ASSUME NEW n \in 1..Len(order), Closes(n) PROVE Container!ReleasedAfterDependents'
    <2>1. PICK i \in Container!Inst : i = order[n]  BY <1>0, ElementOfSeq DEF Container!TypeOK
    <2>2. /\ UNCHANGED <<removal, key, deps>> /\ stage[i] = "published" /\ stage'[i] = "final"
          /\ \A j \in Container!Inst \ {i} : stage'[j] = stage[j]
      BY <1>4, <2>1 DEF Closes
    <2>3. CASE removal = "published" /\ key[i] \in Module  BY <1>0, <1>t, <2>2, <2>3
    <2>4. CASE cleanup = "published" /\ n = Len(order)
      <3>1. \A j \in Container!Inst : stage[j] \in {"init", "published", "final"} => i \notin deps[j]
        <4> SUFFICES ASSUME NEW j \in Container!Inst, stage[j] \in {"init", "published", "final"}, i \in deps[j]
                     PROVE  FALSE
          OBVIOUS
        <4>1. PICK m \in 1..Len(order) : order[m] = j  BY <1>0, <2>4 DEF OrderInv, PhaseInv
        <4>2. n < m  BY <1>0, <2>1, <4>1 DEF OrderInv
        <4>3. Len(order) \in Nat  BY <1>0, LenProperties DEF Container!TypeOK
        <4> QED BY <2>4, <4>2, <4>3
      <3> QED BY <1>0, <1>t, <2>2, <3>1
    <2> QED BY <1>4, <2>1, <2>3, <2>4 DEF Closes
  <1>5. CASE Controls
    <2>1. UNCHANGED <<key, stage, deps>>  BY <1>5 DEF Controls
    <2>2. removal # "none" => removal' # "none"
      BY <1>5 DEF Controls, Container!CloseReturns, Container!RemoveReturns,
         Container!Close, Container!InitializersDrained, Container!GateCloses,
         Container!GateDrained, Container!Reregister
    <2> QED BY <1>0, <2>1, <2>2
  <1>6. ASSUME NEW x \in Container!Resolvers, Raises(x) PROVE Container!ReleasedAfterDependents'
    <2>1. \A i \in Container!Inst : stage'[i] = stage[i] \/ (stage[i] = "init" /\ stage'[i] = "final")
      BY <1>6 DEF Raises
    <2> QED BY <1>1, <1>6, <2>1 DEF Raises
  <1>7. ASSUME NEW i \in Container!Inst, Publishes(i) \/ Finishes(i) PROVE Container!ReleasedAfterDependents'
    BY <1>1, <1>7 DEF Publishes, Finishes
  <1>8. CASE Cancels  BY <1>1, <1>8 DEF Cancels
  <1> QED
    BY <1>1, <1>2, <1>3, <1>4, <1>5, <1>6, <1>7, <1>8, ContainerKinds DEF Joins, Leaves, Drained

-----------------------------------------------------------------------------
(* The wait graph of the container.                                        *)

LEMMA ChainKept ==
    ASSUME NEW x, NEW k, x \in Container!Inst => path'[x] = path[x]
    PROVE  Container!Chain(x, k)' = Container!Chain(x, k)
  BY DEF Container!Chain, Container!PathOf

LEMMA WaitersFinite ==
    ASSUME NEW e
    PROVE  IsFiniteSet(Waiters(e)) /\ Cardinality(Waiters(e)) \in Nat
  <1>1. IsFiniteSet(1..MaxInst)  BY FS_Interval
  <1>2. IsFiniteSet(Container!Resolvers)  BY <1>1, FS_Union
  <1>3. Waiters(e) \subseteq Container!Resolvers  BY DEF Waiters
  <1> HIDE DEF Container!Resolvers, Container!Inst
  <1>4. IsFiniteSet(Waiters(e))  BY <1>2, <1>3, FS_Subset
  <1> QED BY <1>4, FS_CardinalityType

\* Nobody begins or ceases to wait.
LEMMA WaitersKept ==
    ASSUME Container!TypeOK, UNCHANGED <<key, path, wait>>, NEW e
    PROVE  Waiters(e)' = Waiters(e)
  <1>1. \A x \in Container!Resolvers, k \in Keys : Container!Chain(x, k)' = Container!Chain(x, k)
    BY ChainKept
  <1> QED BY <1>1 DEF Waiters

\* x begins to wait for instance i of key k.
LEMMA WaitersMore ==
    ASSUME Container!TypeOK, NEW x \in Container!Resolvers, NEW k \in Keys, NEW i \in Container!Inst,
           wait[x] = 0, wait' = [wait EXCEPT ![x] = i], key'[i] = k,
           x \in Container!Inst => path'[x] = path[x],
           \A y \in Container!Resolvers : wait[y] # 0 =>
             /\ key'[wait[y]] = key[wait[y]]
             /\ y \in Container!Inst => path'[y] = path[y],
           NEW e
    PROVE  /\ x \notin Waiters(e)
           /\ Waiters(e)' = IF e \in Container!Chain(x, k) THEN Waiters(e) \cup {x} ELSE Waiters(e)
  <1>1. x \notin Waiters(e)  BY DEF Waiters
  <1>2. \A y \in Container!Resolvers : wait'[y] = IF y = x THEN i ELSE wait[y]
    BY DEF Container!TypeOK
  <1>3. x \in Waiters(e)' <=> e \in Container!Chain(x, k)
    <2>1. Container!Chain(x, k)' = Container!Chain(x, k)  BY ChainKept
    <2>2. wait'[x] = i  BY <1>2
    <2> QED BY <2>1, <2>2 DEF Waiters
  <1>4. ASSUME NEW y \in Container!Resolvers, y # x PROVE y \in Waiters(e)' <=> y \in Waiters(e)
    <2>1. wait'[y] = wait[y]  BY <1>2, <1>4
    <2>2. CASE wait[y] = 0  BY <2>1, <2>2 DEF Waiters
    <2>3. CASE wait[y] # 0
      <3>1. key'[wait[y]] = key[wait[y]]  BY <2>3
      <3>2. \A l \in Keys : Container!Chain(y, l)' = Container!Chain(y, l)  BY <2>3, ChainKept
      <3> QED BY <2>1, <3>1, <3>2 DEF Waiters
    <2> QED BY <2>2, <2>3
  <1>5. Waiters(e) \subseteq Container!Resolvers /\ Waiters(e)' \subseteq Container!Resolvers
    BY DEF Waiters
  <1> HIDE DEF Container!Resolvers
  <1>6. CASE e \in Container!Chain(x, k)
    <2>1. \A y \in Container!Resolvers : y \in Waiters(e)' <=> y \in Waiters(e) \cup {x}
      BY <1>3, <1>4, <1>6
    <2> QED BY <1>1, <1>5, <1>6, <2>1
  <1>7. CASE e \notin Container!Chain(x, k)
    <2>1. \A y \in Container!Resolvers : y \in Waiters(e)' <=> y \in Waiters(e)
      BY <1>1, <1>3, <1>4, <1>7
    <2> QED BY <1>1, <1>5, <1>7, <2>1
  <1> QED BY <1>6, <1>7

\* x ceases to wait.
LEMMA WaitersLess ==
    ASSUME Container!TypeOK, NEW x \in Container!Resolvers, NEW k \in Keys, NEW i \in Container!Inst,
           wait[x] = i, key[i] = k, wait' = [wait EXCEPT ![x] = 0], UNCHANGED <<key, path>>, NEW e
    PROVE  /\ x \in Waiters(e) <=> e \in Container!Chain(x, k)
           /\ Waiters(e)' = Waiters(e) \ {x}
  <1>1. x \in Waiters(e) <=> e \in Container!Chain(x, k)  BY DEF Waiters
  <1>2. \A y \in Container!Resolvers : wait'[y] = IF y = x THEN 0 ELSE wait[y]
    BY DEF Container!TypeOK
  <1>3. x \notin Waiters(e)'  BY <1>2 DEF Waiters
  <1>4. ASSUME NEW y \in Container!Resolvers, y # x PROVE y \in Waiters(e)' <=> y \in Waiters(e)
    <2>1. \A l \in Keys : Container!Chain(y, l)' = Container!Chain(y, l)  BY ChainKept
    <2>2. wait'[y] = wait[y]  BY <1>2, <1>4
    <2> QED BY <2>1, <2>2 DEF Waiters
  <1>5. Waiters(e) \subseteq Container!Resolvers /\ Waiters(e)' \subseteq Container!Resolvers
    BY DEF Waiters
  <1> HIDE DEF Container!Resolvers
  <1> QED BY <1>1, <1>3, <1>4, <1>5

\* Counts that do not grow from zero close no circle.
LEMMA FewerWaits ==
    ASSUME NoCircle, \A e \in Keys \X Keys : waits[e] = 0 => waits'[e] = 0
    PROVE  NoCircle'
  BY DEF NoCircle

LEMMA MoreWaits ==
    ASSUME Container!TypeOK, NEW x \in Container!Resolvers, NEW k \in Keys,
           wait[x] = 0, Container!AddWaits(x, k), ~Container!Circular(x, k)
    PROVE  NoCircle'
  <1>1. Container!Acyclic({e \in Keys \X Keys : waits[e] > 0} \cup Container!Chain(x, k))
    BY DEF Container!Circular
  <1> SUFFICES ASSUME NEW S \in SUBSET Keys, S # {}
               PROVE  \E m \in S : \A l \in S : waits'[<<m, l>>] = 0
    BY DEF NoCircle
  <1>2. PICK m \in S : \A l \in S :
          <<m, l>> \notin {e \in Keys \X Keys : waits[e] > 0} \cup Container!Chain(x, k)
    BY <1>1 DEF Container!Acyclic
  <1>3. ASSUME NEW l \in S PROVE waits'[<<m, l>>] = 0
    <2>1. PICK e \in Keys \X Keys : e = <<m, l>>  OBVIOUS
    <2>2. ~(waits[e] > 0) /\ e \notin Container!Chain(x, k)  BY <1>2, <2>1
    <2>3. waits[e] = 0  BY <2>2 DEF Container!TypeOK
    <2>4. waits'[e] = 0  BY <2>2, <2>3 DEF Container!AddWaits
    <2> QED BY <2>1, <2>4
  <1> QED BY <1>3

\* One more resolution under way, and its edges counted
LEMMA GraphMore ==
    ASSUME Container!TypeOK, GraphInv, NEW x \in Container!Resolvers, NEW k \in Keys, NEW i \in Container!Inst,
           wait[x] = 0, wait' = [wait EXCEPT ![x] = i], key'[i] = k,
           x \in Container!Inst => path'[x] = path[x],
           \A y \in Container!Resolvers : wait[y] # 0 =>
             /\ key'[wait[y]] = key[wait[y]]
             /\ y \in Container!Inst => path'[y] = path[y],
           Container!AddWaits(x, k), ~Container!Circular(x, k), UNCHANGED cleanup
    PROVE  GraphInv'
  <1>1. NoCircle'  BY MoreWaits
  <1>2. ASSUME cleanup # "done", NEW e \in Keys \X Keys
        PROVE  waits'[e] = Cardinality(Waiters(e)')
    <2>1. waits[e] = Cardinality(Waiters(e)) /\ waits[e] \in Nat
      BY <1>2 DEF GraphInv, Container!TypeOK
    <2>2. waits'[e] = waits[e] + IF e \in Container!Chain(x, k) THEN 1 ELSE 0
      BY DEF Container!AddWaits
    <2>3. /\ x \notin Waiters(e)
          /\ Waiters(e)' = IF e \in Container!Chain(x, k) THEN Waiters(e) \cup {x} ELSE Waiters(e)
      BY WaitersMore
    <2>4. Cardinality(Waiters(e) \cup {x}) = Cardinality(Waiters(e)) + 1
      BY <2>3, WaitersFinite, FS_AddElement
    <2> QED BY <2>1, <2>2, <2>3, <2>4
  <1> QED BY <1>1, <1>2 DEF GraphInv

\* A resolution is over, and its edges are taken back.
LEMMA GraphLess ==
    ASSUME Container!TypeOK, GraphInv, NEW x \in Container!Resolvers, NEW k \in Keys, NEW i \in Container!Inst,
           wait[x] = i, key[i] = k, wait' = [wait EXCEPT ![x] = 0], UNCHANGED <<key, path, cleanup>>,
           Container!RemoveWaits(x, k)
    PROVE  GraphInv'
  <1>0. \A e \in Keys \X Keys : waits[e] \in Nat  BY DEF Container!TypeOK
  <1>1. NoCircle'
    <2>1. \A e \in Keys \X Keys : waits[e] = 0 => waits'[e] = 0
      BY <1>0 DEF Container!RemoveWaits, Container!Less
    <2> QED BY <2>1, FewerWaits DEF GraphInv
  <1>2. ASSUME cleanup # "done", NEW e \in Keys \X Keys
        PROVE  waits'[e] = Cardinality(Waiters(e)')
    <2>1. waits[e] = Cardinality(Waiters(e))  BY <1>2 DEF GraphInv
    <2>2. /\ x \in Waiters(e) <=> e \in Container!Chain(x, k)
          /\ Waiters(e)' = Waiters(e) \ {x}
      BY WaitersLess
    <2>3. CASE e \in Container!Chain(x, k)
      <3>1. Cardinality(Waiters(e) \ {x}) = Cardinality(Waiters(e)) - 1 /\ Cardinality(Waiters(e) \ {x}) \in Nat
        BY <2>2, <2>3, WaitersFinite, FS_RemoveElement, FS_CardinalityType
      <3>2. waits'[e] = Container!Less(waits[e], 1)  BY <2>3 DEF Container!RemoveWaits
      <3> QED BY <1>0, <2>1, <2>2, <3>1, <3>2 DEF Container!Less
    <2>4. CASE e \notin Container!Chain(x, k)
      <3>1. waits'[e] = Container!Less(waits[e], 0) /\ Waiters(e)' = Waiters(e)
        BY <2>2, <2>4 DEF Container!RemoveWaits
      <3> QED BY <1>0, <2>1, <3>1 DEF Container!Less
    <2> QED BY <2>3, <2>4
  <1> QED BY <1>1, <1>2 DEF GraphInv

\* The initializations under way are cancelled, and all their edges are taken back at once.
LEMMA GraphCancelled ==
    ASSUME Container!TypeOK, WaiterInv, GraphInv, Container!CancelInitializers
    PROVE  GraphInv'
  <1> DEFINE W == {i \in Container!Inst : stage[i] = "init" /\ wait[i] # 0}
             Gone(e) == {i \in W : e \in Container!Chain(i, key[wait[i]])}
  <1>0. \A e \in Keys \X Keys : waits[e] \in Nat /\ Cardinality(Waiters(e)) \in Nat
    BY WaitersFinite DEF Container!TypeOK
  <1>1. /\ cleanup # "done" /\ UNCHANGED <<key, path>>
        /\ \A x \in Container!Resolvers : wait'[x] = IF x \in W THEN 0 ELSE wait[x]
    BY DEF Container!CancelInitializers
  <1>2. \A e \in Keys \X Keys : waits'[e] = Container!Less(waits[e], Cardinality(Gone(e)))
    BY SameCardinality DEF Container!CancelInitializers
  <1>3. ASSUME NEW e \in Keys \X Keys
        PROVE  Gone(e) = Waiters(e) \cap W /\ Waiters(e)' = Waiters(e) \ Gone(e)
    <2>1. \A x \in Container!Resolvers, k \in Keys : Container!Chain(x, k)' = Container!Chain(x, k)
      BY <1>1, ChainKept
    <2>2. Gone(e) = Waiters(e) \cap W
      <3>1. ASSUME NEW x \in W
            PROVE  x \in Waiters(e) <=> e \in Container!Chain(x, key[wait[x]])
        <4>1. PICK i \in Container!Inst, k \in Keys : wait[x] = i /\ key[i] = k
          <5>1. wait[x] \in Container!Inst
            <6>1. x \in Container!Resolvers /\ wait[x] # 0  BY <3>1
            <6>2. wait[x] \in 0..MaxInst  BY <6>1 DEF Container!TypeOK
            <6> QED BY <6>1, <6>2
          <5>2. key[wait[x]] \in Keys  BY <5>1 DEF Container!TypeOK
          <5> QED BY <5>1, <5>2
        <4> QED BY <3>1, <4>1 DEF Waiters
      <3> QED BY <3>1
    <2> HIDE DEF W, Gone
    <2>3. Waiters(e)' = Waiters(e) \ W  BY <1>1, <2>1 DEF Waiters
    <2> QED BY <2>2, <2>3
  <1> HIDE DEF W, Gone
  <1>4. ASSUME NEW e \in Keys \X Keys
        PROVE  /\ Cardinality(Waiters(e)') = Cardinality(Waiters(e)) - Cardinality(Gone(e))
               /\ Cardinality(Gone(e)) \in Nat /\ Cardinality(Gone(e)) <= Cardinality(Waiters(e))
    <2>1. Gone(e) = Waiters(e) \cap Gone(e) /\ Gone(e) \subseteq Waiters(e)  BY <1>3
    <2>2. Cardinality(Waiters(e) \ Gone(e)) = Cardinality(Waiters(e)) - Cardinality(Waiters(e) \cap Gone(e))
      BY WaitersFinite, FS_Difference
    <2>3. IsFiniteSet(Gone(e)) /\ Cardinality(Gone(e)) <= Cardinality(Waiters(e))
      BY <2>1, WaitersFinite, FS_Subset
    <2>4. Cardinality(Gone(e)) \in Nat  BY <2>3, FS_CardinalityType
    <2> QED BY <1>3, <2>1, <2>2, <2>3, <2>4
  <1>5. \A e \in Keys \X Keys : waits'[e] = Cardinality(Waiters(e)')
    BY <1>0, <1>1, <1>2, <1>4 DEF GraphInv, Container!Less
  <1>6. \A e \in Keys \X Keys : waits[e] = 0 => waits'[e] = 0
    BY <1>0, <1>2, <1>4 DEF Container!Less
  <1> QED BY <1>5, <1>6, FewerWaits DEF GraphInv

LEMMA GraphStep ==
    ASSUME ContainerInv, Container!Next, Container!TypeOK' PROVE GraphInv'
  <1> USE DEF Container!ctlVars, Container!graphVars, Container!instVars
  <1>0. Container!TypeOK /\ InitializerInv /\ WaiterInv /\ PhaseInv /\ GraphInv
    BY DEF ContainerInv
  <1>w. ASSUME NEW x \in Container!Resolvers, wait[x] # 0
        PROVE  wait[x] \in Container!Inst /\ key[wait[x]] \in Keys
    <2>1. wait[x] \in 0..MaxInst  BY <1>0 DEF Container!TypeOK
    <2>2. wait[x] \in Container!Inst  BY <1>w, <2>1
    <2>3. key[wait[x]] \in Keys  BY <1>0, <2>2 DEF Container!TypeOK
    <2> QED
      BY <2>2, <2>3
  \* A step that no resolution begins or ends with
  <1>1. CASE UNCHANGED <<waits, key, path, wait>> /\ (cleanup' # "done" => cleanup # "done")
    <2>1. \A e \in Keys \X Keys : Waiters(e)' = Waiters(e)  BY <1>0, <1>1, WaitersKept
    <2>2. NoCircle'  BY <1>0, <1>1 DEF GraphInv, NoCircle
    <2> QED BY <1>0, <1>1, <2>1, <2>2 DEF GraphInv
  <1>2. ASSUME NEW x \in Container!Resolvers, NEW i \in Container!Inst,
               Container!Receive(x, i) \/ Container!Raise(x)
        PROVE  UNCHANGED <<key, path>>
    BY <1>2 DEF Container!Receive, Container!Raise
  <1>3. ASSUME NEW x \in Container!Resolvers, NEW k \in Keys, Container!Refuse(x, k) \/ Container!Hit(x, k)
        PROVE  GraphInv'
    <2>1. UNCHANGED <<waits, cleanup, wait>>  BY <1>3 DEF Container!Refuse, Container!Hit
    <2>2. UNCHANGED <<key, path>>
      <3>1. CASE Container!Refuse(x, k)  BY <3>1 DEF Container!Refuse, Container!Raise
      <3>2. CASE Container!Hit(x, k)  BY <3>2 DEF Container!Hit, Container!Receive
      <3> QED BY <1>3, <3>1, <3>2
    <2> QED BY <1>1, <2>1, <2>2
  <1>4. ASSUME NEW x \in Container!Resolvers, NEW k \in Keys, Container!Join(x, k)
        PROVE  GraphInv'
    <2>1. /\ wait[x] = 0 /\ Container!AddWaits(x, k) /\ ~Container!Circular(x, k)
          /\ UNCHANGED <<cleanup, key, path>>
      BY <1>4 DEF Container!Join, Container!Miss, Container!Asks
    <2>2. PICK i \in Container!Inst : i = flight[k]
      <3>1. flight[k] \in 0..MaxInst /\ flight[k] # 0
        BY <1>0, <1>4 DEF Container!Join, Container!InFlight, Container!TypeOK
      <3> QED BY <3>1
    <2>3. key[i] = k /\ wait' = [wait EXCEPT ![x] = i]
      BY <1>0, <1>4, <2>2 DEF WaiterInv, Container!Join
    <2> QED BY <1>0, <2>1, <2>2, <2>3, GraphMore
  <1>5. ASSUME NEW x \in Container!Resolvers, NEW k \in Keys, Container!Launch(x, k)
        PROVE  GraphInv'
    <2>1. /\ wait[x] = 0 /\ Container!AddWaits(x, k) /\ ~Container!Circular(x, k)
          /\ x \in Container!Inst => stage[x] = "init"
          /\ UNCHANGED cleanup
      BY <1>5 DEF Container!Launch, Container!Miss, Container!Asks
    <2>2. PICK i \in Container!Inst :
            /\ stage[i] = "free" /\ key' = [key EXCEPT ![i] = k]
            /\ path' = [path EXCEPT ![i] = Append(Container!PathOf(x), k)]
            /\ wait' = [wait EXCEPT ![x] = i]
      BY <1>5 DEF Container!Launch
    <2>3. key'[i] = k /\ \A j \in Container!Inst : j # i => key'[j] = key[j] /\ path'[j] = path[j]
      BY <1>0, <2>2 DEF Container!TypeOK
    <2>4. x \in Container!Inst => path'[x] = path[x]  BY <2>1, <2>2, <2>3
    <2>5. ASSUME NEW y \in Container!Resolvers, wait[y] # 0
          PROVE  key'[wait[y]] = key[wait[y]] /\ (y \in Container!Inst => path'[y] = path[y])
      <3>1. stage[wait[y]] # "free" /\ (y \in Container!Inst => stage[y] = "init")
        BY <1>0, <2>5 DEF WaiterInv
      <3>2. wait[y] \in Container!Inst  BY <1>w, <2>5
      <3> QED BY <2>2, <2>3, <3>1, <3>2
    <2> QED BY <1>0, <2>1, <2>2, <2>3, <2>4, <2>5, GraphMore
  <1>6. ASSUME NEW x \in Container!Resolvers, Container!Answer(x) \/ Container!Abandon(x)
        PROVE  GraphInv'
    <2>1. /\ wait[x] # 0 /\ wait' = [wait EXCEPT ![x] = 0] /\ UNCHANGED cleanup
          /\ Container!RemoveWaits(x, key[wait[x]])
      BY <1>6 DEF Container!Answer, Container!Abandon
    <2>2. PICK i \in Container!Inst, k \in Keys : wait[x] = i /\ key[i] = k  BY <1>w, <2>1
    <2>3. UNCHANGED <<key, path>>
      <3>1. CASE Container!Answer(x)
        BY <3>1 DEF Container!Answer, Container!Receive, Container!Raise
      <3>2. CASE Container!Abandon(x)  BY <3>2 DEF Container!Abandon
      <3> QED BY <1>6, <3>1, <3>2
    <2>4. Container!RemoveWaits(x, k)  BY <2>1, <2>2
    <2> QED BY <1>0, <2>1, <2>2, <2>3, <2>4, GraphLess
  <1>7. ASSUME NEW c \in Requests, Container!Forget(c) PROVE GraphInv'
    BY <1>1, <1>7 DEF Container!Forget
  <1>8. ASSUME NEW i \in Container!Inst, Container!Fail(i) \/ Container!Publish(i) \/ Container!Finish(i)
        PROVE  GraphInv'
    <2>1. UNCHANGED <<waits, cleanup, wait>>
      BY <1>8 DEF Container!Fail, Container!Publish, Container!Finish
    <2>2. UNCHANGED <<key, path>>
      BY <1>8 DEF Container!Fail, Container!Publish, Container!Finish, Container!Raise
    <2> QED BY <1>1, <2>1, <2>2
  <1>9. CASE Container!CancelInitializers  BY <1>0, <1>9, GraphCancelled
  <1>10. CASE Container!CloseReturns
    <2>1. cleanup' = "done" /\ waits' = [e \in Keys \X Keys |-> 0]
      BY <1>10 DEF Container!CloseReturns
    <2>2. NoCircle'  BY <2>1 DEF NoCircle
    <2> QED BY <2>1, <2>2 DEF GraphInv
  <1>11. CASE \/ Container!InitializersDrained \/ Container!CloseNext \/ Container!CloseDrained
              \/ Container!RemovalStep
    BY <1>1, <1>11 DEF Container!InitializersDrained, Container!CloseNext, Container!CloseDrained,
       Container!RemovalStep, Container!GateDrained, Container!RemoveNext, Container!RemoveDrained,
       Container!RemoveReturns
  <1>12. CASE Container!Close \/ Container!GateCloses \/ Container!Reregister
    <2>1. CASE Container!Close
      <3>1. UNCHANGED <<waits, key, path, wait>> /\ closed = 0  BY <2>1 DEF Container!Close
      <3>2. cleanup # "done"  BY <1>0, <3>1 DEF PhaseInv
      <3> QED BY <1>1, <3>1, <3>2
    <2>2. CASE Container!GateCloses \/ Container!Reregister
      BY <1>1, <2>2 DEF Container!GateCloses, Container!Reregister
    <2> QED BY <1>12, <2>1, <2>2
  <1>13. ASSUME NEW x \in Container!Resolvers, Container!Resolve(x) PROVE GraphInv'
    BY <1>3, <1>4, <1>5, <1>6, <1>13 DEF Container!Resolve
  <1> QED
    BY <1>6, <1>7, <1>8, <1>9, <1>10, <1>11, <1>12, <1>13
       DEF Container!Next, Container!OwnerStep, Container!CleanupStep


LEMMA ContainerStep == ContainerInv /\ [Container!Next]_containerVars => ContainerInv'
  <1> SUFFICES ASSUME ContainerInv, [Container!Next]_containerVars PROVE ContainerInv'
    OBVIOUS
  <1>1. CASE Container!Next
    BY <1>1, ContainerTypes, InitializerStep, TaskStep, WaiterStep, OrderStep, PhaseStep, AnswerStep,
       ReleaseStep, GraphStep DEF ContainerInv
  <1>2. CASE UNCHANGED containerVars
    <2>1. Container!TypeOK' /\ InitializerInv' /\ TaskInv'
      BY <1>2 DEF ContainerInv, Container!TypeOK, InitializerInv, TaskInv, containerVars
    <2>2. WaiterInv' /\ PhaseInv' /\ AnswerInv'
      BY <1>2 DEF ContainerInv, WaiterInv, PhaseInv, AnswerInv, containerVars
    <2>3. OrderInv' /\ Container!ReleasedAfterDependents'
      BY <1>2 DEF ContainerInv, OrderInv, Container!ReleasedAfterDependents, containerVars
    <2>4. \A e \in Keys \X Keys : Waiters(e)' = Waiters(e)
      BY <1>2, WaitersKept DEF ContainerInv, containerVars
    <2>5. UNCHANGED <<waits, cleanup>>  BY <1>2 DEF containerVars
    <2>6. GraphInv'  BY <2>4, <2>5 DEF ContainerInv, GraphInv, NoCircle
    <2> QED BY <2>1, <2>2, <2>3, <2>6 DEF ContainerInv
  <1> QED BY <1>1, <1>2

-----------------------------------------------------------------------------
(* What the invariant of the container says of its promises.               *)

LEMMA OwnerIsOne == ContainerInv => Container!OneOwner
  BY DEF ContainerInv, Container!TypeOK, InitializerInv, Container!OneOwner

LEMMA CountsAreExact == ContainerInv => Container!WaitsExact
  <1> SUFFICES ASSUME ContainerInv, cleanup # "done", NEW e \in Keys \X Keys
               PROVE  waits[e] = Container!Cardinality(
                        {x \in Container!Resolvers : wait[x] # 0 /\ e \in Container!Chain(x, key[wait[x]])})
    BY DEF Container!WaitsExact
  <1> DEFINE S == {x \in Container!Resolvers : wait[x] # 0 /\ e \in Container!Chain(x, key[wait[x]])}
  <1>1. ASSUME NEW x \in Container!Resolvers PROVE x \in S <=> x \in Waiters(e)
    <2>1. CASE wait[x] = 0  BY <2>1 DEF Waiters
    <2>2. CASE wait[x] # 0
      <3>1. wait[x] \in 0..MaxInst  BY DEF ContainerInv, Container!TypeOK
      <3>2. wait[x] \in Container!Inst  BY <2>2, <3>1
      <3>3. PICK i \in Container!Inst, k \in Keys : wait[x] = i /\ key[i] = k
        BY <3>2 DEF ContainerInv, Container!TypeOK
      <3> QED BY <2>2, <3>3 DEF Waiters
    <2> QED BY <2>1, <2>2
  <1>2. S = Waiters(e)
    <2>1. S \subseteq Container!Resolvers /\ Waiters(e) \subseteq Container!Resolvers
      BY DEF Waiters
    <2> HIDE DEF S, Container!Resolvers
    <2> QED BY <1>1, <2>1
  <1>3. waits[e] = Cardinality(Waiters(e))  BY DEF ContainerInv, GraphInv
  <1> QED BY <1>2, <1>3, SameCardinality

\* Tasks that waited for each other in a circle would make a circle of edges.
LEMMA CircleOfTasks == ContainerInv => Container!NoCircularWait
  <1> SUFFICES ASSUME ContainerInv, NEW S \in SUBSET Container!Inst, S # {},
                      \A i \in S : wait[i] \in S
               PROVE  FALSE
    BY DEF Container!NoCircularWait
  <1>0. Container!TypeOK /\ TaskInv /\ WaiterInv /\ PhaseInv /\ GraphInv  BY DEF ContainerInv
  <1>1. \A i \in S : i \in Container!Inst /\ wait[i] \in Container!Inst /\ wait[i] # 0 /\ stage[i] = "init"
    BY <1>0 DEF WaiterInv
  <1>2. cleanup # "done"  BY <1>0, <1>1 DEF PhaseInv
  <1> DEFINE T == {key[i] : i \in S}
  <1>3. T \subseteq Keys /\ T # {}
    <2>1. \A i \in S : key[i] \in Keys /\ key[i] \in T  BY <1>0 DEF Container!TypeOK
    <2>2. \A k \in T : \E i \in S : k = key[i]  OBVIOUS
    <2>3. PICK i : i \in S  OBVIOUS
    <2> HIDE DEF T
    <2>4. T \subseteq Keys  BY <2>1, <2>2
    <2> QED BY <2>1, <2>3, <2>4
  <1>4. PICK k \in T : \A l \in T : waits[<<k, l>>] = 0  BY <1>0, <1>3 DEF GraphInv, NoCircle
  <1>5. PICK i \in S : key[i] = k  OBVIOUS
  <1>6. PICK j \in S : wait[i] = j  OBVIOUS
  <1>7. PICK l \in T : key[j] = l  OBVIOUS
  <1> HIDE DEF T
  <1>8. k \in Keys /\ l \in Keys /\ i \in Container!Resolvers  BY <1>1, <1>3
  <1>9. <<k, l>> \in Container!Chain(i, l)
    <2>1. Container!PathOf(i) = path[i] /\ path[i] \in Seq(Keys)
      BY <1>0, <1>1 DEF Container!PathOf, Container!TypeOK
    <2>2. Len(path[i]) > 0 /\ path[i][Len(path[i])] = k  BY <1>0, <1>1, <1>5 DEF TaskInv
    <2>3. PICK n : n = Len(path[i])  OBVIOUS
    <2>4. n \in Nat /\ n > 0  BY <2>1, <2>2, <2>3, LenProperties
    <2> DEFINE p == Append(Container!PathOf(i), l)
    <2>5. Len(p) = n + 1 /\ p[n] = k /\ p[n + 1] = l
      BY <1>8, <2>1, <2>2, <2>3, <2>4, AppendProperties
    <2>6. n \in 1..(Len(p) - 1)  BY <2>4, <2>5
    <2> QED BY <2>5, <2>6 DEF Container!Chain
  <1>10. i \in Waiters(<<k, l>>)  BY <1>1, <1>6, <1>7, <1>8, <1>9 DEF Waiters
  <1>11. Cardinality(Waiters(<<k, l>>)) = 0  BY <1>0, <1>2, <1>4, <1>8 DEF GraphInv
  <1>12. Waiters(<<k, l>>) = {}  BY <1>11, WaitersFinite, FS_EmptySet
  <1> QED BY <1>10, <1>12

LEMMA ContainerSuffices ==
    ContainerInv => /\ Container!OwnersSound
                    /\ Container!NoCircularWait
                    /\ Container!ReleasedAfterDependents
  BY OwnerIsOne, CountsAreExact, CircleOfTasks
     DEF ContainerInv, PhaseInv, Container!OwnersSound, Container!ClosedIsReleased

\* What a step returns to a caller is the published owner that it has just checked.
LEMMA ReturnedStep == ContainerInv /\ [Container!Next]_containerVars => Container!ReturnsLive
  <1> SUFFICES ASSUME ContainerInv, [Container!Next]_containerVars,
                      NEW c \in Requests, got[c] = 0, got'[c] # 0
               PROVE  Container!Valid(got'[c])
    BY DEF Container!ReturnsLive
  <1> USE DEF Container!graphVars, Container!instVars
  <1>0. Container!TypeOK /\ AnswerInv  BY DEF ContainerInv
  <1>1. ASSUME NEW x \in Container!Resolvers, NEW i, Container!Receive(x, i)
        PROVE  x = c /\ got'[c] = i
    <2>1. x \notin Container!Inst  BY <1>1 DEF Container!Receive
    <2>2. got' = [got EXCEPT ![x] = i]  BY <1>1, <2>1 DEF Container!Receive
    <2> QED BY <1>0, <2>2 DEF Container!TypeOK
  <1>2. ASSUME NEW x \in Container!Resolvers, Container!Raise(x) PROVE FALSE
    BY <1>2 DEF Container!Raise
  <1>3. ASSUME NEW x \in Container!Resolvers, NEW k \in Keys, Container!Hit(x, k)
        PROVE  Container!Valid(got'[c])
    BY <1>1, <1>3 DEF Container!Hit
  <1>4. ASSUME NEW x \in Container!Resolvers, Container!Answer(x)
        PROVE  Container!Valid(got'[c])
    <2>1. CASE ~Container!Raise(x)
      <3>1. /\ wait[x] # 0 /\ res[wait[x]] = "value" /\ cur[key[wait[x]]] # 0
            /\ Container!Valid(cur[key[wait[x]]]) /\ Container!Receive(x, wait[x])
        BY <1>4, <2>1 DEF Container!Answer
      <3>2. cur[key[wait[x]]] = wait[x]  BY <1>0, <3>1 DEF AnswerInv
      <3> QED BY <1>1, <3>1, <3>2
    <2> QED BY <1>2, <2>1
  <1>5. ASSUME NEW x \in Container!Resolvers, Container!Resolve(x)
        PROVE  Container!Valid(got'[c])
    <2>1. ASSUME NEW k \in Keys, Container!Refuse(x, k) PROVE FALSE
      BY <1>2, <2>1 DEF Container!Refuse
    <2>2. ASSUME NEW k \in Keys, Container!Join(x, k) \/ Container!Launch(x, k) PROVE FALSE
      BY <2>2 DEF Container!Join, Container!Launch
    <2> QED BY <1>3, <1>4, <1>5, <2>1, <2>2 DEF Container!Resolve
  <1>6. ASSUME NEW d \in Requests, Container!Forget(d) \/ Container!Abandon(d) PROVE FALSE
    BY <1>0, <1>6 DEF Container!Forget, Container!Abandon, Container!TypeOK
  <1>7. ASSUME NEW i \in Container!Inst, Container!Fail(i) \/ Container!Publish(i) \/ Container!Finish(i)
        PROVE  FALSE
    BY <1>2, <1>7 DEF Container!Fail, Container!Publish, Container!Finish
  <1>8. CASE \/ Container!Close \/ Container!CleanupStep \/ Container!GateCloses
             \/ Container!RemovalStep \/ Container!Reregister
    BY <1>8 DEF Container!Close, Container!CleanupStep, Container!GateCloses, Container!RemovalStep,
       Container!Reregister, Container!CancelInitializers, Container!InitializersDrained,
       Container!CloseNext, Container!CloseDrained, Container!CloseReturns, Container!GateDrained,
       Container!RemoveNext, Container!RemoveDrained, Container!RemoveReturns
  <1>9. CASE UNCHANGED containerVars  BY <1>9 DEF containerVars
  <1> QED BY <1>5, <1>6, <1>7, <1>8, <1>9 DEF Container!Next, Container!OwnerStep

-----------------------------------------------------------------------------
(* The container in its scene of the run.                                  *)

SingletonInv == scene = "container" => ContainerInv

LEMMA SingletonInit == MCInit => SingletonInv
  BY ContainerInit DEF MCInit, SingletonInv

LEMMA SingletonStep ==
    ASSUME SingletonInv, [MCNext]_allVars
    PROVE  SingletonInv' /\ (scene = "container" => Container!ReturnsLive)
  <1>1. scene' = scene /\ (scene = "container" => [Container!Next]_containerVars)
    BY DEF MCNext, ContainerNext, allVars
  <1> QED BY <1>1, ContainerStep, ReturnedStep DEF SingletonInv

\* However resolutions, failing providers, the removal of a module and the clean-up interleave,
\* for any keys and needs: a key has one owner, the wait graph is exact, initializations never
\* wait for each other in a circle, a resource is released after everything that retains it,
\* and nothing runs once close() has returned.
THEOREM ContainerStaysSound == MCSpec => []ContainerSound
  <1>1. SingletonInv /\ [MCNext]_allVars => SingletonInv'  BY SingletonStep
  <1>2. SingletonInv => ContainerSound  BY ContainerSuffices DEF SingletonInv, ContainerSound
  <1> QED BY SingletonInit, <1>1, <1>2, PTL DEF MCSpec

\* What a resolution returns is alive at that moment, even if the module was removed or the
\* container closed while it waited.
THEOREM ReturnsStayLive == MCSpec => ReturnedIsLive
  <1>1. SingletonInv /\ [MCNext]_allVars => SingletonInv'  BY SingletonStep
  <1>2. SingletonInv /\ [MCNext]_allVars => [scene = "container" => Container!ReturnsLive]_allVars
    BY SingletonStep
  <1> QED BY SingletonInit, <1>1, <1>2, PTL DEF MCSpec, ReturnedIsLive

=============================================================================
