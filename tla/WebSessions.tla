----------------------------- MODULE WebSessions -----------------------------
(***************************************************************************)
(* Server-side browser sessions in Redis (web_sessions.py): the requests   *)
(* that read, extend, rotate and revoke a session, each of which is        *)
(* several calls of the store with others in between.                      *)
(*                                                                         *)
(* A step is one call of Redis or of the membership database with the code *)
(* up to the next await; a Lua script and a pipeline are atomic.  A handle *)
(* stands for its digest and is never generated twice.                     *)
(***************************************************************************)
EXTENDS Integers, FiniteSets

CONSTANTS
    MaxHandles,   \* bound: opaque session handles
    Principals,
    Requests,     \* concurrent HTTP requests
    IdleTTL,      \* idle_ttl
    AbsoluteTTL,  \* absolute_ttl
    MaxTime       \* bound: the clock

ASSUME SessionAssumption ==
    /\ IdleTTL \in Nat \ {0} /\ AbsoluteTTL \in Nat \ {0}
    /\ Principals # {}
    /\ MaxTime \in Nat /\ MaxHandles \in Nat \ {0}

VARIABLES
    time,
    st,       \* the key of each handle: "free", "stored", "gone"
    own,      \* principal of the session
    gen,      \* generation
    seen,     \* last_seen_at
    idle,     \* idle_expires_at
    abs,      \* absolute_expires_at
    line,     \* the handle the login was given (history)
    born,     \* when the login was made: issued_at
    index,    \* the set of session keys of each principal
    active,   \* 1 when the principal's tenant, row and membership are valid
    purge,    \* the keys revoke_principal() has read
    purging,  \* 1 between its two commands
    raced,    \* 1 once a key was added between its two commands (history)
    pc, op, hd,  \* each request: where it is, what it does, its handle
    copy,     \* the idle_expires_at it has read
    want,     \* the idle_expires_at it asks for
    now       \* the instant it took for the script

vars == <<time, st, own, gen, seen, idle, abs, line, born, index, active,
          purge, purging, raced, pc, op, hd, copy, want, now>>
sessionVars == <<own, gen, seen, idle, abs, line, born>>
purgeVars   == <<purge, purging, raced>>
requestVars == <<pc, op, hd, copy, want, now>>

\* Handles in the order in which they are made.
Handles == 1..MaxHandles

Op == {"use", "rotate", "logout", "replace"}
AnyPrincipal == CHOOSE p \in Principals : TRUE

Init ==
    /\ time = 0
    /\ st = [h \in Handles |-> "free"]
    /\ own = [h \in Handles |-> AnyPrincipal]
    /\ gen = [h \in Handles |-> 1]
    /\ seen = [h \in Handles |-> 0]
    /\ idle = [h \in Handles |-> 0]
    /\ abs = [h \in Handles |-> 0]
    /\ line = [h \in Handles |-> h]
    /\ born = [h \in Handles |-> 0]
    /\ index = [p \in Principals |-> {}]
    /\ active = [p \in Principals |-> 1]
    /\ purge = [p \in Principals |-> {}]
    /\ purging = [p \in Principals |-> 0]
    /\ raced = [p \in Principals |-> 0]
    /\ pc = [r \in Requests |-> "idle"]
    /\ op = [r \in Requests |-> "use"]
    /\ hd = [r \in Requests |-> 1]
    /\ copy = [r \in Requests |-> 0]
    /\ want = [r \in Requests |-> 0]
    /\ now = [r \in Requests |-> 0]

-----------------------------------------------------------------------------
Fresh(h) == st[h] = "free" /\ \A k \in Handles : k < h => st[k] # "free"

Least(a, b) == IF a < b THEN a ELSE b

\* WebSession.live_at; a revoked session is not stored.
LiveAt(h, t) == t < idle[h] /\ t < abs[h]

\* The request goes on with c, w and n in hand.
Go(r, where, c, w, n) ==
    /\ pc' = [pc EXCEPT ![r] = where]
    /\ copy' = [copy EXCEPT ![r] = c]
    /\ want' = [want EXCEPT ![r] = w]
    /\ now' = [now EXCEPT ![r] = n]
    /\ UNCHANGED <<op, hd>>

\* get_session, rotate_scope or logout returns or raises.
End(r) ==
    /\ pc' = [pc EXCEPT ![r] = "idle"]
    /\ op' = [op EXCEPT ![r] = "use"]
    /\ hd' = [hd EXCEPT ![r] = 1]
    /\ copy' = [copy EXCEPT ![r] = 0]
    /\ want' = [want EXCEPT ![r] = 0]
    /\ now' = [now EXCEPT ![r] = 0]

\* SADD of a new key between the two commands of revoke_principal is lost.
Race(p) == raced' = [raced EXCEPT ![p] = IF purging[p] = 1 THEN 1 ELSE @]

-----------------------------------------------------------------------------
(* Login.                                                                  *)

\* create_session and RedisWebSessionStore.create.
CreateSession(h, p) ==
    /\ Fresh(h)
    /\ st' = [st EXCEPT ![h] = "stored"]
    /\ own' = [own EXCEPT ![h] = p]
    /\ gen' = [gen EXCEPT ![h] = 1]
    /\ seen' = [seen EXCEPT ![h] = time]
    /\ idle' = [idle EXCEPT ![h] = time + IdleTTL]
    /\ abs' = [abs EXCEPT ![h] = time + AbsoluteTTL]
    /\ line' = [line EXCEPT ![h] = h]
    /\ born' = [born EXCEPT ![h] = time]
    /\ index' = [index EXCEPT ![p] = @ \cup {h}]
    /\ Race(p)
    /\ UNCHANGED <<time, active, purge, purging, requestVars>>

-----------------------------------------------------------------------------
(* A request with a session cookie: get_session, and what follows it.      *)

\* RedisWebSessionStore.get; an expired session is revoked.  A request whose key
\* is gone ends here.  The callback of a new login revokes the session of its
\* cookie without a look at it ("replace").
Get(r, h, o) ==
    /\ pc[r] = "idle" /\ st[h] = "stored"
    /\ pc' = [pc EXCEPT ![r] = IF o = "replace" THEN "revoke"
                               ELSE IF LiveAt(h, time) THEN "validate" ELSE "expired"]
    /\ op' = [op EXCEPT ![r] = o]
    /\ hd' = [hd EXCEPT ![r] = h]
    /\ copy' = [copy EXCEPT ![r] = idle[h]]
    /\ UNCHANGED <<time, st, sessionVars, index, active, purgeVars, want, now>>

\* principal_validator.validate.
Validate(r) ==
    /\ pc[r] = "validate"
    /\ \/ active[own[hd[r]]] = 0 /\ Go(r, "invalid", 0, 0, 0)
       \/ /\ active[own[hd[r]]] = 1
          /\ \/ op[r] = "use" /\ Go(r, "touch", 0, time + IdleTTL, 0)
             \/ op[r] = "rotate" /\ Go(r, "rotate", copy[r], 0, 0)
             \/ op[r] = "logout" /\ Go(r, "revoke", 0, 0, 0)
    /\ UNCHANGED <<time, st, sessionVars, index, active, purgeVars>>

\* touch() reads the session again and takes its instant.
TouchRead(r) ==
    /\ pc[r] = "touch"
    /\ IF st[hd[r]] = "gone" THEN End(r)
       ELSE IF LiveAt(hd[r], time) THEN Go(r, "write", 0, want[r], time)
       ELSE Go(r, "expired", 0, 0, 0)
    /\ UNCHANGED <<time, st, sessionVars, index, active, purgeVars>>

\* min(idle_expires_at, current.absolute_expires_at).
Candidate(r) == Least(want[r], abs[hd[r]])

\* Mutant of TouchWrite: a session that is gone is stored again.
TouchBlindly(r) ==
    /\ pc[r] = "write"
    /\ st' = [st EXCEPT ![hd[r]] = "stored"]
    /\ seen' = [seen EXCEPT ![hd[r]] = now[r]]
    /\ idle' = [idle EXCEPT ![hd[r]] = Candidate(r)]
    /\ index' = [index EXCEPT ![own[hd[r]]] = @ \cup {hd[r]}]
    /\ End(r)
    /\ UNCHANGED <<time, own, gen, abs, line, born, active, purgeVars>>

\* Mutant of Stale: the last writer wins.
NeverStale(r) == FALSE

\* Another request has extended the session further meanwhile.
Stale(r) == now[r] < seen[hd[r]] \/ Candidate(r) < idle[hd[r]]

\* The script of touch().
TouchWrite(r) ==
    /\ pc[r] = "write"
    /\ IF st[hd[r]] = "gone" \/ ~LiveAt(hd[r], now[r]) \/ Stale(r)
       THEN UNCHANGED <<seen, idle>>
       ELSE /\ seen' = [seen EXCEPT ![hd[r]] = now[r]]
            /\ idle' = [idle EXCEPT ![hd[r]] = Candidate(r)]
    /\ End(r)
    /\ UNCHANGED <<time, st, own, gen, abs, line, born, index, active, purgeVars>>

\* The replacement: the session that was read, one generation on.
Replace(r, h2, expires) ==
    LET h == hd[r]
        p == own[hd[r]] IN
        /\ st' = [st EXCEPT ![h] = "gone", ![h2] = "stored"]
        /\ own' = [own EXCEPT ![h2] = p]
        /\ gen' = [gen EXCEPT ![h2] = gen[h] + 1]
        /\ seen' = [seen EXCEPT ![h2] = time]
        /\ idle' = [idle EXCEPT ![h2] = copy[r]]
        /\ abs' = [abs EXCEPT ![h2] = expires]
        /\ line' = [line EXCEPT ![h2] = line[h]]
        /\ born' = [born EXCEPT ![h2] = born[h]]
        /\ index' = [index EXCEPT ![p] = (@ \ {h}) \cup {h2}]
        /\ Race(p)

\* Mutant of Rotate: the old key need not exist.
RotateBlindly(r, h2) ==
    /\ pc[r] = "rotate" /\ Fresh(h2)
    /\ Replace(r, h2, abs[hd[r]])
    /\ End(r)
    /\ UNCHANGED <<time, active, purge, purging>>

\* rotate_scope with the script of rotate().
Rotate(r, h2) ==
    /\ pc[r] = "rotate" /\ Fresh(h2)
    /\ st[hd[r]] = "stored"
    /\ Replace(r, h2, abs[hd[r]])
    /\ End(r)
    /\ UNCHANGED <<time, active, purge, purging>>

RotateRefused(r) ==
    /\ pc[r] = "rotate" /\ st[hd[r]] = "gone"
    /\ End(r)
    /\ UNCHANGED <<time, st, sessionVars, index, active, purgeVars>>

\* RedisWebSessionStore.revoke reads the session for its principal.
RevokeRead(r) ==
    /\ pc[r] \in {"revoke", "invalid", "expired"}
    /\ IF st[hd[r]] = "gone" THEN End(r) ELSE Go(r, "delete", 0, 0, 0)
    /\ UNCHANGED <<time, st, sessionVars, index, active, purgeVars>>

\* Its pipeline.
RevokeDelete(r) ==
    /\ pc[r] = "delete"
    /\ st' = [st EXCEPT ![hd[r]] = "gone"]
    /\ index' = [index EXCEPT ![own[hd[r]]] = @ \ {hd[r]}]
    /\ End(r)
    /\ UNCHANGED <<time, sessionVars, active, purgeVars>>

-----------------------------------------------------------------------------
(* revoke_principal: SMEMBERS, then DEL of the keys and of the index.      *)

PurgeRead(p) ==
    /\ purging[p] = 0 /\ index[p] # {}
    /\ purge' = [purge EXCEPT ![p] = index[p]]
    /\ purging' = [purging EXCEPT ![p] = 1]
    /\ UNCHANGED <<time, st, sessionVars, index, active, raced, requestVars>>

PurgeDelete(p) ==
    /\ purging[p] = 1
    /\ st' = [h \in Handles |-> IF h \in purge[p] THEN "gone" ELSE st[h]]
    /\ index' = [index EXCEPT ![p] = {}]
    /\ purging' = [purging EXCEPT ![p] = 0]
    /\ purge' = [purge EXCEPT ![p] = {}]
    /\ UNCHANGED <<time, sessionVars, active, raced, requestVars>>

-----------------------------------------------------------------------------
(* The environment.                                                        *)

\* Redis drops a key some time after its TTL; both keys get the TTL of the
\* session that is added.
ExpireSession(h) ==
    /\ st[h] = "stored" /\ abs[h] <= time
    /\ st' = [st EXCEPT ![h] = "gone"]
    /\ UNCHANGED <<time, sessionVars, index, active, purgeVars, requestVars>>

ExpireIndex(p) ==
    /\ index[p] # {} /\ \A h \in Handles : own[h] = p /\ st[h] # "free" => abs[h] <= time
    /\ \A h \in index[p] : st[h] = "gone"
    /\ index' = [index EXCEPT ![p] = {}]
    /\ UNCHANGED <<time, st, sessionVars, active, purgeVars, requestVars>>

\* A tenant, principal or membership is suspended or valid again.
SetActive(p) ==
    /\ active' = [active EXCEPT ![p] = 1 - @]
    /\ UNCHANGED <<time, st, sessionVars, index, purgeVars, requestVars>>

Tick ==
    /\ time < MaxTime
    /\ time' = time + 1
    /\ UNCHANGED <<st, sessionVars, index, active, purgeVars, requestVars>>

RequestStep(r) ==
    \/ Validate(r) \/ TouchRead(r) \/ TouchWrite(r) \/ RotateRefused(r)
    \/ \E h2 \in Handles : Rotate(r, h2)
    \/ RevokeRead(r) \/ RevokeDelete(r)

Next ==
    \/ \E h \in Handles, p \in Principals : CreateSession(h, p)
    \/ \E r \in Requests, h \in Handles, o \in Op : Get(r, h, o)
    \/ \E r \in Requests : RequestStep(r)
    \/ \E p \in Principals : PurgeRead(p) \/ PurgeDelete(p) \/ ExpireIndex(p) \/ SetActive(p)
    \/ \E h \in Handles : ExpireSession(h)
    \/ Tick

Spec == Init /\ [][Next]_vars

-----------------------------------------------------------------------------
(* Properties.                                                             *)

PC == {"idle", "validate", "touch", "write", "rotate", "revoke", "invalid", "expired", "delete"}

SessionTypes ==
    /\ st \in [Handles -> {"free", "stored", "gone"}]
    /\ own \in [Handles -> Principals]
    /\ gen \in [Handles -> Nat]
    /\ seen \in [Handles -> Nat] /\ idle \in [Handles -> Nat] /\ abs \in [Handles -> Nat]
    /\ line \in [Handles -> Handles] /\ born \in [Handles -> Nat]

StoreTypes ==
    /\ time \in Nat
    /\ index \in [Principals -> SUBSET Handles]
    /\ active \in [Principals -> {0, 1}]
    /\ purge \in [Principals -> SUBSET Handles]
    /\ purging \in [Principals -> {0, 1}] /\ raced \in [Principals -> {0, 1}]

RequestTypes ==
    /\ pc \in [Requests -> PC] /\ op \in [Requests -> Op] /\ hd \in [Requests -> Handles]
    /\ copy \in [Requests -> Nat] /\ want \in [Requests -> Nat] /\ now \in [Requests -> Nat]

\* The variables keep their types, and a request holds a handle that exists.
TypeOK ==
    /\ SessionTypes /\ StoreTypes /\ RequestTypes
    /\ \A r \in Requests : pc[r] # "idle" => st[hd[r]] # "free"

\* A login is good for one handle at a time: however many requests rotate
\* the session at once, one of them wins (the script of rotate()).
OneHandle ==
    \A h, k \in Handles :
        (st[h] = "stored" /\ st[k] = "stored" /\ line[h] = line[k]) => h = k

\* A session that was rotated, revoked or has expired does not come back
\* through a request that read it before (the script of touch()).
NoRevival ==
    [][\A h \in Handles : st[h] = "gone" => st'[h] = "gone"]_vars

\* Concurrent requests never shorten the idle period of a session, whatever
\* the order in which their writes arrive.
IdleNeverShrinks ==
    [][\A h \in Handles : st[h] # "free" => idle'[h] >= idle[h]]_vars

\* No sequence of touches and rotations keeps a login alive beyond its
\* absolute lifetime.
LifetimeIsBounded ==
    \A h \in Handles : st[h] = "stored" =>
        idle[h] <= born[h] + AbsoluteTTL /\ abs[h] <= born[h] + AbsoluteTTL

\* revoke_principal finds every session of the principal: a stored session
\* is in the index, unless it was added between the two commands of an
\* earlier revoke_principal.
IndexedUnlessRaced ==
    \A h \in Handles : st[h] = "stored" => h \in index[own[h]] \/ raced[own[h]] = 1

\* One handle per login and an index that revoke_principal can rely on, but
\* for its own race.
StoreSound ==
    /\ TypeOK
    /\ OneHandle
    /\ IndexedUnlessRaced

\* The same without the exception: revocation is atomic.
IndexComplete ==
    \A h \in Handles : st[h] = "stored" => h \in index[own[h]]

=============================================================================
