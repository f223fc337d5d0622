-------------------------- MODULE LoginTransactions --------------------------
(***************************************************************************)
(* Browser logins through an OpenID Connect provider (web_sessions.py,     *)
(* oidc.py, module.py of Identity): a login stores a transaction in Redis  *)
(* and sends the browser away; the callback consumes the transaction,      *)
(* exchanges the code, validates the identity and creates a session.       *)
(*                                                                         *)
(* A login is a state with a browser binding of its own.  A step is one    *)
(* call of Redis, of the provider or of the database with the code up to   *)
(* the next await.  A process may die between two of them.                 *)
(***************************************************************************)
EXTENDS Integers, FiniteSets

CONSTANTS
    Logins,         \* states; a login's binding is named by the login
    Callbacks,      \* callback requests
    AttemptLimit,   \* login_attempt_limit
    TransactionTTL, \* transaction_ttl
    MarkTTL,        \* how long a consumed state is remembered (300 s)
    Versions,       \* configurations of the provider
    MaxTime         \* bound: the clock

VARIABLES
    time,
    attempts,  \* the counter of allow_login in this window
    txn,       \* the state key: "none", "issued", "stored", "gone"
    expires,   \* expires_at of the transaction
    binding,   \* 1 when the set of the login's binding names the state
    mark,      \* 1 when the state's consumed marker exists
    markEnd,   \* when it expires
    provider,  \* configuration of the provider that is in force
    member,    \* 1 when tenant, user and membership are valid
    pc,        \* where each callback is
    state,     \* its state parameter,
    browser,   \* its binding cookie,
    code,      \* the login its code was issued for
    version,   \* the configuration it verified the token with
    sessions   \* how many sessions each login was given (history)

vars == <<time, attempts, txn, expires, binding, mark, markEnd, provider, member,
          pc, state, browser, code, version, sessions>>
storeVars == <<txn, expires, binding, mark, markEnd>>
inputVars == <<state, browser, code>>

\* What a callback that has not come yet has for a login and a configuration.
NotYet == "none"

Init ==
    /\ time = 0 /\ attempts = 0
    /\ txn = [l \in Logins |-> "none"]
    /\ expires = [l \in Logins |-> 0]
    /\ binding = [l \in Logins |-> 0]
    /\ mark = [l \in Logins |-> 0]
    /\ markEnd = [l \in Logins |-> 0]
    /\ provider \in Versions /\ member = 1
    /\ pc = [c \in Callbacks |-> "none"]
    /\ state = [c \in Callbacks |-> NotYet]
    /\ browser = [c \in Callbacks |-> NotYet]
    /\ code = [c \in Callbacks |-> NotYet]
    /\ version = [c \in Callbacks |-> NotYet]
    /\ sessions = [l \in Logins |-> 0]

-----------------------------------------------------------------------------
(* start_login.                                                            *)

\* allow_login counts the attempt, whether it is allowed or not; the count
\* is cut off above the limit, where it makes no difference.
Count == attempts' = IF attempts > AttemptLimit THEN attempts ELSE attempts + 1

StartLogin(l) ==
    /\ txn[l] = "none" /\ attempts < AttemptLimit
    /\ Count
    /\ txn' = [txn EXCEPT ![l] = "issued"]
    /\ expires' = [expires EXCEPT ![l] = time + TransactionTTL]
    /\ UNCHANGED <<time, binding, mark, markEnd, provider, member, pc, inputVars, version, sessions>>

StartRefused ==
    /\ attempts >= AttemptLimit
    /\ Count
    /\ UNCHANGED <<time, storeVars, provider, member, pc, inputVars, version, sessions>>

\* RedisAuthorizationTransactionStore.create.
StoreTransaction(l) ==
    /\ txn[l] = "issued"
    /\ txn' = [txn EXCEPT ![l] = "stored"]
    /\ binding' = [binding EXCEPT ![l] = 1]
    /\ UNCHANGED <<time, attempts, expires, mark, markEnd, provider, member, pc,
                   inputVars, version, sessions>>

\* The provider has no address for it, the return path is refused, or the
\* process dies.
StartFails(l) ==
    /\ txn[l] = "issued"
    /\ txn' = [txn EXCEPT ![l] = "gone"]
    /\ UNCHANGED <<time, attempts, expires, binding, mark, markEnd, provider, member, pc,
                   inputVars, version, sessions>>

-----------------------------------------------------------------------------
(* complete_oidc_login.                                                    *)

Goto(c, where) == pc' = [pc EXCEPT ![c] = where]

\* The marker is set NX, with a TTL of its own.
Mark(l) ==
    /\ mark' = [mark EXCEPT ![l] = 1]
    /\ markEnd' = [markEnd EXCEPT ![l] = IF mark[l] = 1 THEN @ ELSE time + MarkTTL]

\* The script of clear_browser_binding for the binding of login b.
ClearBinding(b) ==
    IF binding[b] = 1
    THEN /\ binding' = [binding EXCEPT ![b] = 0]
         /\ txn' = [txn EXCEPT ![b] = "gone"]
         /\ Mark(b)
         /\ UNCHANGED expires
    ELSE UNCHANGED storeVars

\* A cookie or a code is one that was handed out.
HandedOut(l) == txn[l] \in {"stored", "gone"}

Callback(c, l, b, n) ==
    /\ pc[c] = "none" /\ HandedOut(l) /\ HandedOut(b) /\ HandedOut(n)
    /\ Goto(c, "consume")
    /\ state' = [state EXCEPT ![c] = l]
    /\ browser' = [browser EXCEPT ![c] = b]
    /\ code' = [code EXCEPT ![c] = n]
    /\ UNCHANGED <<time, attempts, storeVars, provider, member, version, sessions>>

\* Mutant of Consume: a state that was consumed a moment ago is accepted.
ConsumeAgain(c) ==
    /\ pc[c] = "consume"
    /\ IF txn[state[c]] # "stored" /\ mark[state[c]] = 0
       THEN Goto(c, "refused") /\ UNCHANGED storeVars
       ELSE /\ Goto(c, "consumed")
            /\ txn' = [txn EXCEPT ![state[c]] = "gone"]
            /\ Mark(state[c])
            /\ UNCHANGED <<expires, binding>>
    /\ UNCHANGED <<time, attempts, provider, member, inputVars, version, sessions>>

\* The script of consume: one callback gets the state.
Consume(c) ==
    /\ pc[c] = "consume"
    /\ IF mark[state[c]] = 1 THEN Goto(c, "failed") /\ UNCHANGED storeVars
       ELSE IF txn[state[c]] # "stored" THEN Goto(c, "refused") /\ UNCHANGED storeVars
       ELSE /\ Goto(c, "consumed")
            /\ txn' = [txn EXCEPT ![state[c]] = "gone"]
            /\ Mark(state[c])
            /\ UNCHANGED <<expires, binding>>
    /\ UNCHANGED <<time, attempts, provider, member, inputVars, version, sessions>>

Bound(c) == browser[c] = state[c]

\* The state leaves its binding's set; its age and the cookie are checked.
CheckTransaction(c) ==
    /\ pc[c] = "consumed"
    /\ binding' = [binding EXCEPT ![state[c]] = 0]
    /\ Goto(c, IF expires[state[c]] <= time THEN "failed"
               ELSE IF Bound(c) THEN "exchange" ELSE "refused")
    /\ UNCHANGED <<time, attempts, txn, expires, mark, markEnd, provider, member,
                   inputVars, version, sessions>>

RefuseCallback(c) ==
    /\ pc[c] = "refused"
    /\ ClearBinding(browser[c])
    /\ Goto(c, "failed")
    /\ UNCHANGED <<time, attempts, provider, member, inputVars, version, sessions>>

\* exchange_code at the provider; the configuration that the token names is
\* read before the token is verified with it.
ExchangeCode(c) ==
    /\ pc[c] = "exchange"
    /\ Goto(c, "verify")
    /\ version' = [version EXCEPT ![c] = provider]
    /\ UNCHANGED <<time, attempts, storeVars, provider, member, inputVars, sessions>>

\* The token carries the nonce of the login its code was issued for.
NonceMatches(c) == code[c] = state[c]

\* The provider refuses, or the token's signature, issuer, audience, age or
\* nonce is wrong.
LoginFails(c) ==
    /\ pc[c] \in {"exchange", "verify", "authority"}
    /\ Goto(c, "clear")
    /\ UNCHANGED <<time, attempts, storeVars, provider, member, inputVars, version, sessions>>

VerifyToken(c) ==
    /\ pc[c] = "verify" /\ NonceMatches(c)
    /\ Goto(c, "authority")
    /\ UNCHANGED <<time, attempts, storeVars, provider, member, inputVars, version, sessions>>

\* _authority, under locks: tenant, provider, user, membership, MFA policy.
Authority(c) ==
    /\ pc[c] = "authority"
    /\ Goto(c, IF member = 1 /\ provider = version[c] THEN "create" ELSE "clear")
    /\ UNCHANGED <<time, attempts, storeVars, provider, member, inputVars, version, sessions>>

\* create_session.
CreateSession(c) ==
    /\ pc[c] = "create"
    /\ sessions' = [sessions EXCEPT ![state[c]] = @ + 1]
    /\ Goto(c, "cleanup")
    /\ UNCHANGED <<time, attempts, storeVars, provider, member, inputVars, version>>

\* The finally clause.
FinishCallback(c) ==
    /\ pc[c] \in {"clear", "cleanup"}
    /\ ClearBinding(browser[c])
    /\ Goto(c, IF pc[c] = "clear" THEN "failed" ELSE "done")
    /\ UNCHANGED <<time, attempts, provider, member, inputVars, version, sessions>>

Die(c) ==
    /\ pc[c] \notin {"none", "failed", "done", "dead"}
    /\ Goto(c, "dead")
    /\ UNCHANGED <<time, attempts, storeVars, provider, member, inputVars, version, sessions>>

-----------------------------------------------------------------------------
(* The environment.                                                        *)

WindowEnds ==
    /\ attempts > 0
    /\ attempts' = 0
    /\ UNCHANGED <<time, storeVars, provider, member, pc, inputVars, version, sessions>>

\* Redis drops keys some time after their TTL.
ExpireTransaction(l) ==
    /\ txn[l] = "stored" /\ expires[l] <= time
    /\ txn' = [txn EXCEPT ![l] = "gone"]
    /\ binding' = [binding EXCEPT ![l] = 0]
    /\ UNCHANGED <<time, attempts, expires, mark, markEnd, provider, member, pc,
                   inputVars, version, sessions>>

ExpireMark(l) ==
    /\ mark[l] = 1 /\ markEnd[l] <= time
    /\ mark' = [mark EXCEPT ![l] = 0]
    /\ UNCHANGED <<time, attempts, txn, expires, binding, markEnd, provider, member, pc,
                   inputVars, version, sessions>>

\* An administrator changes the provider, or the user's access.
Administer ==
    /\ \/ provider' \in Versions \ {provider} /\ member' = member
       \/ provider' = provider /\ member' = 1 - member
    /\ UNCHANGED <<time, attempts, storeVars, pc, inputVars, version, sessions>>

Tick ==
    /\ time < MaxTime
    /\ time' = time + 1
    /\ UNCHANGED <<attempts, storeVars, provider, member, pc, inputVars, version, sessions>>

CallbackStep(c) ==
    \/ Consume(c) \/ CheckTransaction(c) \/ RefuseCallback(c) \/ ExchangeCode(c)
    \/ LoginFails(c) \/ VerifyToken(c) \/ Authority(c) \/ CreateSession(c) \/ FinishCallback(c)

Next ==
    \/ \E l \in Logins : \/ StartLogin(l) \/ StoreTransaction(l) \/ StartFails(l)
                         \/ ExpireTransaction(l) \/ ExpireMark(l)
    \/ StartRefused \/ WindowEnds \/ Administer \/ Tick
    \/ \E c \in Callbacks : \/ \E l, b, n \in Logins : Callback(c, l, b, n)
                            \/ CallbackStep(c) \/ Die(c)

Spec == Init /\ [][Next]_vars

-----------------------------------------------------------------------------
(* Properties.                                                             *)

PC == {"none", "consume", "consumed", "refused", "exchange", "verify", "authority", "create",
       "clear", "cleanup", "failed", "done", "dead"}

\* The variables keep their types.
TypeOK ==
    /\ time \in Nat /\ attempts \in 0..(AttemptLimit + 1)
    /\ txn \in [Logins -> {"none", "issued", "stored", "gone"}]
    /\ expires \in [Logins -> Nat] /\ markEnd \in [Logins -> Nat]
    /\ binding \in [Logins -> {0, 1}] /\ mark \in [Logins -> {0, 1}]
    /\ provider \in Versions /\ member \in {0, 1}
    /\ pc \in [Callbacks -> PC]
    /\ \A f \in {state, browser, code} : f \in [Callbacks -> Logins \cup {NotYet}]
    /\ version \in [Callbacks -> Versions \cup {NotYet}]
    /\ sessions \in [Logins -> Nat]

\* A login gives one session at most: repeated, concurrent or late callbacks,
\* callbacks after a crash and callbacks after the marker has expired get none.
OneSessionPerLogin == \A l \in Logins : sessions[l] <= 1

\* A session is created for the browser that started the login and from a
\* token that was issued for it.
SessionIsBound ==
    \A c \in Callbacks :
        pc[c] \in {"create", "cleanup", "done"} => browser[c] = state[c] /\ code[c] = state[c]

\* Every session that a callback creates belongs to the login of the browser
\* that sent it.
LoginSound == TypeOK /\ SessionIsBound

=============================================================================
