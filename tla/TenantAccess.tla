---------------------------- MODULE TenantAccess ----------------------------
(***************************************************************************)
(* One tenant's lifecycle (tenant/module.py) and who may act in it         *)
(* (identity/module.py, oidc.py).  A transition bumps the lifecycle        *)
(* version and may record an operation whose event the durable consumer    *)
(* delivers at least once; its handler keeps the tenant row locked while   *)
(* the owners' external hooks run, which no rollback undoes.  A bearer     *)
(* token is verified against the provider read in a first transaction;     *)
(* a second one re-reads tenant, provider, membership and policy, each     *)
(* row locked FOR SHARE.  An authentication session's rows are not locked. *)
(***************************************************************************)
EXTENDS Integers, FiniteSets, FiniteSetsExt

CONSTANTS
    Owners,             \* numbers of the modules with lifecycle hooks, in sorted order
    MaxVersion,         \* bound: lifecycle transitions
    MaxConfigs,         \* bound: provider configurations
    Budgets             \* bound: how often each kind of outside step is taken

VARIABLES
    tenant,             \* its status and lifecycle version
    operation,          \* lifecycle version -> the operation recorded with it
    worker,             \* the consumer's transaction for one event
    ran,                \* <<operation, version, owner>>: external hook calls that took effect
    directory,          \* the identity rows: user, mapping, membership, provider, policy
    login,              \* a bearer request being resolved
    session,            \* an authentication session's row
    check,              \* the transaction that starts or validates it
    left

vars == <<tenant, operation, worker, ran, directory, login, session, check, left>>

Versions == 1..MaxVersion
NoOperation == [kind |-> "none", state |-> "none"]
Resting == [pc |-> "idle"]
NoCheck == [pc |-> "idle", was |-> FALSE]
Strengths == {"oidc", "mfa"}

Init ==
    /\ tenant = [status |-> "none", version |-> 0]
    /\ operation = [v \in Versions |-> NoOperation]
    /\ worker = Resting
    /\ ran = {}
    /\ directory = [user |-> "none", mapped |-> FALSE, member |-> "none", provider |-> 0,
                    policy |-> "none"]
    /\ login = Resting
    /\ session = "none"
    /\ check = NoCheck
    /\ left \in Budgets

Spend(x) == left[x] > 0 /\ left' = [left EXCEPT ![x] = @ - 1]

-----------------------------------------------------------------------------
(* The tenant and its lifecycle.                                             *)

\* Rows shared by the second transaction of a login, from the step that read them.
TenantShared == login.pc \in {"provider", "identity", "policy", "commit"}
ProviderShared == login.pc \in {"identity", "policy", "commit"}
MemberShared == login.pc \in {"policy", "commit"}
PolicyShared == login.pc = "commit" /\ login.policy # "none"
TenantLocked == worker.pc # "idle"

Provision ==
    /\ tenant.status = "none"
    /\ tenant' = [tenant EXCEPT !.status = "requested"]
    /\ UNCHANGED <<operation, worker, ran, directory, login, session, check, left>>

Transitions == [
    none |-> {}, requested |-> {"provisioning"}, provisioning |-> {"active", "terminating"},
    active |-> {"suspended", "retention_hold", "terminating"},
    suspended |-> {"active", "retention_hold", "terminating"},
    retention_hold |-> {"active", "terminating"}, terminating |-> {"deleted"}, deleted |-> {}]

WorkFor(from, to) ==
    CASE to = "terminating" -> "export"
      [] to = "deleted" -> "delete"
      [] from = "retention_hold" /\ to = "active" -> "restore"
      [] OTHER -> "none"

ExportDone(v) ==
    v \in Versions /\ operation[v].kind = "export" /\ operation[v].state = "completed"

Transition ==
    /\ ~TenantShared /\ ~TenantLocked /\ tenant.version < MaxVersion
    /\ \E to \in Transitions[tenant.status] :
          LET kind == WorkFor(tenant.status, to)
              version == tenant.version + 1 IN
          /\ kind = "delete" => ExportDone(tenant.version)
          /\ tenant' = [status |-> to, version |-> version]
          /\ operation' = IF kind = "none" THEN operation
                          ELSE [operation EXCEPT ![version] = [kind |-> kind, state |-> "pending"]]
    /\ Spend("transition")
    /\ UNCHANGED <<worker, ran, directory, login, session, check>>

\* The handler of a delivered (or redelivered) event, up to its hooks.
Expected(kind) == CASE kind = "restore" -> "active" [] kind = "export" -> "terminating"
                    [] kind = "delete" -> "deleted"
Stale(v) == tenant.version # v \/ tenant.status # Expected(operation[v].kind)

Predecessor(v) == operation[v].kind = "delete" => ExportDone(v - 1)

Settle(v, state) == operation' = [operation EXCEPT ![v].state = state]

Deliver(v) ==
    /\ worker.pc = "idle" /\ ~TenantShared
    /\ operation[v].state = "pending" /\ Predecessor(v)
    /\ IF Stale(v)
       THEN Settle(v, "skipped") /\ UNCHANGED worker
       ELSE worker' = [pc |-> "hooks", version |-> v, todo |-> Owners] /\ UNCHANGED operation
    /\ UNCHANGED <<tenant, ran, directory, login, session, check, left>>

NextOwner(kind, todo) == IF kind = "delete" THEN Max(todo) ELSE Min(todo)

CallHook ==
    LET kind == operation[worker.version].kind
        owner == NextOwner(kind, worker.todo) IN
    /\ worker.pc = "hooks" /\ worker.todo # {}
    /\ ran' = ran \cup {<<kind, worker.version, owner>>}
    /\ worker' = [worker EXCEPT !.todo = @ \ {owner}]
    /\ UNCHANGED <<tenant, operation, directory, login, session, check, left>>

\* A hook fails, or the worker dies: the row is unlocked and the event comes again.
HookFails ==
    /\ worker.pc = "hooks" /\ Spend("failure")
    /\ worker' = Resting
    /\ UNCHANGED <<tenant, operation, ran, directory, login, session, check>>

HooksDone ==
    /\ worker.pc = "hooks" /\ worker.todo = {}
    /\ Settle(worker.version, "completed")
    /\ worker' = Resting
    /\ UNCHANGED <<tenant, ran, directory, login, session, check, left>>

-----------------------------------------------------------------------------
(* Identity administration, each one statement and its commit.               *)

CreateUser ==
    /\ directory.user = "none"
    /\ \E kind \in {"user", "break_glass"} : directory' = [directory EXCEPT !.user = kind]
    /\ UNCHANGED <<tenant, operation, worker, ran, login, session, check, left>>

MapExternal ==
    /\ directory.user = "user" /\ ~directory.mapped
    /\ directory' = [directory EXCEPT !.mapped = TRUE]
    /\ UNCHANGED <<tenant, operation, worker, ran, login, session, check, left>>

GrantMembership ==
    /\ directory.user # "none" /\ directory.member # "active" /\ ~MemberShared
    /\ Spend("admin")
    /\ directory' = [directory EXCEPT !.member = "active"]
    /\ check' = [check EXCEPT !.was = TRUE]
    /\ UNCHANGED <<tenant, operation, worker, ran, login, session>>

RevokeMembership ==
    /\ directory.member # "none" /\ ~MemberShared
    /\ Spend("admin")
    /\ directory' = [directory EXCEPT !.member = "revoked"]
    /\ UNCHANGED <<tenant, operation, worker, ran, login, session, check>>

\* valid_until passes: no lock holds the clock.
MembershipExpires ==
    /\ directory.member = "active" /\ Spend("admin")
    /\ directory' = [directory EXCEPT !.member = "expired"]
    /\ UNCHANGED <<tenant, operation, worker, ran, login, session, check>>

ConfigureProvider ==
    /\ ~ProviderShared /\ Spend("admin")
    /\ \E c \in 0..MaxConfigs : directory' = [directory EXCEPT !.provider = c]
    /\ UNCHANGED <<tenant, operation, worker, ran, login, session, check>>

SetMFAPolicy ==
    /\ ~PolicyShared /\ Spend("admin")
    /\ \E strength \in Strengths : directory' = [directory EXCEPT !.policy = strength]
    /\ UNCHANGED <<tenant, operation, worker, ran, login, session, check>>

-----------------------------------------------------------------------------
(* Resolving a bearer token (oidc.py).                                       *)

Unlogged == UNCHANGED <<tenant, operation, worker, ran, directory, session, check, left>>

ReadProvider ==
    /\ login.pc \in {"idle", "admitted"} /\ directory.provider # 0
    /\ Spend("login")
    /\ \E strength \in Strengths :
           login' = [pc |-> "verify", provider |-> directory.provider, strength |-> strength,
                     policy |-> "none"]
    /\ UNCHANGED <<tenant, operation, worker, ran, directory, session, check>>

\* The token's signature, issuer, audience, times and nonce, by the provider just read.
VerifyToken == login.pc = "verify" /\ login' \in {Resting, [login EXCEPT !.pc = "tenant"]} /\ Unlogged

Require(holds, next) == login' = IF holds THEN [login EXCEPT !.pc = next] ELSE Resting

RequireActive ==
    /\ login.pc = "tenant" /\ ~TenantLocked
    /\ Require(tenant.status = "active", "provider")
    /\ Unlogged

SameProvider == directory.provider = login.provider

RereadProvider == login.pc = "provider" /\ Require(SameProvider, "identity") /\ Unlogged

ReadMembership ==
    /\ login.pc = "identity"
    /\ Require(directory.mapped /\ directory.user = "user" /\ directory.member = "active", "policy")
    /\ Unlogged

ReadPolicy ==
    /\ login.pc = "policy"
    /\ login' = [login EXCEPT !.pc = "commit", !.policy = directory.policy]
    /\ Unlogged

\* The transaction ends, then the policy it read is enforced and the principal bound.
EnforcePolicy == login.policy = "mfa" => login.strength = "mfa"
BindPrincipal == login.pc = "commit" /\ Require(EnforcePolicy, "admitted") /\ Unlogged

-----------------------------------------------------------------------------
(* Authentication sessions (identity/module.py): no row is locked.           *)

Unchecked == UNCHANGED <<tenant, operation, worker, ran, directory, login, left>>

StartSession ==
    /\ check.pc = "idle" /\ session = "none" /\ directory.member = "active"
    /\ Spend("session")
    /\ check' = [NoCheck EXCEPT !.pc = "start"]
    /\ UNCHANGED <<tenant, operation, worker, ran, directory, login, session>>
InsertSession == check.pc = "start" /\ session' = "active" /\ check' = NoCheck /\ Unchecked

RevokeSession ==
    /\ session # "none" /\ session' = "revoked" /\ Spend("session")
    /\ UNCHANGED <<tenant, operation, worker, ran, directory, login, check>>

ReadSession ==
    /\ check.pc = "idle" /\ session = "active" /\ Spend("session")
    /\ check' = [pc |-> "member", was |-> directory.member = "active"]
    /\ UNCHANGED <<tenant, operation, worker, ran, directory, login, session>>

Member == directory.member = "active"
ValidateSession ==
    /\ check.pc = "member"
    /\ check' = IF Member THEN [check EXCEPT !.pc = "valid"] ELSE NoCheck
    /\ UNCHANGED session /\ Unchecked
Answered == check.pc = "valid" /\ check' = NoCheck /\ UNCHANGED session /\ Unchecked

-----------------------------------------------------------------------------
Lifecycle == (\E v \in Versions : Deliver(v)) \/ CallHook \/ HooksDone
Resolve ==
    VerifyToken \/ RequireActive \/ RereadProvider \/ ReadMembership \/ ReadPolicy \/ BindPrincipal

Next ==
    \/ Provision \/ Transition \/ HookFails \/ Lifecycle
    \/ CreateUser \/ MapExternal \/ GrantMembership \/ RevokeMembership \/ MembershipExpires
    \/ ConfigureProvider \/ SetMFAPolicy
    \/ ReadProvider \/ Resolve
    \/ StartSession \/ InsertSession \/ RevokeSession \/ ReadSession \/ ValidateSession \/ Answered

\* Events are redelivered until their handler commits, and free row locks are granted.
Spec == Init /\ [][Next]_vars /\ WF_vars(Lifecycle) /\ WF_vars(Resolve)

-----------------------------------------------------------------------------
TypeOK ==
    /\ tenant.status \in DOMAIN Transitions /\ tenant.version \in 0..MaxVersion
    /\ \A v \in Versions : /\ operation[v].kind \in {"none", "export", "delete", "restore"}
                            /\ operation[v].state \in {"none", "pending", "completed", "skipped"}
    /\ directory.provider \in 0..MaxConfigs
    /\ session \in {"none", "active", "revoked"}

Ran(kind, v) == {o \in Owners : <<kind, v, o>> \in ran}

\* External work follows the lifecycle whatever fails between: nothing is deleted at any owner
\* before the export of the same termination has run at every owner, deletion goes through
\* the owners in reverse, an operation is completed only when every owner's hook ran; and a
\* session is answered valid only if its membership held at some moment of the validation.
TenantSound ==
    /\ TypeOK
    /\ \A v \in Versions : Ran("delete", v) # {} => v > 1 /\ Ran("export", v - 1) = Owners
    /\ \A v \in Versions : \A o \in Ran("delete", v) :
           {p \in Owners : p > o} \subseteq Ran("delete", v)
    /\ \A v \in Versions : operation[v].state = "completed" => Ran(operation[v].kind, v) = Owners
    /\ check.pc = "valid" => check.was

\* When a principal is bound, everything its two transactions read still holds: the tenant is
\* active, the provider is the one whose keys verified the token, the membership is not
\* revoked and a policy that was read is the policy; and a hook runs only while its operation
\* is the tenant's latest transition.
Admitted ==
    /\ login'.pc = "admitted" /\ login.pc = "commit" =>
         /\ tenant.status = "active"
         /\ directory.provider = login.provider
         /\ directory.member \notin {"none", "revoked"}
         /\ login.policy # "none" => directory.policy = login.policy
    /\ \A call \in ran' \ ran : call[2] = tenant.version

\* Recorded work is eventually completed or skipped, and every login is answered.
Settled ==
    /\ \A v \in Versions : operation[v].state # "pending"
    /\ login.pc \in {"idle", "admitted"}
=============================================================================
