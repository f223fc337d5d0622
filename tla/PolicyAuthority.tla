--------------------------- MODULE PolicyAuthority ---------------------------
(***************************************************************************)
(* The role authority of one tenant: roles with inheritance, permissions,  *)
(* time-bounded assignments and delegations, and the preventative          *)
(* segregation-of-duties (SoD) rules that every authority-increasing       *)
(* command is projected against (sod_authority.py); the transitive search  *)
(* for a delegator's own source (delegation_authority.py); and the live    *)
(* decision that authorises a mutation, is repeated when the mutation is   *)
(* applied and holds its locks until commit (v2_runtime.py).               *)
(*                                                                         *)
(* Every such transaction takes the tenant's advisory lock before it reads *)
(* a row and keeps it until it ends.  A transaction that still waits for   *)
(* the lock has neither read nor written, so it enters the model when it   *)
(* takes it; its rows are visible to others only at its commit.            *)
(*                                                                         *)
(* Not represented: the type of a principal (it is part of its name),      *)
(* duplicate assignments, the traversal and evaluation budgets (beyond     *)
(* them a command or a decision is refused), record and field policies,    *)
(* approval limits and owner facts (they only narrow a live decision).     *)
(***************************************************************************)
EXTENDS Integers, FiniteSets

CONSTANTS
    Txs,         \* the transactions that may be open at once
    NoTx,        \* nobody holds the tenant's lock
    Subjects,    \* principals of the tenant
    Roles,       \* role codes
    NoRole,      \* a role without a parent
    Perms,       \* permission codes
    Wild,        \* the code "<namespace>.*"; the actions are of one namespace
    Tenant,      \* the tenant-wide scope
    Sites,       \* concrete scopes
    Windows,     \* the validity windows requests ask for
    Horizon,     \* the last instant of the model's clock
    MaxRows,     \* _MAX_ROWS: rows a projection will load from a table
    MaxDepth,    \* _MAX_ROLE_DEPTH: roles or principals on one path
    MaxWrites,   \* bound on the rows of all tables together
    Seeds        \* the tables a behaviour may start with

Forever == Horizon + 1
Instants == 0 .. Horizon
Scopes == {Tenant} \cup Sites

VARIABLES
    db,        \* the committed tables of platform_policy
    members,   \* principals whose membership is effective
    now,       \* the clock
    lock,      \* holder of the tenant's advisory lock
    tx         \* the open transactions

vars == <<db, members, now, lock, tx>>

----------------------------------------------------------------------------
(***************************************************************************)
(* Rows.  A missing start is instant 0 and a missing end is Forever.       *)
(***************************************************************************)
AssignmentRows ==
    [subject : Subjects, role : Roles, scope : Scopes,
     from : Instants, to : 1 .. Forever]

GrantRows ==
    [id : Nat \ {0}, delegator : Subjects, delegatee : Subjects,
     role : Roles, scope : Scopes, from : Instants, to : 1 .. Forever,
     revoked : BOOLEAN]

Pairs == {pair \in SUBSET Perms : Cardinality(pair) = 2}

RuleRows == [pair : Pairs, preventative : BOOLEAN]

\* Rows name roles that exist.
Tables(tables) ==
    /\ DOMAIN tables = {"roles", "perms", "assignments", "delegations", "rules"}
    /\ DOMAIN tables.roles \subseteq Roles
    /\ \A r \in DOMAIN tables.roles : tables.roles[r] \in DOMAIN tables.roles \cup {NoRole}
    /\ tables.perms \subseteq (DOMAIN tables.roles) \X Perms
    /\ tables.assignments \subseteq AssignmentRows
    /\ tables.delegations \subseteq GrantRows
    /\ \A row \in tables.assignments \cup tables.delegations : row.role \in DOMAIN tables.roles
    /\ tables.rules \subseteq RuleRows

active_at(row, t) == row.from <= t /\ t < row.to

covers(row, window) == row.from <= window.from /\ row.to >= window.to

scope_covers(source, target) == source = Tenant \/ source = target

Preventative(tables) == {r \in tables.rules : r.preventative}

----------------------------------------------------------------------------
(***************************************************************************)
(* Whether `subject` may delegate `role` for a scope and a window: it      *)
(* holds the role by an assignment, or by a delegation whose delegator     *)
(* may, for that delegation's own scope and window.                        *)
(***************************************************************************)
HoldsDirectly(tables, subject, role, scope, window, t) ==
    \E row \in tables.assignments :
        /\ row.subject = subject /\ row.role = role
        /\ scope_covers(row.scope, scope)
        /\ active_at(row, t)
        /\ covers(row, window)

Links(tables, subject, role, scope, window, t) ==
    {g \in tables.delegations :
        /\ g.delegatee = subject /\ g.role = role /\ ~g.revoked
        /\ scope_covers(g.scope, scope)
        /\ active_at(g, t)
        /\ covers(g, window)}

\* The delegator of `grant` may; the search has come through `visited`.
HasSource(tables, grant, t, visited) ==
    LET source[x \in tables.delegations \X SUBSET Subjects] ==
            LET g == x[1] IN
            /\ g.delegator \notin x[2]
            /\ Cardinality(x[2]) <= MaxDepth
            /\ \/ HoldsDirectly(tables, g.delegator, g.role, g.scope, g, t)
               \/ \E p \in Links(tables, g.delegator, g.role, g.scope, g, t) :
                     source[<<p, x[2] \cup {g.delegator}>>]
    IN source[<<grant, visited>>]

has_effective_role_source(tables, subject, role, scope, window, t) ==
    \/ HoldsDirectly(tables, subject, role, scope, window, t)
    \/ \E g \in Links(tables, subject, role, scope, window, t) :
          HasSource(tables, g, t, {subject})

----------------------------------------------------------------------------
(***************************************************************************)
(* The shape a projection accepts.  A walk of MaxDepth + 1 nodes exists    *)
(* exactly when a path is longer than MaxDepth or the relation is cyclic.  *)
(***************************************************************************)
NoLongWalk(nodes, edges) ==
    \A walk \in [1 .. MaxDepth + 1 -> nodes] :
        \E i \in 1 .. MaxDepth : <<walk[i], walk[i + 1]>> \notin edges

RowsFit(tables) ==
    /\ Cardinality(DOMAIN tables.roles) <= MaxRows
    /\ Cardinality(tables.perms) <= MaxRows
    /\ Cardinality(tables.assignments) <= MaxRows
    /\ Cardinality(tables.delegations) <= MaxRows
    /\ Cardinality(Preventative(tables)) <= MaxRows

Parents(tables) == {<<role, tables.roles[role]>> : role \in DOMAIN tables.roles}

Delegates(tables, role) ==
    {<<g.delegator, g.delegatee>> : g \in {d \in tables.delegations : d.role = role /\ ~d.revoked}}

ValidShape(tables) ==
    /\ RowsFit(tables)
    /\ NoLongWalk(DOMAIN tables.roles, Parents(tables))
    /\ \A role \in DOMAIN tables.roles : NoLongWalk(Subjects, Delegates(tables, role))

----------------------------------------------------------------------------
(***************************************************************************)
(* The permissions a principal has at an instant, whatever the scope.      *)
(***************************************************************************)
Lineage(roles, role) ==
    LET lineage[r \in DOMAIN roles \cup {NoRole}] ==
            IF r = NoRole THEN {} ELSE {r} \cup lineage[roles[r]]
    IN lineage[role]

RolesAt(tables, subject, t) ==
    LET direct == {row.role : row \in {a \in tables.assignments :
                       a.subject = subject /\ active_at(a, t)}}
        delegated == {g.role : g \in {d \in tables.delegations :
                       /\ d.delegatee = subject /\ ~d.revoked /\ active_at(d, t)
                       /\ has_effective_role_source(
                              tables, d.delegator, d.role, d.scope, d, t)}}
    IN UNION {Lineage(tables.roles, role) : role \in direct \cup delegated}

permissions_for(tables, subject, t) ==
    {rp[2] : rp \in {x \in tables.perms : x[1] \in RolesAt(tables, subject, t)}}

\* From an instant on no principal has both permissions of a preventative rule.
NoConflict(tables, from) ==
    \A s \in Subjects, t \in from .. Horizon, r \in Preventative(tables) :
        ~(r.pair \subseteq permissions_for(tables, s, t))

(***************************************************************************)
(* A behaviour may start with tables that commands could have left, before *)
(* anything was delegated.                                                 *)
(***************************************************************************)
SoundStart ==
    /\ \A seed \in Seeds :
         /\ Tables(seed) /\ ValidShape(seed) /\ NoConflict(seed, 0)
         /\ seed.delegations = {}
    /\ Horizon \in Nat /\ MaxRows \in Nat /\ MaxDepth \in Nat \ {0} /\ MaxWrites \in Nat
    /\ Windows \subseteq
         {w \in [from : Instants, to : 1 .. Forever] : w.from < w.to}
    /\ IsFiniteSet(Subjects) /\ NoRole \notin Roles /\ NoTx \notin Txs

ASSUME SeedAssumption == SoundStart

\* Mutant of Starts: the conflicts of the present only.
OnlyNow(tables) == {now}

(***************************************************************************)
(* Authority grows only where a row starts, so a projection looks at the   *)
(* present and at every later start.                                       *)
(***************************************************************************)
Starts(tables) ==
    {now} \cup {t \in Instants : t > now /\
                  \E row \in tables.assignments \cup tables.delegations :
                      row.from = t}

NewConflict(before, after, rules, anyway) ==
    \E s \in Subjects, t \in Starts(before) \cup Starts(after) :
        LET gained == permissions_for(after, s, t) IN
        /\ anyway \/ ~(gained \subseteq permissions_for(before, s, t))
        /\ \E r \in rules : r.pair \subseteq gained

----------------------------------------------------------------------------
(***************************************************************************)
(* Commands.                                                               *)
(***************************************************************************)
Commands ==
    { [op |-> "createRole", role |-> r, parent |-> p] :
        r \in Roles, p \in Roles \cup {NoRole} }
    \cup
    { [op |-> "assignPermission", role |-> r, perm |-> p] : r \in Roles, p \in Perms }
    \cup
    { [op |-> "assignRole", row |-> [subject |-> s, role |-> r, scope |-> sc,
                                     from |-> w.from, to |-> w.to]] :
        s \in Subjects, r \in Roles, sc \in Scopes, w \in Windows }
    \cup
    { [op |-> "createRule", rule |-> [pair |-> pair, preventative |-> TRUE]] :
        pair \in Pairs }
    \cup
    { [op |-> "delegate", delegator |-> d[1], delegatee |-> d[2], role |-> r,
       scope |-> sc, window |-> w] :
        d \in {x \in Subjects \X Subjects : x[1] # x[2]},
        r \in Roles, sc \in Scopes, w \in Windows }
    \cup
    { [op |-> "revoke", id |-> i] : i \in 1 .. MaxWrites }

NewGrant(tables, cmd) ==
    [id |-> Cardinality(tables.delegations) + 1,
     delegator |-> cmd.delegator, delegatee |-> cmd.delegatee,
     role |-> cmd.role, scope |-> cmd.scope,
     from |-> cmd.window.from, to |-> cmd.window.to, revoked |-> FALSE]

\* The tables with the command's row: what it projects and what it writes.
Apply(tables, cmd) ==
    CASE cmd.op = "createRole" ->
            [tables EXCEPT !.roles = [r \in DOMAIN @ \cup {cmd.role} |->
                IF r \in DOMAIN @ THEN @[r] ELSE cmd.parent]]
      [] cmd.op = "assignPermission" -> [tables EXCEPT !.perms = @ \cup {<<cmd.role, cmd.perm>>}]
      [] cmd.op = "assignRole" -> [tables EXCEPT !.assignments = @ \cup {cmd.row}]
      [] cmd.op = "createRule" -> [tables EXCEPT !.rules = @ \cup {cmd.rule}]
      [] cmd.op = "delegate" ->
            [tables EXCEPT !.delegations = @ \cup {NewGrant(tables, cmd)}]
      [] cmd.op = "revoke" ->
            [tables EXCEPT !.delegations =
                {IF g.id = cmd.id THEN [g EXCEPT !.revoked = TRUE] ELSE g : g \in @}]

HasRole(role) == role \in DOMAIN db.roles

\* The projection of SoDAuthority.load and reject_new_conflicts.
ProjectionAccepts(cmd) ==
    LET after == Apply(db, cmd) IN
    /\ ValidShape(db)
    /\ ValidShape(after)
    /\ ~NewConflict(db, after, Preventative(after), FALSE)

RuleAccepts(cmd) ==
    LET after == Apply(db, cmd) IN
    /\ ValidShape(db)
    /\ ValidShape(after)
    /\ ~NewConflict(db, after, {cmd.rule}, TRUE)

create_role(cmd) ==
    /\ ~HasRole(cmd.role)
    /\ cmd.parent # NoRole =>
          /\ HasRole(cmd.parent)
          /\ Cardinality(Lineage(db.roles, cmd.parent)) <= MaxDepth - 1
    /\ ValidShape(db)
    /\ ValidShape(Apply(db, cmd))

assign_permission(cmd) ==
    /\ HasRole(cmd.role)
    /\ <<cmd.role, cmd.perm>> \notin db.perms
    /\ ProjectionAccepts(cmd)

assign_role(cmd) ==
    /\ HasRole(cmd.row.role)
    /\ cmd.row \notin db.assignments
    /\ ProjectionAccepts(cmd)

create_sod_rule(cmd) ==
    /\ cmd.rule \notin db.rules
    /\ RuleAccepts(cmd)

create_delegation(cmd) ==
    /\ HasRole(cmd.role)
    /\ has_effective_role_source(db, cmd.delegator, cmd.role, cmd.scope,
                                 cmd.window, now)
    /\ ProjectionAccepts(cmd)

revoke_delegation(cmd) == \E g \in db.delegations : g.id = cmd.id

Accepts(cmd) ==
    CASE cmd.op = "createRole" -> create_role(cmd)
      [] cmd.op = "assignPermission" -> assign_permission(cmd)
      [] cmd.op = "assignRole" -> assign_role(cmd)
      [] cmd.op = "createRule" -> create_sod_rule(cmd)
      [] cmd.op = "delegate" -> create_delegation(cmd)
      [] cmd.op = "revoke" -> revoke_delegation(cmd)

----------------------------------------------------------------------------
(***************************************************************************)
(* The live decision.  Holders(g) are the sets of delegators whose         *)
(* membership rows the search of a source for g has locked when it         *)
(* succeeds; there is none when the delegation has no live source.  Which  *)
(* of several sources is found first is the database's choice.             *)
(***************************************************************************)
Holders(tables, active, grant, t, visited) ==
    LET holders[x \in tables.delegations \X SUBSET Subjects] ==
            LET g == x[1] IN
            IF \/ Cardinality(x[2]) >= MaxDepth
               \/ g.delegator \in x[2]
               \/ g.delegator \notin active
            THEN {}
            ELSE IF HoldsDirectly(tables, g.delegator, g.role, g.scope, g, t)
            THEN {{g.delegator}}
            ELSE UNION {{ {g.delegator} \cup h : h \in holders[<<p, x[2] \cup {g.delegator}>>]} :
                        p \in Links(tables, g.delegator, g.role, g.scope, g, t)}
    IN holders[<<grant, visited>>]

\* The parents, level by level; beyond MaxDepth levels nothing is granted.
WithParents(roles, held) ==
    LET walk[level \in 0 .. MaxDepth] ==
            IF level = 0 THEN [frontier |-> held, found |-> held]
            ELSE LET w == walk[level - 1]
                     parents == {roles[r] : r \in w.frontier} \ ({NoRole} \cup w.found)
                 IN [frontier |-> parents, found |-> w.found \cup parents]
    IN IF walk[MaxDepth].frontier = {} THEN walk[MaxDepth].found ELSE {}

InScope(scope, site) == scope = Tenant \/ scope = site

\* The roles of `subject` on a record of `site`, each with the membership
\* rows its decision has locked.
Sources(tables, active, subject, site, t) ==
    { <<row.role, {subject}>> : row \in {a \in tables.assignments :
        a.subject = subject /\ active_at(a, t) /\ InScope(a.scope, site)}}
    \cup
    UNION { { <<g.role, h \cup {subject}>> :
                h \in Holders(tables, active, g, t, {subject}) } :
            g \in {d \in tables.delegations :
                /\ d.delegatee = subject /\ ~d.revoked
                /\ active_at(d, t) /\ InScope(d.scope, site)}}

active_roles(tables, active, subject, site, t) ==
    WithParents(tables.roles,
                {src[1] : src \in Sources(tables, active, subject, site, t)})

Permits(tables, role, action) ==
    \E rp \in tables.perms : rp[1] = role /\ rp[2] \in {action, Wild}

authorize(tables, active, subject, action, site, t) ==
    /\ subject \in active
    /\ \E role \in active_roles(tables, active, subject, site, t) :
          Permits(tables, role, action)

\* Mutant of Locked: only the membership of the principal itself.
LockedAlone(subject, action, site) == {{subject}}

\* What a positive decision has locked: the rows of one source that permits.
Locked(subject, action, site) ==
    {src[2] : src \in {x \in Sources(db, members, subject, site, now) :
        \E role \in WithParents(db.roles, {x[1]}) : Permits(db, role, action)}}

----------------------------------------------------------------------------
Idle == [phase |-> "idle"]

Decisions ==
    [phase : {"permitted", "applied"}, subject : Subjects, action : Perms,
     site : Sites, at : Instants, held : SUBSET Subjects]

TypeOK ==
    /\ Tables(db)
    /\ members \subseteq Subjects
    /\ now \in Instants
    /\ lock \in Txs \cup {NoTx}
    /\ DOMAIN tx = Txs
    /\ \A c \in Txs :
          \/ tx[c] = Idle
          \/ tx[c] \in [phase : {"locked", "written"}, cmd : Commands]
          \/ tx[c] \in Decisions

Init ==
    /\ db \in Seeds
    /\ members = Subjects
    /\ now = 0
    /\ lock = NoTx
    /\ tx = [c \in Txs |-> Idle]

RowCount ==
    Cardinality(DOMAIN db.roles) + Cardinality(db.perms)
      + Cardinality(db.assignments) + Cardinality(db.delegations)
      + Cardinality(db.rules)

\* pg_advisory_xact_lock: granted when nobody holds it, kept to the end.
Acquire(c) == lock = NoTx /\ lock' = c

Release(c) == lock' = IF lock = c THEN NoTx ELSE lock

\* A supported command reaches its lock.
Begin(c) ==
    \E cmd \in Commands :
        /\ cmd.op = "revoke" \/ RowCount < MaxWrites
        /\ tx[c] = Idle
        /\ Acquire(c)
        /\ tx' = [tx EXCEPT ![c] = [phase |-> "locked", cmd |-> cmd]]
        /\ UNCHANGED <<db, members, now>>

\* The command reads the tables and writes its row, which nobody sees yet,
\* or raises and is rolled back.
Decide(c) ==
    /\ tx[c].phase = "locked"
    /\ IF Accepts(tx[c].cmd)
       THEN tx' = [tx EXCEPT ![c].phase = "written"] /\ UNCHANGED lock
       ELSE tx' = [tx EXCEPT ![c] = Idle] /\ Release(c)
    /\ UNCHANGED <<db, members, now>>

\* Detective rules are inserted without the lock and without a projection.
CreateDetectiveRule ==
    \E pair \in Pairs :
        /\ RowCount < MaxWrites
        /\ db' = [db EXCEPT !.rules = @ \cup {[pair |-> pair,
                                               preventative |-> FALSE]}]
        /\ UNCHANGED <<members, now, lock, tx>>

\* authorize_mutation: the tenant's lock, the principal's membership row,
\* then the decision; a denied one ends its transaction and is not shown.
Authorize(c) ==
    \E s \in Subjects, a \in Perms \ {Wild}, site \in Sites :
        /\ tx[c] = Idle
        /\ Acquire(c)
        /\ authorize(db, members, s, a, site, now)
        /\ \E held \in Locked(s, a, site) :
              tx' = [tx EXCEPT ![c] =
                        [phase |-> "permitted", subject |-> s, action |-> a,
                         site |-> site, at |-> now, held |-> held]]
        /\ UNCHANGED <<db, members, now>>

ApplyWithoutRevalidation(c) ==
    /\ tx[c].phase = "permitted"
    /\ tx' = [tx EXCEPT ![c].phase = "applied", ![c].at = now]
    /\ UNCHANGED <<db, members, now, lock>>

\* _CommitPermit.apply: the decision is made again, then the owner writes;
\* when it denies ("Live authority changed") the transaction is rolled back.
ApplyPermit(c) ==
    /\ tx[c].phase = "permitted"
    /\ IF authorize(db, members, tx[c].subject, tx[c].action, tx[c].site, now)
       THEN /\ \E held \in Locked(tx[c].subject, tx[c].action, tx[c].site) :
                  tx' = [tx EXCEPT ![c].phase = "applied", ![c].at = now,
                                   ![c].held = @ \cup held]
            /\ UNCHANGED lock
       ELSE tx' = [tx EXCEPT ![c] = Idle] /\ Release(c)
    /\ UNCHANGED <<db, members, now>>

Commit(c) ==
    /\ \/ tx[c].phase = "written" /\ db' = Apply(db, tx[c].cmd)
       \/ tx[c].phase = "applied" /\ UNCHANGED db
    /\ tx' = [tx EXCEPT ![c] = Idle]
    /\ Release(c)
    /\ UNCHANGED <<members, now>>

\* The connection or the handler fails: everything is rolled back.
Abort(c) ==
    /\ tx[c] # Idle
    /\ tx' = [tx EXCEPT ![c] = Idle]
    /\ Release(c)
    /\ UNCHANGED <<db, members, now>>

\* RevokeMembership and GrantMembership wait for the shared row locks of
\* open decisions.
ChangeMembership(s) ==
    /\ \A c \in Txs : tx[c].phase \in {"permitted", "applied"} => s \notin tx[c].held
    /\ members' = IF s \in members THEN members \ {s} ELSE members \cup {s}
    /\ UNCHANGED <<db, now, lock, tx>>

Tick ==
    /\ now < Horizon
    /\ now' = now + 1
    /\ UNCHANGED <<db, members, lock, tx>>

Next ==
    \/ \E c \in Txs :
          \/ Begin(c) \/ Decide(c)
          \/ Authorize(c) \/ ApplyPermit(c)
          \/ Commit(c) \/ Abort(c)
    \/ CreateDetectiveRule
    \/ \E s \in Subjects : ChangeMembership(s)
    \/ Tick

Spec == Init /\ [][Next]_vars

----------------------------------------------------------------------------
(***************************************************************************)
(* Properties.                                                             *)
(***************************************************************************)
Later == now .. Horizon

\* Whatever commands ran, in whatever order their commits fell, no
\* principal has now, or will have at a later instant without a further
\* command, both permissions of a preventative rule: neither directly, by
\* inheritance, by a chain of delegations nor by a mixture of them
\* (reject_new_conflicts under the tenant's lock).
NoLatentConflict == NoConflict(db, now)

\* The committed tables always load: no command leaves more rows, a deeper
\* hierarchy or a delegation cycle that would make SoDAuthority.load refuse
\* every later command of the tenant.
AuthorityLoads == ValidShape(db)

\* After whatever sequence of commands the committed tables always load
\* (AuthorityLoads) and hold no conflict, now or later (NoLatentConflict).
TablesSound == TypeOK /\ AuthorityLoads /\ NoLatentConflict

\* A chain of delegations from a principal that holds the role directly
\* down to `subject`, each link live and within the one above it.
RootedChain(tables, subject, role, scope, window, t) ==
    \E n \in 0 .. Cardinality(tables.delegations) :
        \E chain \in [1 .. n -> tables.delegations] :
            LET Up(i) == IF i = 0
                         THEN [who |-> subject, scope |-> scope,
                               from |-> window.from, to |-> window.to]
                         ELSE [who |-> chain[i].delegator, scope |-> chain[i].scope,
                               from |-> chain[i].from, to |-> chain[i].to]
            IN /\ \A i \in 1 .. n :
                     chain[i] \in Links(tables, Up(i - 1).who, role,
                                       Up(i - 1).scope, Up(i - 1), t)
               /\ HoldsDirectly(tables, Up(n).who, role, Up(n).scope, Up(n), t)

\* The bounded search that skips visited principals finds a source exactly
\* when there is a chain of live delegations back to a direct assignment
\* (has_effective_role_source).
SourceIsAChain ==
    \A s \in Subjects, role \in DOMAIN db.roles, scope \in Scopes,
       w \in Windows, t \in Later :
        has_effective_role_source(db, s, role, scope, w, t)
            <=> RootedChain(db, s, role, scope, w, t)

\* The mutation guard over-approximates the live decision: every role a
\* request can be authorised by, on any record and with any memberships, is
\* one the SoD projection counts (v2_runtime and sod_authority walk the same
\* tables with two different algorithms).
LiveWithinProjection ==
    \A s \in Subjects, site \in Sites, t \in Later :
        active_roles(db, members, s, site, t) \subseteq RolesAt(db, s, t)

\* The level-bounded walk of the live decision reaches every ancestor of
\* every role the commands can create, the deepest one included.
LiveSeesLineage ==
    \A role \in DOMAIN db.roles :
        WithParents(db.roles, {role}) = Lineage(db.roles, role)

\* The live decision and the projection, two algorithms over the same
\* tables with their own depth bounds, agree where they must: the search for
\* a delegated role is a chain, the walk over parents is the lineage, and
\* what is granted is counted.
LiveAgrees == SourceIsAChain /\ LiveSeesLineage /\ LiveWithinProjection

\* From the moment the owner's write is applied until it commits, neither a
\* revoked delegation, a revoked membership nor any other committed command
\* takes away the authority it was applied under (the locks a decision
\* takes are kept to the end of its transaction).
AppliedStaysAuthorized ==
    \A c \in Txs : tx[c].phase = "applied" =>
        authorize(db, members, tx[c].subject, tx[c].action, tx[c].site, tx[c].at)

\* A live decision is what the tables say, and it is still so when the write
\* it allowed commits (authorize, v2_runtime).
DecisionsStand == LiveAgrees /\ AppliedStaysAuthorized
=============================================================================
