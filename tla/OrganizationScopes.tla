------------------------- MODULE OrganizationScopes -------------------------
(***************************************************************************)
(* Organization: the company hierarchy of one tenant, the principals that  *)
(* are assigned to its scopes, delegations of a scope along chains of      *)
(* principals, and the selection of an active scope (organization          *)
(* module.py).                                                             *)
(*                                                                         *)
(* Delegating, revoking and selecting through a delegation hold the        *)
(* tenant's authority lock of Policy; a selection by assignment does not,  *)
(* and is protected by share locks on rows alone.  A command that inserts  *)
(* one row, or deletes or marks one under the lock, is one step: what it   *)
(* reads is immutable, or a membership whose loss before the commit is no  *)
(* different from its loss after it.                                       *)
(*                                                                         *)
(* Hierarchy rows are never updated by a command, so they only go out of   *)
(* effect by their dates; they are in effect from their creation.  Not     *)
(* represented: site types, relationships, codes and names, the type of a  *)
(* principal (part of its name), tenant status, the scope already active   *)
(* in the caller's context (it can only refuse a delegation).              *)
(***************************************************************************)
EXTENDS Integers, FiniteSets

CONSTANTS
    Txs, NoTx,
    Principals,
    Actions,      \* actions that a delegation may allow
    Seeds,        \* hierarchies at the beginning of a behaviour
    MaxNodes,     \* bound: hierarchy rows
    MaxSelected,  \* bound: rows named by one selection
    Choices,      \* the selections that are asked for
    MaxAssigned,  \* bound: assignment rows
    MaxGrants,    \* bound: delegation rows
    MaxChain,     \* longest chain of delegations (16)
    Windows,      \* validity periods of grants
    Horizon       \* bound: the clock

ASSUME OrganizationAssumption ==
    /\ NoTx \notin Txs
    /\ MaxNodes \in Nat /\ MaxSelected \in Nat /\ MaxAssigned \in Nat /\ MaxGrants \in Nat
    /\ Choices \subseteq SUBSET (1..MaxNodes)
    /\ MaxChain \in Nat \ {0} /\ Horizon \in Nat

VARIABLES
    now,
    node,      \* hierarchy rows
    assigned,  \* assignments
    given,     \* delegated_scopes
    members,   \* principals with an active membership
    policy,    \* <<principal, action>> that Policy decides positively
    lock,      \* the holder of the tenant's authority lock
    tx         \* open transactions

vars == <<now, node, assigned, given, members, policy, lock, tx>>
orgVars == <<node, assigned, given>>
authorityVars == <<members, policy>>

Nodes == 1..MaxNodes
Grants == 1..MaxGrants
Forever == Horizon + 1
Time == 0..Forever

\* The table that the mandatory owner of each kind of row is in, and the one
\* that its optional parent is in.
OwnerKind == [enterprise_group |-> "nothing", legal_entity |-> "enterprise_group",
              company |-> "legal_entity", org_unit |-> "company", region |-> "company",
              operating_site |-> "company", financial_dimension |-> "company",
              warehouse |-> "company", warehouse_location |-> "warehouse"]

ParentKind == [org_unit |-> "org_unit", region |-> "region", operating_site |-> "region",
               warehouse |-> "operating_site", warehouse_location |-> "warehouse_location"]

Kinds == DOMAIN OwnerKind

\* _SCOPE_TABLES: what can be assigned, delegated and selected
ScopeKinds == Kinds \ {"warehouse_location"}

NodeRow == [kind : Kinds, owner : 0..MaxNodes, parent : 0..MaxNodes, until : Time]
Absent == [kind |-> "none", owner |-> 0, parent |-> 0, until |-> 0]

Window == {w \in [from : Time, until : Time] : w.from < w.until}
Assignment == [who : Principals, scope : Nodes, window : Window]
Delegation == [grantor : Principals, recipient : Principals, scope : Nodes,
               acts : SUBSET Actions, window : Window,
               parent : 0..MaxGrants, revoked : {0, 1}]
NoGrant == [parent |-> 0]

ASSUME WindowsAssumption == Windows \subseteq Window

Idle == [pc |-> "idle"]

Init ==
    /\ now = 0
    /\ node \in Seeds
    /\ assigned = {}
    /\ given = [d \in Grants |-> NoGrant]
    /\ members = Principals
    /\ policy = Principals \X Actions
    /\ lock = NoTx
    /\ tx = [t \in Txs |-> Idle]

----------------------------------------------------------------------------
(* The hierarchy.                                                          *)

Exists(n) == node[n].kind # "none"
Effective(n) == Exists(n) /\ now < node[n].until

\* validate_effective_period and the guards of the create handlers: the owner
\* is in the tenant, and a parent belongs to the same owner.
Fits(h, k, o, p) ==
    /\ IF OwnerKind[k] = "nothing" THEN o = 0 ELSE o # 0 /\ h[o].kind = OwnerKind[k]
    /\ p # 0 => k \in DOMAIN ParentKind /\ h[p].kind = ParentKind[k] /\ h[p].owner = o
MayCreate(k, o, p) == Fits(node, k, o, p)

\* What the create handlers can make: each row fits to rows created before it.
Hierarchy(h) ==
    /\ h \in [Nodes -> NodeRow \cup {Absent}]
    /\ \A n \in Nodes : h[n] # Absent =>
         /\ h[n].owner < n /\ h[n].parent < n /\ Fits(h, h[n].kind, h[n].owner, h[n].parent)
         /\ \A m \in 1..n : h[m] # Absent

ASSUME SeedsAssumption == \A h \in Seeds : Hierarchy(h)

Insert(k, o, p, until) ==
    /\ until > 0
    /\ MayCreate(k, o, p)
    /\ \E n \in Nodes :
         /\ ~Exists(n) /\ \A m \in Nodes : m < n => Exists(m)
         /\ node' = [node EXCEPT ![n] = [kind |-> k, owner |-> o, parent |-> p, until |-> until]]
    /\ UNCHANGED <<now, assigned, given, authorityVars, lock, tx>>

CreateEnterpriseGroup(until) == Insert("enterprise_group", 0, 0, until)
CreateLegalEntity(group, until) == Insert("legal_entity", group, 0, until)
CreateCompany(entity, until) == Insert("company", entity, 0, until)
CreateOrgUnit(company, parent, until) == Insert("org_unit", company, parent, until)
CreateRegion(company, parent, until) == Insert("region", company, parent, until)
CreateOperatingSite(company, region, until) == Insert("operating_site", company, region, until)
CreateFinancialDimension(company, until) == Insert("financial_dimension", company, 0, until)
CreateWarehouse(company, site, until) == Insert("warehouse", company, site, until)
CreateWarehouseLocation(warehouse, parent, until) == Insert("warehouse_location", warehouse, parent, until)

CreateNode ==
    \E until \in {1, Forever} :
        \/ CreateEnterpriseGroup(until)
        \/ \E o \in Nodes :
             CreateLegalEntity(o, until) \/ CreateCompany(o, until) \/ CreateFinancialDimension(o, until)
        \/ \E o \in Nodes, p \in 0..MaxNodes :
             \/ CreateOrgUnit(o, p, until) \/ CreateRegion(o, p, until)
             \/ CreateOperatingSite(o, p, until) \/ CreateWarehouse(o, p, until)
             \/ CreateWarehouseLocation(o, p, until)

\* Owners and parents of n, n included (_scope_lineage, _append_parent_chain).
Lineage(n) ==
    LET above[m \in 0..MaxNodes] ==
            IF m = 0 \/ ~Exists(m) THEN {} ELSE {m} \cup above[node[m].owner] \cup above[node[m].parent]
    IN above[n]

\* Every row of it is in effect and of the company of n.
LineageHolds(n) ==
    /\ Exists(n)
    /\ \A m \in Lineage(n) :
         /\ Effective(m)
         /\ node[m].parent # 0 => node[node[m].parent].owner = node[m].owner

\* The lineage that delegations are compared with: called with the scope type
\* "org_unit", _scope_lineage adds the company's lineage but not the parents.
DelegationLineage(n) ==
    IF node[n].kind = "org_unit" THEN {n} \cup Lineage(node[n].owner) ELSE Lineage(n)

Scopes == {n \in Nodes : node[n].kind \in ScopeKinds}

----------------------------------------------------------------------------
(* Selections: the explicitly selected rows.                               *)

OfKind(S, k) == {n \in S : node[n].kind = k}
Lineages(S) == UNION {Lineage(n) : n \in S}

\* SelectActiveScope has one field for every kind but units and dimensions,
\* which have one for each type.
Selectable(S) ==
    /\ Cardinality(S) <= MaxSelected
    /\ \A k \in ScopeKinds \ {"org_unit", "financial_dimension"} : Cardinality(OfKind(S, k)) <= 1

\* Mutant of SingleChain: selected rows are only compared with other kinds.
SingleChainUnchecked(S, k) == TRUE

\* Two selected rows are in one line (_require_single_chain).
SingleChain(S, k) == \A a, b \in OfKind(S, k) : a \in Lineage(b) \/ b \in Lineage(a)

\* A selected row of a kind that another row's lineage has is in that lineage
\* (_canonical_scope_selection).
NamesAncestors(S) ==
    \A a, b \in S :
        (node[a].kind # "financial_dimension" /\ node[a].kind # node[b].kind
            /\ OfKind(Lineage(b), node[a].kind) # {})
          => a \in Lineage(b)

Consistent(S) ==
    /\ \A k \in {"enterprise_group", "legal_entity", "company"} :
         Cardinality(OfKind(Lineages(S), k)) <= 1
    /\ NamesAncestors(S)
    /\ SingleChain(S, "org_unit") /\ SingleChain(S, "region")

Leaves(S) == {a \in S : \A b \in S \ {a} : a \notin Lineage(b)}

\* _ScopeSelection.authorized_by and authorized_by_any
AuthorizedBy(S, scope) == S # {} /\ \A a \in S : scope \in Lineage(a)
AuthorizedByAny(S, scopes) == \A a \in S : Lineage(a) \cap scopes # {}

Selections == {S \in SUBSET Scopes : Selectable(S)}

Resolves(S) == (\A n \in S : LineageHolds(n)) /\ Consistent(S)

----------------------------------------------------------------------------
(* Assignments.                                                            *)

AssignPrincipal(p, s, w) ==
    /\ Cardinality(assigned) < MaxAssigned
    /\ p \in members
    /\ LineageHolds(s)
    /\ \A r \in assigned : ~(r.who = p /\ r.scope = s /\ r.window.from = w.from)
    /\ assigned' = assigned \cup {[who |-> p, scope |-> s, window |-> w]}
    /\ UNCHANGED <<now, node, given, authorityVars, lock, tx>>

Locked(t, r) == tx[t].pc \in {"checked", "decided"} /\ r \in tx[t].rows

\* DELETE waits for the share locks of selections.
RevokeAssignment(r) ==
    /\ lock = NoTx
    /\ \A t \in Txs : ~Locked(t, r)
    /\ assigned' = assigned \ {r}
    /\ UNCHANGED <<now, node, given, authorityVars, lock, tx>>

Live(w) == w.from <= now /\ now < w.until

----------------------------------------------------------------------------
(* Chains of delegations.                                                  *)

\* The rows from d up to the one with a direct source.
Path(d) ==
    LET up[g \in 0..MaxGrants] == IF g = 0 THEN {} ELSE {g} \cup up[given[g].parent]
    IN up[d]

\* The principal whose assignment a path rests on; without a path the consumer
Root(d, consumer) ==
    IF d = 0 THEN consumer
    ELSE given[CHOOSE g \in Path(d) : given[g].parent = 0].grantor

Recipients(d) == {given[g].recipient : g \in Path(d)}

\* The path ends at the consumer; each grantor is the recipient above; nobody
\* is on it twice.
Linked(d, consumer) ==
    /\ d # 0 => given[d].recipient = consumer
    /\ \A g \in Path(d) : given[g].parent # 0 => given[g].grantor = given[given[g].parent].recipient
    /\ Root(d, consumer) \notin Recipients(d)
    /\ Cardinality(Recipients(d)) = Cardinality(Path(d))

\* Mutant of PeriodCovers: a period may outlast its source.
PeriodBegins(w, period) == w.from <= period.from /\ Live(w)

\* _period_covers
PeriodCovers(w, period) ==
    w.from <= period.from /\ period.until <= w.until /\ Live(w)

\* The root's assignments that carry the target (_validate_delegation_path)
RootAssignments(root, target, period) ==
    {r \in assigned : r.who = root /\ r.scope \in DelegationLineage(target)
                        /\ PeriodCovers(r.window, period)}

PrincipalsOf(d, consumer) == {Root(d, consumer)} \cup Recipients(d)

\* _validate_delegation_path: `fresh` holds the recipient of a new row.
PathHolds(consumer, d, target, acts, period, fresh) ==
    /\ acts # {}
    /\ Linked(d, consumer)
    /\ Cardinality(Path(d)) + Cardinality(fresh) <= MaxChain
    /\ fresh \cap PrincipalsOf(d, consumer) = {}
    /\ PrincipalsOf(d, consumer) \cup fresh \subseteq members
    /\ RootAssignments(Root(d, consumer), target, period) # {}
    /\ LineageHolds(target)
    /\ \A g \in Path(d) :
         /\ given[g].revoked = 0
         /\ given[g].scope \in DelegationLineage(target)
         /\ acts \subseteq given[g].acts
         /\ PeriodCovers(given[g].window, period)
    /\ {Root(d, consumer)} \X acts \subseteq policy

\* DelegateScope: the row is written at the commit.
DelegateScope(t, p, d, to, s, acts, w) ==
    /\ tx[t] = Idle /\ lock = NoTx
    /\ \E g \in Grants : given[g] = NoGrant
    /\ now < w.until
    /\ PathHolds(p, d, s, acts, w, {to})
    /\ lock' = t
    /\ tx' = [tx EXCEPT ![t] =
         [pc |-> "decided", op |-> "delegate", who |-> p, via |-> d, sel |-> {s}, acts |-> acts,
          rows |-> {r \in assigned : r.who = Root(d, p)},
          held |-> PrincipalsOf(d, p) \cup {to},
          row |-> [grantor |-> p, recipient |-> to, scope |-> s, acts |-> acts, window |-> w,
                   parent |-> d, revoked |-> 0]]]
    /\ UNCHANGED <<now, orgVars, authorityVars>>

RevokeOrganizationDelegation(d) ==
    /\ lock = NoTx
    /\ given[d] # NoGrant /\ given[d].revoked = 0
    /\ given' = [given EXCEPT ![d].revoked = 1]
    /\ UNCHANGED <<now, node, assigned, authorityVars, lock, tx>>

----------------------------------------------------------------------------
(* SelectActiveScope.                                                      *)

\* Without a delegation: membership, then rows and their lineages,
SelectDirect(t, p, S) ==
    /\ tx[t] = Idle
    /\ p \in members
    /\ Resolves(S)
    /\ tx' = [tx EXCEPT ![t] = [pc |-> "resolved", op |-> "select", who |-> p, via |-> 0, sel |-> S]]
    /\ UNCHANGED <<now, orgVars, authorityVars, lock>>

\* the assignments, which stay share locked,
CurrentAssignments(p) == {r \in assigned : r.who = p /\ Live(r.window)}
AssignedScopes(p) == {r.scope : r \in {a \in CurrentAssignments(p) : LineageHolds(a.scope)}}

\* Mutant of CheckAssignments: the assignments are read without FOR SHARE.
CheckWithoutLock(t) ==
    /\ tx[t].pc = "resolved"
    /\ AuthorizedByAny(tx[t].sel, AssignedScopes(tx[t].who))
    /\ tx' = [tx EXCEPT ![t] = [pc |-> "checked", op |-> "select", who |-> tx[t].who, via |-> 0,
                                sel |-> tx[t].sel, held |-> {}, rows |-> {}]]
    /\ UNCHANGED <<now, orgVars, authorityVars, lock>>

CheckAssignments(t) ==
    /\ tx[t].pc = "resolved"
    /\ AuthorizedByAny(tx[t].sel, AssignedScopes(tx[t].who))
    /\ tx' = [tx EXCEPT ![t] = [pc |-> "checked", op |-> "select", who |-> tx[t].who, via |-> 0,
                                sel |-> tx[t].sel, held |-> {},
                                rows |-> IF tx[t].sel = {} THEN {} ELSE CurrentAssignments(tx[t].who)]]
    /\ UNCHANGED <<now, orgVars, authorityVars, lock>>

\* and membership again.
CheckMembership(t) ==
    /\ tx[t].pc = "checked"
    /\ tx[t].who \in members
    /\ tx' = [tx EXCEPT ![t].pc = "decided"]
    /\ UNCHANGED <<now, orgVars, authorityVars, lock>>

\* Through a delegation, under the lock: a valid path for every leaf, and its
\* last scope above everything that was selected.
SelectDelegated(t, p, S, d, a) ==
    /\ tx[t] = Idle /\ lock = NoTx
    /\ Resolves(S) /\ S # {}
    /\ \A leaf \in Leaves(S) : PathHolds(p, d, leaf, {a}, [from |-> now, until |-> now + 1], {})
    /\ AuthorizedBy(S, given[d].scope)
    /\ lock' = t
    /\ tx' = [tx EXCEPT ![t] =
         [pc |-> "decided", op |-> "select", who |-> p, via |-> d, sel |-> S, acts |-> {a},
          rows |-> {r \in assigned : r.who = Root(d, p)}, held |-> PrincipalsOf(d, p)]]
    /\ UNCHANGED <<now, orgVars, authorityVars>>

----------------------------------------------------------------------------
(* The end of a transaction, and what happens elsewhere.                   *)

Unlock(t) ==
    /\ tx' = [tx EXCEPT ![t] = Idle]
    /\ lock' = IF lock = t THEN NoTx ELSE lock

Commit(t) ==
    /\ tx[t].pc = "decided"
    /\ IF tx[t].op = "delegate"
       THEN \E g \in Grants :
              /\ given[g] = NoGrant /\ \A h \in Grants : h < g => given[h] # NoGrant
              /\ given' = [given EXCEPT ![g] = tx[t].row]
       ELSE UNCHANGED given
    /\ Unlock(t)
    /\ UNCHANGED <<now, node, assigned, authorityVars>>

\* A check fails, or the connection is lost.
Rollback(t) ==
    /\ tx[t] # Idle
    /\ Unlock(t)
    /\ UNCHANGED <<now, orgVars, authorityVars>>

\* Identity suspends or revokes a membership: an update of a row that paths
\* share lock.
RevokeMembership(p) ==
    /\ p \in members
    /\ \A t \in Txs : tx[t].pc = "decided" => p \notin tx[t].held
    /\ members' = members \ {p}
    /\ UNCHANGED <<now, orgVars, policy, lock, tx>>

\* Policy withdraws an action, under the same lock.
WithdrawAction(p, a) ==
    /\ lock = NoTx /\ <<p, a>> \in policy
    /\ policy' = policy \ {<<p, a>>}
    /\ UNCHANGED <<now, orgVars, members, lock, tx>>

Tick ==
    /\ now < Horizon
    /\ now' = now + 1
    /\ UNCHANGED <<orgVars, authorityVars, lock, tx>>

AssignmentStep ==
    \/ \E p \in Principals, s \in Scopes, w \in Windows : AssignPrincipal(p, s, w)
    \/ \E r \in assigned : RevokeAssignment(r)

\* The delegations somebody can name as the source; 0 for none
Sources == {0} \cup {d \in Grants : given[d] # NoGrant}

DelegationStep ==
    \/ \E t \in Txs, p, q \in Principals, d \in Sources, s \in Scopes,
          acts \in SUBSET Actions, w \in Windows : DelegateScope(t, p, d, q, s, acts, w)
    \/ \E d \in Grants : RevokeOrganizationDelegation(d)

SelectionStep ==
    \E t \in Txs :
        \/ \E p \in Principals, S \in Choices \cap Selections : SelectDirect(t, p, S)
        \/ CheckAssignments(t) \/ CheckMembership(t)
        \/ \E p \in Principals, S \in Choices \cap Selections, d \in Sources \ {0}, a \in Actions :
             SelectDelegated(t, p, S, d, a)

Next ==
    \/ CreateNode \/ AssignmentStep \/ DelegationStep \/ SelectionStep
    \/ \E t \in Txs : Commit(t) \/ Rollback(t)
    \/ \E p \in Principals : RevokeMembership(p) \/ \E a \in Actions : WithdrawAction(p, a)
    \/ Tick

Spec == Init /\ [][Next]_vars

----------------------------------------------------------------------------
(* Properties.                                                             *)

Decided(t) == tx[t].pc = "decided"

TypeOK ==
    /\ now \in 0..Horizon
    /\ node \in [Nodes -> NodeRow \cup {Absent}]
    /\ assigned \subseteq Assignment
    /\ given \in [Grants -> Delegation \cup {NoGrant}]
    /\ members \subseteq Principals
    /\ policy \subseteq Principals \X Actions
    /\ lock \in Txs \cup {NoTx}
    /\ \A t \in Txs :
         /\ tx[t].pc \in {"idle", "resolved", "checked", "decided"}
         /\ lock = t <=> Decided(t) /\ (tx[t].op = "delegate" \/ tx[t].via # 0)

\* Whatever was created, a row has one row of each of these kinds above it,
\* although it is reached through owners and through parents, and the checks
\* of a creation look at the next row only.
OneLine ==
    \A n \in Nodes : Exists(n) =>
        \A k \in {"enterprise_group", "legal_entity", "company", "operating_site", "warehouse"} :
            Cardinality(OfKind(Lineage(n), k)) <= 1

\* The rows keep their types, the lock its holder, and the hierarchy its form.
HierarchySound == TypeOK /\ OneLine

\* Of every kind, the rows of S and all rows above them are in one line.
OneHierarchy(S) ==
    \A k \in ScopeKinds \ {"financial_dimension"} :
        \A a, b \in OfKind(Lineages(S), k) : a \in Lineage(b) \/ b \in Lineage(a)

ConsistentIsOne == \A S \in Selections : Consistent(S) => OneHierarchy(S)

\* Whatever rows are created, a selection that is accepted describes one
\* hierarchy, although the code only compares selected rows with lineages,
\* pair by pair (_canonical_scope_selection).
SelectionsAreOneHierarchy == [][node' # node => ConsistentIsOne']_vars

\* A delegation gives no more than any one above it, although each was only
\* compared with those that existed when it was made: a scope below theirs,
\* their actions, their time, and nobody twice on the way
\* (_validate_delegation_path).
DelegationsNarrow ==
    \A d \in Grants : given[d] # NoGrant =>
        /\ Linked(d, given[d].recipient)
        /\ Cardinality(Path(d)) <= MaxChain
        /\ \A g \in Path(d) :
             /\ given[g].scope \in Lineage(given[d].scope)
             /\ given[d].acts \subseteq given[g].acts
             /\ given[g].window.from <= given[d].window.from
             /\ given[d].window.until <= given[g].window.until

\* Rows form hierarchies (HierarchySound), and rights only narrow on their way
\* down them (DelegationsNarrow), after whatever sequence of commands.
StructureSound == HierarchySound /\ DelegationsNarrow

\* From its decision to its commit a selection or a delegation keeps what it
\* was decided on: the assignments above every selected row, every delegation
\* of the path and the membership of everybody on it, the root's assignment
\* above every leaf and Policy's decision.  A selection by assignment takes no
\* common lock and has only its row locks (_select_scope, _delegation,
\* _revoke_assignment).
DecisionStands ==
    \A t \in Txs : Decided(t) =>
        IF tx[t].op = "select" /\ tx[t].via = 0
        THEN AuthorizedByAny(tx[t].sel, {r.scope : r \in {a \in assigned : a.who = tx[t].who}})
        ELSE /\ \A g \in Path(tx[t].via) : given[g].revoked = 0
             /\ tx[t].held \subseteq members
             /\ \A n \in Leaves(tx[t].sel) :
                  \E r \in assigned : r.who = Root(tx[t].via, tx[t].who) /\ r.scope \in Lineage(n)
             /\ {Root(tx[t].via, tx[t].who)} \X tx[t].acts \subseteq policy
=============================================================================
