------------------------- MODULE DataClassification -------------------------
(***************************************************************************)
(* One tenant's data classifications (classification_runtime.py and the    *)
(* classification commands of data_governance/module.py).  A canonical or  *)
(* a tenant definition has versions that follow each other in time, and a  *)
(* tenant may strengthen a canonical one with overlays.  A new reference   *)
(* (a field tag, a retention policy) pins the version that is current, and *)
(* keeps writers away with advisory and row locks until it is committed.   *)
(* Canonical versions are scheduled by operators, possibly for later.      *)
(***************************************************************************)
EXTENDS Integers, FiniteSets, FiniteSetsExt

CONSTANTS
    Sessions,
    Fields, Policies,   \* what refers to a classification: field tags and retention policies
    MaxTime,            \* bound: the clock
    MaxLevel,           \* sensitivity levels
    Budgets             \* bound: how often each kind of command runs

VARIABLES
    clock,
    core, tenant,       \* code -> definition with its versions, or None
    overlays,           \* the tenant's overlay versions of the canonical code "c"
    tags,               \* tag or policy -> the reference it carries, or None
    tx, left

vars == <<clock, core, tenant, overlays, tags, tx, left>>

\* "c" is canonical, "t" is a tenant code based on it, "x" is claimed by nobody yet.
Codes == {"c", "t", "x"}
HasBase(code) == code = "t"
None == [active |-> FALSE]
Idle == [pc |-> "idle"]
Forever == MaxTime + 1
Controls == [level : 1..MaxLevel, mask : BOOLEAN]

Version(n, from, c) == [version |-> n, from |-> from, until |-> Forever, controls |-> c]
Definition(c, now) == [active |-> TRUE, versions |-> {Version(1, now, c)}]
Least == [level |-> 1, mask |-> FALSE]

Init ==
    /\ clock = 1
    /\ core = [c \in Codes |-> IF c = "c" THEN Definition(Least, 1) ELSE None]
    /\ tenant = [c \in Codes |-> IF c = "t" THEN Definition(Least, 1) ELSE None]
    /\ overlays = {}
    /\ tags = [f \in Fields \cup Policies |-> None]
    /\ tx = [s \in Sessions |-> Idle]
    /\ left \in Budgets

Spend(x) == left[x] > 0 /\ left' = [left EXCEPT ![x] = @ - 1]
Go(s, pc) == tx' = [tx EXCEPT ![s].pc = pc]
End(s) == tx' = [tx EXCEPT ![s] = Idle]
Others(s) == {o \in Sessions \ {s} : tx[o].pc # "idle"}

-----------------------------------------------------------------------------
(* Resolving a reference at an instant.                                      *)

Effective(versions, at) == {v \in versions : v.from <= at /\ at < v.until}
Open(versions) == {v \in versions : v.until = Forever}
Latest(versions) == Max({v.version : v \in versions} \cup {0})
\* A new version closes the open one at the instant it begins.
Succeed(versions, now, c) ==
    {IF v.until = Forever THEN [v EXCEPT !.until = now] ELSE v : v \in versions}
    \cup {Version(Latest(versions) + 1, now, c)}
\* ck_..._interval: a version closed at the instant it began has an empty interval.
Closable(versions, now) == \A v \in Open(versions) : v.from < now

Denied == [version |-> 0]
Weakens(base, addition) == addition.level < base.level
Compose(base, addition) == [level |-> Max({base.level, addition.level}),
                            mask |-> base.mask \/ addition.mask]
Result(v, c) == [version |-> v.version, controls |-> c]

\* Exactly one version, at most one overlay, and none that ran out or weakens.
CanonicalFor(code, added, at) ==
    LET versions == Effective(core[code].versions, at)
        additions == Effective(added, at) IN
    IF core[code] = None \/ Cardinality(versions) # 1 \/ Cardinality(additions) > 1 THEN Denied
    ELSE LET v == CHOOSE w \in versions : TRUE IN
         IF additions = {} THEN IF \E w \in added : w.from <= at THEN Denied
                                ELSE Result(v, v.controls)
         ELSE LET a == (CHOOSE w \in additions : TRUE).controls IN
              IF Weakens(v.controls, a) THEN Denied ELSE Result(v, Compose(v.controls, a))
Canonical(code, at) == CanonicalFor(code, IF code = "c" THEN overlays ELSE {}, at)

\* The tenant's own version, over its base.
Owned(code, base, at) ==
    LET versions == Effective(tenant[code].versions, at) IN
    IF tenant[code] = None \/ Cardinality(versions) # 1 \/ base = Denied THEN Denied
    ELSE LET v == CHOOSE w \in versions : TRUE IN
         IF ~HasBase(code) THEN Result(v, v.controls)
         ELSE IF Weakens(base.controls, v.controls) THEN Denied
         ELSE Result(v, Compose(base.controls, v.controls))
BaseOf(code, at) == IF HasBase(code) THEN Canonical("c", at) ELSE Result([version |-> 1], Least)

Resolve(kind, code, at) ==
    IF kind = "core" THEN Canonical(code, at) ELSE Owned(code, BaseOf(code, at), at)
IsActive(kind, code) == IF kind = "core" THEN core[code].active ELSE tenant[code].active

-----------------------------------------------------------------------------
(* Locks, held to the end of the transaction.                                *)

\* pg_advisory_xact_lock_shared on classification-core, after an operator's exclusive one.
\* An assignment of a code without a base takes neither advisory lock.
Based(o) == tx[o].kind = "core" \/ HasBase(tx[o].code)
CoreShared(o) ==
    tx[o].pc \in {"overlay", "base", "row", "write", "admit", "resolve", "put"} /\ Based(o)
CoreFree(s) == \A o \in Others(s) : tx[o].pc # "schedule"
CoreExclusive(s) == \A o \in Others(s) : ~CoreShared(o) /\ tx[o].pc # "schedule"
OverlayFree(s) == \A o \in Others(s) : tx[o].pc \notin {"resolve", "put"}
OverlayExclusive(s) ==
    \A o \in Others(s) : ~ (tx[o].pc \in {"base", "row", "write", "resolve", "put"} /\ Based(o))
\* The definition's row: FOR SHARE of an assignment, FOR UPDATE of a revision.
RowFree(s, code) == ~ \E o \in Others(s) : tx[o].pc = "revise" /\ tx[o].code = code
RowExclusive(s, code) ==
    ~ \E o \in Others(s) : /\ tx[o].pc \in {"write", "revise"}
                           /\ tx[o].kind = "tenant" /\ tx[o].code = code
IdentityFree(s) == \A o \in Others(s) : tx[o].pc # "claimed"

-----------------------------------------------------------------------------
(* A new reference.                                                          *)

\* The tenant's definition is first read without a lock.
BeginAssign(s) ==
    /\ tx[s].pc = "idle" /\ Spend("assign")
    /\ \E field \in Fields \cup Policies, mask \in BOOLEAN, legacy \in BOOLEAN,
          kind \in {"core", "tenant"}, code \in Codes :
         /\ field \in Policies => ~mask
         /\ IF kind = "core" THEN code = "c" ELSE tenant[code] # None /\ ~legacy
         /\ tx' = [tx EXCEPT ![s] =
              [pc |-> IF kind = "core" \/ HasBase(code) THEN "core" ELSE "row", field |-> field,
               mask |-> mask, legacy |-> legacy, kind |-> kind, code |-> code,
               active |-> IsActive(kind, code), at |-> 0, result |-> Denied]]
    /\ UNCHANGED <<clock, core, tenant, overlays, tags>>

LockCore(s) ==
    /\ tx[s].pc = "core" /\ CoreFree(s) /\ Go(s, "overlay")
    /\ UNCHANGED <<clock, core, tenant, overlays, tags, left>>

LockOverlay(s) ==
    /\ tx[s].pc = "overlay" /\ OverlayFree(s) /\ Go(s, "base")
    /\ UNCHANGED <<clock, core, tenant, overlays, tags, left>>

\* The legacy mapping approves version 1 and no other.
Approved(t, r) == r # Denied /\ (t.legacy => r.version = 1)
Resolved(s, r) ==
    tx' = [tx EXCEPT ![s] = IF Approved(tx[s], r) /\ tx[s].active
                            THEN [@ EXCEPT !.pc = "write", !.at = clock, !.result = r] ELSE Idle]

\* The instant is taken once the locks are held.
ResolveBase(s) ==
    /\ tx[s].pc = "base"
    /\ LET base == Canonical("c", clock) IN
       IF tx[s].kind = "core" THEN Resolved(s, base)
       ELSE tx' = [tx EXCEPT ![s] = IF base = Denied THEN Idle
                                    ELSE [@ EXCEPT !.pc = "row", !.result = base]]
    /\ UNCHANGED <<clock, core, tenant, overlays, tags, left>>

\* Mutant of BaseAgain: the base found before the row was locked is used.
BaseBefore(s) == IF HasBase(tx[s].code) THEN tx[s].result ELSE BaseOf(tx[s].code, clock)
\* A scheduled canonical version can begin while the row lock is waited for.
BaseAgain(s) == BaseOf(tx[s].code, clock)

\* A definition deactivated since it was first read is refused.
ResolveOwn(s) ==
    LET code == tx[s].code IN
    /\ tx[s].pc = "row" /\ RowFree(s, code)
    /\ IF tenant[code].active # tx[s].active THEN End(s)
       ELSE Resolved(s, Owned(code, BaseAgain(s), clock))
    /\ UNCHANGED <<clock, core, tenant, overlays, tags, left>>

Reference(t) ==
    [kind |-> t.kind, code |-> t.code, version |-> t.result.version, at |-> t.at,
     mask |-> t.mask \/ t.result.controls.mask]

TagSensitiveField(s) ==
    /\ tx[s].pc = "write" /\ tx[s].field \in Fields /\ End(s)
    /\ tags' = [tags EXCEPT ![tx[s].field] = Reference(tx[s])]
    /\ UNCHANGED <<clock, core, tenant, overlays, left>>

\* A tag is replaced; the code of a policy is used once.
CreateRetentionPolicy(s) ==
    /\ tx[s].pc = "write" /\ tx[s].field \in Policies /\ End(s)
    /\ tags' = IF tags[tx[s].field] = None
               THEN [tags EXCEPT ![tx[s].field] = Reference(tx[s])] ELSE tags
    /\ UNCHANGED <<clock, core, tenant, overlays, left>>

-----------------------------------------------------------------------------
(* The commands of the tenant.                                               *)

BeginOverlay(s) ==
    /\ tx[s].pc = "idle" /\ Spend("overlay")
    /\ tx' = [tx EXCEPT ![s] = [pc |-> "lock", kind |-> "core", code |-> "c"]]
    /\ UNCHANGED <<clock, core, tenant, overlays, tags>>

OverlayCore(s) ==
    /\ tx[s].pc = "lock" /\ CoreFree(s) /\ Go(s, "admit")
    /\ UNCHANGED <<clock, core, tenant, overlays, tags, left>>

OverlayLock(s) ==
    /\ tx[s].pc = "admit" /\ OverlayExclusive(s) /\ Go(s, "resolve")
    /\ UNCHANGED <<clock, core, tenant, overlays, tags, left>>

\* What is current must resolve, and the addition may not weaken the canonical controls.
OverlayResolve(s) ==
    /\ tx[s].pc = "resolve"
    /\ \/ /\ Canonical("c", clock) # Denied
          /\ \E addition \in Controls :
               /\ \A v \in Effective(core["c"].versions, clock) : ~Weakens(v.controls, addition)
               /\ tx' = [tx EXCEPT ![s] = [pc |-> "put", kind |-> "core", code |-> "c",
                                           now |-> clock, controls |-> addition]]
       \/ Canonical("c", clock) = Denied /\ End(s)
    /\ UNCHANGED <<clock, core, tenant, overlays, tags, left>>

PutOverlay(s) ==
    /\ tx[s].pc = "put" /\ End(s)
    /\ overlays' = IF Closable(overlays, tx[s].now)
                   THEN Succeed(overlays, tx[s].now, tx[s].controls) ELSE overlays
    /\ UNCHANGED <<clock, core, tenant, tags, left>>

BeginRevise(s) ==
    /\ tx[s].pc = "idle" /\ Spend("revise")
    /\ \E code \in Codes, c \in Controls :
         /\ tenant[code].active /\ RowExclusive(s, code)
         /\ tx' = [tx EXCEPT ![s] = [pc |-> "revise", kind |-> "tenant", code |-> code,
                                     controls |-> c, now |-> clock]]
    /\ UNCHANGED <<clock, core, tenant, overlays, tags>>

Revise(s) ==
    LET t == tx[s] IN
    /\ t.pc = "revise" /\ End(s)
    /\ tenant' = IF Closable(tenant[t.code].versions, t.now)
                 THEN [tenant EXCEPT ![t.code].versions = Succeed(@, t.now, t.controls)]
                 ELSE tenant
    /\ UNCHANGED <<clock, core, overlays, tags, left>>

Deactivate(s) ==
    /\ Spend("deactivate") /\ tx[s].pc = "idle"
    /\ \E code \in Codes :
         /\ tenant[code].active /\ RowExclusive(s, code)
         /\ tenant' = [tenant EXCEPT ![code].active = FALSE]
    /\ UNCHANGED <<clock, core, overlays, tags, tx>>

\* The command looks for a canonical code; so does the trigger, under the code's lock.
BeginClaim(s) ==
    /\ tx[s].pc = "idle" /\ Spend("claim") /\ core["x"] = None
    /\ \E kind \in {"core", "tenant"} :
         tx' = [tx EXCEPT ![s] = [pc |-> "claim", kind |-> kind, code |-> "x"]]
    /\ UNCHANGED <<clock, core, tenant, overlays, tags>>

Shadowed(kind) == IF kind = "core" THEN tenant["x"] # None ELSE core["x"] # None
Duplicate(kind) == IF kind = "core" THEN core["x"] # None ELSE tenant["x"] # None

IdentityGuard(s) ==
    /\ tx[s].pc = "claim" /\ IdentityFree(s)
    /\ IF Shadowed(tx[s].kind) \/ Duplicate(tx[s].kind) THEN End(s) ELSE Go(s, "claimed")
    /\ UNCHANGED <<clock, core, tenant, overlays, tags, left>>

Claim(s) ==
    /\ tx[s].pc = "claimed" /\ End(s)
    /\ IF tx[s].kind = "core"
       THEN core' = [core EXCEPT !["x"] = Definition(Least, clock)] /\ UNCHANGED tenant
       ELSE tenant' = [tenant EXCEPT !["x"] = Definition(Least, clock)] /\ UNCHANGED core
    /\ UNCHANGED <<clock, overlays, tags, left>>

\* A refused value, a failure or a crash.
Rollback(s) ==
    /\ tx[s].pc # "idle" /\ End(s)
    /\ UNCHANGED <<clock, core, tenant, overlays, tags, left>>

-----------------------------------------------------------------------------
(* Operators.                                                                *)

BeginSchedule(s) ==
    /\ tx[s].pc = "idle" /\ Spend("schedule") /\ CoreExclusive(s)
    /\ \E c \in Controls, from \in clock..MaxTime :
         /\ Closable(core["c"].versions, from)
         /\ tx' = [tx EXCEPT ![s] = [pc |-> "schedule", kind |-> "core", code |-> "c",
                                     controls |-> c, now |-> from]]
    /\ UNCHANGED <<clock, core, tenant, overlays, tags>>

Schedule(s) ==
    /\ tx[s].pc = "schedule" /\ End(s)
    /\ core' = [core EXCEPT !["c"].versions = Succeed(@, tx[s].now, tx[s].controls)]
    /\ UNCHANGED <<clock, tenant, overlays, tags, left>>

Tick ==
    /\ clock < MaxTime /\ clock' = clock + 1
    /\ UNCHANGED <<core, tenant, overlays, tags, tx, left>>

-----------------------------------------------------------------------------
Next ==
    \/ \E s \in Sessions :
         \/ BeginAssign(s) \/ LockCore(s) \/ LockOverlay(s) \/ ResolveBase(s) \/ ResolveOwn(s)
         \/ TagSensitiveField(s) \/ CreateRetentionPolicy(s)
         \/ BeginOverlay(s) \/ OverlayCore(s) \/ OverlayLock(s) \/ OverlayResolve(s)
         \/ PutOverlay(s)
         \/ BeginRevise(s) \/ Revise(s) \/ Deactivate(s)
         \/ BeginClaim(s) \/ IdentityGuard(s) \/ Claim(s)
         \/ BeginSchedule(s) \/ Schedule(s) \/ Rollback(s)
    \/ Tick

Spec == Init /\ [][Next]_vars

-----------------------------------------------------------------------------
TypeOK ==
    /\ clock \in 1..MaxTime
    /\ \A f \in DOMAIN tags : tags[f] # None => tags[f].code \in Codes /\ tags[f].version >= 1

\* Every instant since a history began has one version: none is missing, none ambiguous.
Continuous(versions) ==
    \A v \in versions : \A at \in v.from..MaxTime : Cardinality(Effective(versions, at)) = 1

\* No code is both canonical and the tenant's however the two are claimed, and no overlay,
\* revision or schedule leaves an instant with no version or with two.
ClassificationSound ==
    /\ TypeOK
    /\ \A c \in Codes : core[c] = None \/ tenant[c] = None
    /\ \A c \in Codes : /\ core[c] # None => Continuous(core[c].versions)
                        /\ tenant[c] # None => Continuous(tenant[c].versions)
    /\ Continuous(overlays)

\* A new reference is to a definition that is active when it commits; its version and its
\* masking are what the committed tables say of the instant it was resolved at, and no
\* overlay or revision has begun since that instant.
Assigned ==
    \A f \in DOMAIN tags : tags'[f] # tags[f] =>
        LET t == tags'[f]
            r == Resolve(t.kind, t.code, t.at) IN
        /\ IsActive(t.kind, t.code)
        /\ r # Denied /\ r.version = t.version
        /\ r.controls.mask => t.mask
        /\ \A v \in overlays : t.kind = "core" \/ HasBase(t.code) => v.from <= t.at
        /\ t.kind = "tenant" => \A v \in tenant[t.code].versions : v.from <= t.at
=============================================================================
