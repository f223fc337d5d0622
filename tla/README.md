# Verification of the BusinessOS platform

TLA+ specifications of the parts of BusinessOS in which the order of events
decides whether the system is correct: what its processes, requests, handlers
and transactions may do to each other's state, and what survives a failure
between two of their steps. Each module is translated from the code it names,
checked with TLC on small instances and, where it matters most, proved with
TLAPS for every value of its constants. `PROJECT.json` maps every definition to
the lines it models.

Contents: [the system](#the-system) · [plan](#plan) ·
[modules](#modules) · [runs](#runs) · [fairness](#fairness) ·
[proofs](#proofs) · [findings](#findings) ·
[what is not modelled](#what-is-not-modelled)

## The system

BusinessOS is a modular business platform: a Python kernel
(`platform/src/businessos`) that loads modules, admits requests, runs handlers
in units of work against PostgreSQL and delivers events through an outbox and
NATS JetStream; foundation modules (`foundations/*`) that own tenants,
identities, policy, data governance, metadata, organization and reference data;
a React application (`apps/web`); and a proof module (`examples/proof_module`).

### Components, their state and their operations

| Component | State | Operations | What is hard about it |
|---|---|---|---|
| Module lifecycle (`modules/registry.py`, `runtime.py`) | per module a lifecycle state, hooks' outcomes, a registration | install, enable, disable, enable_all, disable_all, replace, uninstall, retire | hooks fail or are cancelled half-way; a failed enable_all must undo what it did |
| Contribution gate (`activation.py`) | generations, in-flight counters, leases | activate, admit, lease, release, drain, retire | work admitted before a disable runs on while its module is torn down |
| Application (`application.py`) | phase, components started, open requests | start, admit, shutdown, background failures | a startup that fails or is cancelled must release exactly what it acquired |
| Dependency container (`di.py`) | instances, constructions under way, owners, waiters | resolve, register, remove a module's services, close | callers wait for each other's constructions; closing while something is being built |
| Transactional outbox and durable consumer (`eventing.py`, `event_source.py`, `persistence/outbox.py`, foundation event store) | outbox rows, stream, receipts, fences | record, claim, publish, mark, deliver, acknowledge, terminate | at-least-once on both sides, crashes between publish and mark, rolling deployments |
| Workload authority (`workload.py`, identity `workload_*`) | generation of a workload's authority | admit, disable, rotate | authority changes while a worker is inside a delivery |
| Event worker (`event_worker.py`) | acquired resources, health, quarantine | start, run, stop | shutdown with a delivery that resists cancellation |
| Message dispatch (`messages.py`, `operation_boundary.py`, `resources.py`, `publication_execution.py`, `jobs.py`, `persistence/uow.py`) | frames of nested dispatches, units of work, admissions of owners, completion guards | dispatch, resolve a provider, apply an operation, complete, commit, roll back, close | cancellation at every await; what a nested command may still draw on; owners that drain meanwhile |
| Protected databases (`database_execution.py`, `metadata_execution.py`, `publication_database.py`, `database_admission.py`) | pools, leases, tickets, the validated catalog | admit, validate, hand out, release, rotate, revoke, close | a verdict and a pool are used after awaits in which both may change |
| Migrations and administration (`migrations.py`, `database_admin.py`, `bootstrap.py`) | revision graph, inventory, advisory lock, a child process and its session in the server | upgrade, downgrade, cancel, verify; provision | parent, child and session die separately; two releases at once |
| Metadata publication (foundation metadata `store.py`, `ui_*.py`, `activation_fence.py`) | module fences, drafts, revisions, active pointers | edit, preflight, publish, reactivate, retire, resolve, activate a module | activation races publication, in several processes; locks of several modules |
| Custom entities (foundation metadata `custom_entity_store.py`) | rows of tenant-defined types, quotas | create, update, archive, list; retire and publish a type | checks and commit are separate statements; references in both directions |
| Browser sessions and login (identity `web_sessions.py`, `oidc.py`, `web_browser.py`) | Redis session keys, principal index, authorization transactions | create, touch, rotate, revoke, purge, start, callback | concurrent requests of one browser; two Redis commands that are not atomic |
| Identity administration (identity `module.py`, `oidc.py`) | users, memberships, provider and MFA configuration, authentication sessions | grant, revoke, configure, start, revoke and validate a session, resolve a bearer token | a token is verified in one transaction and bound in another |
| Policy (`foundations/policy`) | roles, permissions, assignments, delegations, SoD rules, support grants | create, assign, delegate, revoke; authorize, apply | write skew between authority-increasing commands; rows that start later |
| Retention (`foundations/data_governance`) | retention policies, holds of two tables, purge decisions | set, place, release, execute, complete | a hold placed while its record is being destroyed |
| Data classification (`foundations/data_governance`) | canonical, tenant and overlay versions, references | claim, revise, overlay, schedule, deactivate, assign | a version takes effect while a reference waits for a lock |
| Organization (`foundations/organization`) | effective-dated hierarchy, assignments, chains of scope delegations | create, assign, delegate, revoke, select a scope | a decision outliving what it rests on; chains made at different times |
| Party (`foundations/party`) | parties with random numbers, children, custom values | create, update, add, write values, read whole, match | colliding numbers; values written beside an update or a publication |
| Tenant (`foundations/tenant`) | lifecycle status and version, operations | provision, transition, run the owners' hooks | hooks have effects that no rollback undoes; redelivery |
| Audit | per-tenant checksum chain | append, verify | concurrent appends |
| Geography, units, currency, reference data | reference hierarchies, rates, value sets | define, link, retire | cycles, gaps and overlaps |
| Web application | auth, scope and permission contexts | login, switch scope, refresh | answers of an earlier scope that arrive after a switch |
| Proof module, object storage | projected objects, cleanup attempts | project, reconcile, purge | a delayed write that resurrects purged content |

### How they interact

The application owns the container, the gate, the registry and, in a worker
process, the event worker. Every request passes the application's admission,
then the gate (which pins the generation it runs in), then message dispatch,
which opens a unit of work; the handler's events are rows of the same
transaction. The relay publishes committed rows; the durable consumer admits a
delivery under the workload authority and runs each subscriber in a unit of
work that also writes its receipt. Foundations call each other only through
ports resolved from the container, inside the caller's transaction: policy
locks identity's membership rows and the tenant's authority lock; owners of
records call data governance's gates before they write.

### What makes each modelled component correct

* Module lifecycle and gate: work that was admitted is never torn down under;
  nothing is enabled above something that is not; a failed enable_all leaves
  nothing behind; counters are exact and drains end.
* Events: effects exactly once per committed event and subscriber; a published
  mark never precedes the stream; nothing committed is thrown away; everything
  is eventually applied.
* Application, worker, container: resources are released in reverse order,
  after everything that uses them, on every path; no construction is waited
  for in a circle.
* Sessions and login: a deleted session never returns; one session per login;
  a refused callback leaves nothing usable.
* Retention: no destruction under a hold, whatever the interleaving; policies
  of one subject never overlap; a decision stays justified.
* Policy: no forbidden pair of permissions, now or later; the tables always
  remain loadable; an applied write keeps the authority it was applied under.
* Organization: a selected scope is one hierarchy and is covered by what was
  granted; a delegation never widens what it rests on; decisions keep their
  grounds until they commit.
* Protected databases: no pool is disposed under a transaction and none is
  forgotten; a transaction starts on what was just validated; keyed mutations
  run in order; everything admitted ends.
* Migrations: the outcome a caller is told is the durable one; recorded
  history only grows; stopping a child ends.
* Dispatch: what a unit of work draws on outlives it; a report of success
  means a commit with every guard entered; drains end.
* Metadata publication: active revisions pin what the modules durably are;
  publishers commit what they were shown; no two of them wait in a circle.
* Custom entities, tenant, audit, party, classification: limits hold under
  concurrent writers; what is committed agrees with what the tables hold at the
  commit; chains and histories have no gap; external work follows the
  lifecycle.

## Plan

The modules are ordered by how much of the system depends on what they show.

| # | Module | Composes with | Abstract specification | State |
|---|---|---|---|---|
| 1 | `ModuleLifecycle` | registry and contribution gate in one module, with the requests that pass the gate | – | checked, proved |
| 2 | `EventDelivery` | outbox, broker, durable consumer, bus, workload authority | `EventEffects` | checked, proved |
| 3 | `ApplicationLifecycle` | start, roll back, shutdown, admission | – | checked, proved |
| 4 | `EventWorkerLifecycle` | worker around the application and its subscription | – | checked, proved |
| 5 | `DependencyContainer` | the container, a module's removal, its close | – | checked, proved |
| 6 | `WebSessions` | session store and the service above it | – | checked, proved |
| 7 | `LoginTransactions` | authorization transactions, callback, session creation | – | checked, proved |
| 8 | `RetentionGovernance` | policies, two tables of holds, destruction | – | checked, proved |
| 9 | `PolicyAuthority` | role tables, SoD projection, delegation search, live decision | – | checked, proved |
| 10 | `OrganizationScopes` | hierarchy, assignments, delegations and selections, over policy's lock and identity's memberships | – | checked, proved |
| 11 | `ProtectedDatabase` | the governance, metadata and publication authorities, keyed admission, rotation | – | checked, proved |
| 12 | `MessageDispatch` | dispatcher, unit of work, resource scopes, publication executor, jobs, gate | – | checked, proved |
| 13 | `SchemaMigrations` | parent, child, session and advisory lock | – | checked, proved |
| 14 | `MetadataPublication` | definitions and UI overlays under the activation fence, several processes | – | checked, proved |
| 15 | `CustomEntities` | entity store, retirement and publication of types, quota and audit locks | – | checked, proved |
| 16 | `TenantAccess` | tenant lifecycle, identity directory, bearer login | – | checked, proved |
| 17 | `AuditTrail`, `PartyRecords`, `DataClassification` | one foundation each | – | checked, proved |
| 18 | `RetentionCleanup` | proof module, fenced object store, cleanup results; with `RetentionGovernance` | purged content never returns | open |
| 19 | `ReferenceHierarchies` | geography, units, currency, reference data | acyclic and gap-free | open |
| 20 | `ClientContexts` | the web application's session, scope and permission contexts | no answer of an earlier scope is shown | open |

Modules 1 to 17 are written, checked and proved. Next: modules 18 to 20.

## Modules

Conventions. A step of the model ends where the code lets something else run:
at an `await`, at the commit of a transaction, at one command of Redis or one
message to the broker. What the code does between two such points is one
action, early returns and cleanup included. A command's guard is the code's
checks; a check that fails is an action of its own when it changes state (a
rollback, a released lock) and otherwise simply not a step. Names follow the
code. Where a run needs several workloads, the MC module carries them in one
frozen variable (`load` or `scene`) that only restricts which commands are
issued; the specification itself does not know them. Components that
share no state and answer the same kind of question share a run in the same
way: a behaviour follows one of them, the variables of the others keep a
constant or one of their initial states, and TLC explores the scenes side by side; nothing is composed that is
not composed in the code.

### ModuleLifecycle
`state`, `started`, `reg` are `RegisteredModule.state`, the modules whose
`start` hook ran and the registration of each; `lifecycle`, `inFlight` and the
generations are `ContributionGate`; one program counter stands for the holder
of `LifecycleManager._lifecycle_lock`, because install, enable, disable,
enable_all, disable_all and retire all run under it. Its steps are the hooks
(which succeed, fail or are cancelled), registration, publication and drain.
Requests resolve a contribution, await, and are admitted by `admit` or
`admit_many`, hold up to `MaxLeases` generations and release them.
`ModuleRegistry.replace` takes no lock; `ReplaceUnderLock` says whether the
environment calls it inside an operation. A drain that times out ends the
protection of the dependencies' generations (registry.py:565): the property
speaks of the request's own generation and of dependencies until then. Two
branches are unreachable and absent: `_disable`'s "Enabled module has no
registration" and `_retire`'s roll back of a leftover registration.

### EventDelivery and EventEffects
`outbox`, `inbox` (receipts), `applied` (the subscriber's own rows),
`obligations` and `authority` are tables; the stream and its deliveries are
JetStream (external: at-least-once, redelivery after a crash or nak, no order
between consumers); each worker has a publisher, a delivery callback and a set
of admitted bindings. `PublisherStep` is claim, verify, publish, mark;
`DeliveryStep` is decode, admission, one unit of work per obliged subscriber
in order, then ack, nak or term. `Failure` crashes a worker or fails a call;
`Operator` restarts it; `Rotate` and `Disable` change the authority. One event
type; purposes and process classes are one authority; a worker knows the type
if it declares a subscriber for it; attempt counters are left out.
`EventEffects` is the promise: an event, once recorded, is applied at most once
per subscriber, and nothing that was not recorded is applied.

### ApplicationLifecycle
`state`, `up`, `complete` are the fields of `BusinessOSApplication`; `comp` is
what became of each component; `pc` and `pos` are the hook at which
`startup`, its roll back or `shutdown` waits. A hook returns, raises, runs
into its deadline, is cancelled, ends after the cancellation or resists it and
is left behind (`lingering`, `leaked`). Requests are admitted while RUNNING,
disconnect, hang and are drained. A caller's cancellation matters only inside a
startup hook; elsewhere `_await_cleanup` shields the clean-up. Operational
paths bypass admission and are left out.

### EventWorkerLifecycle
`start`, `stop`, the clean-up order, and `_quarantine` from the delivery
callback or the publisher. Each task (`job`) may resist its cancellation.
`_quarantined` is never reset and the application starts once, so a start
after a stop fails; both are in the model. `DeliverEarly` lets the broker
deliver before `subscribe` has returned.

### DependencyContainer
An instance is a `_SingletonResourceOwner` and its task. A caller or a provider
resolves a key: it finds the published instance, joins the flight that builds
it, or starts one; before it waits, the wait graph is searched for a circle.
Removal of a module's generation waits for dependents, `close` cancels flights
and releases instances after everything that depends on them. `Needs` gives
for each key the sets of keys its provider may ask for, so that one instance of
the model covers both a chain and a circle. Left out: request scopes and
transients, and an overlap of `close` with a removal.

### WebSessions
`st`, `own`, `gen`, `idle`, `abs` are the Redis keys, `index` the principal's
set; a request reads (`Get`), then touches, rotates or revokes with one Lua
script. `PurgeRead` and `PurgeDelete` are the two commands of
`revoke_principal`. Expiry is an action that may happen once the time has come,
never before. Redis' rounding of a TTL is ignored. Logging out with an old
handle after a rotation leaves the rotated session, as in the code.

### LoginTransactions
A login is a state with its browser binding. `StartLogin`/`StoreTransaction`
keep the attempt counter and the transaction; `Callback` arrives with any
combination of state, cookie and code; its steps consume the transaction,
exchange the code, check the identity and the provider's configuration, check
the membership, create the session, and leave the consumed mark. The identity
provider (external) does not enforce PKCE in the model, so the nonce check has
to hold on its own. A second tab's cookie makes both logins fail, by design.

### RetentionGovernance
`policies`, `holds`, `legacy`, `decided`, `subject` are tables, `lock` the
advisory locks, `tx` the open transactions. Commands: set and replace a policy,
place and release a hold of either table, execute a destruction, and the
owner's own mutation (`own`, external, under `lock_retention_subject`'s
contract). Reads see what is committed when they run; a lock timeout or a lost
connection rolls back. One tenant, owner and entity type; one clock. A hold
that names a category stops covering a record that its owner reclassifies: the
code says so too (the hold's scope is evaluated when it is used).

### PolicyAuthority
`db` is the committed role tables; a transaction takes the tenant's advisory
lock, reads, decides and commits, and those that wait for the lock enter when
they take it. Authority-increasing commands are projected against every
preventative rule for every instant from now on; `Parents`, `Delegates` and
`NoLongWalk` are the recursive queries with their depth bound. The searches along
delegations (`HasSource`, `Holders`) and the walk over parents (`WithParents`) are
recursive functions of a delegation and the principals visited, and of the level, as
the code recurses and loops. The live
decision (`Authorize`) takes membership locks, hands out a permit and is
repeated by `ApplyPermit`. Left out, because they only refuse or narrow:
traversal and evaluation budgets, record and field policies, approval limits,
owner facts, support access; duplicate assignments. Expiry of a row between
apply and commit is not guarded by the code and not claimed.

### ProtectedDatabase
`profile` chooses one of the three authorities, which share a skeleton and
differ where it matters: governance and metadata hold the authority's lock while
the catalog is validated and take the lease after it; publication takes the
lease first, checks again after its awaits and shields its clean-up. `pool`,
`active`, `leases` and `tickets` are the authority's fields; a client walks
`queue`, `lock`, `validate`, `recheck`, `enter`, `unit`, `release`. `validate()`
is a sequence of checks of catalog facts, one statement each, so that `Drift`
may fall between two of them. `Reached` combines the passing checks up to the
first change of the surroundings, which no step of another actor can tell apart.
Rotation validates its replacement, cuts over or, for the publication profile,
revokes; `BeginClose` and `FinishClose` are the two sections of `close`. Left
out: what the statements in a transaction do, the roles' passwords, and a
disposal that raises.

### SchemaMigrations
A release is a set of revisions with parents, dependencies, labels and owners;
`Deployable` are those whose plan is accepted. `parent`, `child` and `session`
are the three parties of an asynchronous migration, `up` and `down` the pipe, `lock`
the advisory transaction lock; a deployer in `Commands` migrates in its own
process. The child asks for permission at each phase; the last one is the point
of no return. Parent and child may crash, the session ends when the server
notices. `Row`, `HistoryAccepted` and `Persisted` are the inventory before and
after its graph columns exist. Left out: a downgrade that removes the tables
themselves, and Alembic's statements (`Applied`, external). A first
cancellation asks the child to stop (`Cancel`), later ones are swallowed there. The
confirmation that the backend has ended has awaits that are not guarded, so it may
also be left by an error or by another cancellation (`LeavesUnconfirmed`).

### MessageDispatch
`stack[t]` holds the frames of a task's nested dispatches, and only the last one
runs. A frame's `stage` is the context manager it is in or leaving:
authorization, unit of work, handler, guards, commit, close of the session, of
the resource scope, of the gate, of the boundary. Every stage can fail or be
cancelled. `admitted`, `providers`, `writes` and `retained` are what it draws
on; a generation may drain at any time and is removed when nothing admitted
holds it. A command or query is refused while the scope it would leave has
admitted owners (`NestingAllowed`); a job is not (`InvokeJob`), and it runs
without a unit of work, as in the code. Left out: registration, types and
policies of messages.

### MetadataPublication
`module_fence` is the durable identity of each module with the count of active
revisions that pin it; `admitted` is what each process activated. Definitions
and overlays have drafts, revisions and an active pointer; a transaction locks
modules in order, then its row, with PostgreSQL's four row lock modes.
`StartActivation` to `PublishContributions` is the activation of a module around
`MetadataActivationFence.activation`. `Denied` is any refusal by permission or
scope. The contract fence never changes after migration and is left out; so are
rules, forms and the composition of a document, which are functions of what is
pinned.

### CustomEntities
One tenant, two types that refer to each other. A command takes the quota lock,
its rows in id order and a share of its types' advisory locks; the checks in
between are separate statements. Retirement takes the type's lock exclusively;
publication takes none. The list reads pages by id. Field values are a reference
and a pinned revision.

### TenantAccess
`operation` is the table of lifecycle operations, `worker` the consumer's
transaction that runs the owners' hooks while it holds the tenant's row, `ran`
the external effects, which no rollback undoes. `login` is a bearer request:
provider, verification, then one transaction that shares tenant, provider,
membership and policy rows until it ends. `check` starts or validates an
authentication session, without locks. Left out: entitlements, quotas, service
accounts, devices.

### AuditTrail
Appends take the tenant's advisory lock until their transaction ends, chain to
the latest record by time and move past it when the clock went back. The
consumer of policy decisions may run twice at once. A checksum is the identity
of what it covers. Reader and verification are operators and steps of their own.

### PartyRecords
A creation draws a number and inserts it under the unique index, which makes it
wait for an uncommitted insert of the same number; `MaxAttempts` is the code's
bound. Custom values are written under the party's row lock, by the schema that
publication may change meanwhile. Readers page by offset or load a whole party,
a statement per table. Duplicates are found by contact, identifier or profile, by
statements that look at `MatchRows` rows each (100 in the code), and `MatchLimit` of
them (the query's limit) are listed: with more matches than that, the party with the
highest id still lists the lowest, which does not list it.

### DataClassification
Canonical, tenant and overlay definitions have versions that follow each other;
a reference resolves base and own version under advisory and row locks and
looks at the base again. Claims of a code meet in the identity trigger; operators
schedule canonical versions for later (`Schedule`). Approved legacy
commands pin version 1. Left out: masking at read time and consent.

### OrganizationScopes
`node` is the nine tables of the hierarchy with one owner and one optional
parent per row, `assigned` and `given` the tables `assignments` and
`delegated_scopes`; `lock` is policy's authority lock of the tenant and a
transaction's `rows` and `held` are its share locks. A selection by assignment
resolves its rows, then reads and locks assignments, then checks the membership
again, three steps without the lock; delegating, revoking and a selection
through a delegation decide under it. `DelegationLineage` keeps a property of
the code: asked with the scope type `org_unit`, `_scope_lineage` adds the
company's lineage and not the parent units, so a grant of a unit carries to no
unit below it when a delegation is involved. Left out: site types,
relationships, start dates of rows, delegations of the time before their
provenance was recorded, tenant status.

## Runs

| Run | Instance | Checks |
|---|---|---|
| `module_lifecycle` | two modules, the second depends on the first; two requests; two generations each | `RegistryConsistent`, `WorkIsProtected`, `NothingLeftBehind`, `EnableAllRollsBack`, `OperationsEnd` |
| `module_replace_race` | three modules in a chain, `replace` called inside an operation | finds `EnableAllRollsBack` violated ([findings](#findings)) |
| `event_delivery` | two workers, one event, two subscribers, one failure; scenes: a rolling deployment with a rotation; a worker that does not know the event type | `DeliverySound`, `CurrentAndOnce`, `AckedWhenServed`, `ImplementsEffects` |
| `processes` | scenes: the application with three components, a startup and a shutdown hook and two requests; one worker and two calls of start; two workers of which one knows the event type | `ApplicationSound`, `WorkerSound`, `LifecyclesEnd`, `EventuallyApplied` |
| `web_sessions` | two requests; scenes: three handles at one instant; two while time passes; two logins, two callbacks, two provider configurations; two singletons, chained or circular, with four owner tasks | `StoreSound`, `SessionsSound`, `ContainerSound`, `NoRevival`, `IdleNeverShrinks`, `ReturnedIsLive` |
| `web_sessions_purge` | two handles, two requests, one principal | finds `IndexComplete` violated ([findings](#findings)) |
| `retention` | two transactions, one record, two categories, a hold of each table; three workloads | `RecordHoldsProtect`, `PoliciesSound`, `NoDestructionUnderHold`, `OnlyStrengthened` |
| `policy` | two transactions, three subjects, four roles, two permissions; four scenes | `TablesSound`, `DecisionsStand` |
| `organization` | two companies and three more rows of any kind; or one company with two units, three principals, two assignments, two delegations, one transaction beside the commands of one step | `StructureSound`, `DecisionStands`, `SelectionsAreOneHierarchy` |
| `database` | scenes: each protected profile with two requests and one rotation or one request and two, three pools of one connection, one change of the surroundings; five releases of a module, one deployer in a child process and one on the command line, two migrations | `AuthoritySound`, `OutcomeIsDurable`, `CheckedIsCurrent`, `DatabaseWorkEnds` |
| `publication` | two processes, two modules, two artifacts, three commands | `FenceSound`, `PublishedAsShown`, `WorkEnds` |
| `records` | scenes: custom entities at their quota; a tenant's lifecycle, directory and logins; an audit trail; parties; classifications, two writers each; and two dispatches of any kind in one task, two generations of which one coordinates | `DispatchSound`, `EntitiesSound`, `RecordsSound`, `CommittedIsCurrent`, `RecordWorkEnds` |

What the properties say (a property of a run with scenes is the conjunction of
the named properties of its components):

* `RegistryConsistent`: types; nothing ENABLED above a dependency that is not;
  a generation the gate serves is a registered one; in-flight counters are the
  leases held. `WorkIsProtected`: a generation is not stopped, removed or
  retired under a request that was admitted to it, although the request resolved
  it before an await. `NothingLeftBehind`: after
  an operation the registries, the container and the gate hold nothing but the
  registered generation of each module, and no module is half uninstalled. `EnableAllRollsBack`: after a failed enable_all nothing is
  enabled that was not before. `OperationsEnd`: every lifecycle operation ends.
* `DeliverySound`: effects match receipts; a row marked published is in the
  stream; only unusable messages are terminated. `CurrentAndOnce`: only
  failures put an event into the stream twice (`NoNeedlessDuplicates`), and a
  rotation or a disable takes effect between a worker's transactions, never
  inside one (`AdmittedIsCurrent`). `AckedWhenServed`: an acknowledgement comes
  after every obliged subscriber's commit. `EventuallyApplied`: once some worker
  stays up with every obliged module, every recorded event reaches the
  subscribers obliged before its delivery.
* `ApplicationSound`: components go up in order and down in reverse, STOPPED
  means that every component stopped without an error and no request was cut
  off (`ComponentsSound`); while a request runs, all components are up unless
  the drain timed out (`ServedByAll`). `WorkerSound`: the operations database
  closes last, quarantine closes the subscription, a clean stop leaves nothing.
  `LifecyclesEnd`: start and stop of both processes end.
* `StoreSound`: one stored handle per login, indexed unless a revocation was
  raced. `NoRevival`: a deleted key is never stored again. `SessionsSound`,
  `IdleNeverShrinks`: the two lifetimes under concurrent touches; a login makes
  one session, for the browser that began it (`LoginSound`,
  `OneSessionPerLogin`). `ContainerSound`: one owner per key, exact counts in
  the wait graph, nothing left after `close`, no circle of waiting
  initializations, release after dependents. `ReturnedIsLive`: what a
  resolution returns, and all it rests on, is published under active
  registrations.
* `RecordHoldsProtect`: no hold that names a record stands over its
  destruction. `NoDestructionUnderHold`: no destruction commits under a
  committed hold. `PoliciesSound`: one policy of a category at a time, every
  decision stays justified by the tables, and no circle of waiting commands. `OnlyStrengthened`: replacing never weakens.
* `TablesSound`: hierarchies and delegations stay within what the recursive
  queries can load, and no instant, now or later, gives one principal both
  permissions of a preventative rule (`NoLatentConflict`). `DecisionsStand`: the
  live decision, which walks the tables with algorithms of its own, finds
  exactly the chains and lineages there are, and only roles the projection
  counts (`LiveAgrees`); between apply and commit nobody withdraws what the
  write was allowed by (`AppliedStaysAuthorized`).
* `StructureSound`: whatever was created, a row has one company, entity, group,
  site and warehouse above it (`HierarchySound`); scope, actions and time of a
  delegation lie within those of every one above it (`DelegationsNarrow`).
  `SelectionsAreOneHierarchy`: rows that pass the pairwise comparisons, with all
  rows above them, are in one line. `DecisionStands`: from decision to commit
  nobody withdraws an assignment, a delegation, an action or a membership that
  the decision locked.
* `AuthoritySound`: a pool in use is open, leases are counted exactly, an open
  pool is the serving one or has somebody left to dispose it (`PoolsSound`);
  mutations with a common key run one at a time in arrival order (`KeyedFIFO`).
  `OutcomeIsDurable`: "cancelled" means rolled back, "committed" means
  committed, a child commits only when authorized, and a returned migration
  leaves no session behind whose backend was known. A confirmation of the
  backend's end that was itself cancelled (`interrupted`) means less: the child is
  gone, but the backend may live for a while, and what was authorized before may be
  durable ([disagreements](#findings)). `CheckedIsCurrent`: a
  transaction is handed out only on the serving pool, for an active generation,
  on checks made by this very admission; migrations only add to recorded
  history. `DatabaseWorkEnds`: admissions, disposals and the stopping of
  children end.
* `DispatchSound`: no generation that a unit of work draws on is removed while
  it can write, no frame holds admitted owners across a command or query nested
  in it, whatever jobs lie between, and what is reported is what was committed. `FenceSound`: active revisions pin the durable
  identities, counts are exact, and what is served agrees with them.
  `PublishedAsShown`: a revision becomes active only from what its publisher's
  preflight showed; history only grows; the retired stay retired. `WorkEnds`:
  commands and activations end.
* `EntitiesSound`: quotas, pinned revisions and pages of custom entities; a
  tenant's deletion follows a complete export, owners in reverse order, and a
  completed operation ran every owner's hook. `RecordsSound`: the audit chain is
  whole and each event projected once; party numbers are unique, values pinned
  to published revisions, readers complete and without what they may not see,
  duplicates mutual for a party whose matches are within the limits (`Uncut`);
  codes have one meaning and histories no gap. `CommittedIsCurrent`: a written
  entity's type and target, a bound principal's tenant, provider, membership
  and policy, a party's activity and a reference's classification hold at the
  commit. `RecordWorkEnds`: commands, logins, lifecycle operations and drains end.

Bounds. Two of everything that races is enough for a race between two; the
third component, handle or role is there where an order of three matters
(reverse release, rotation chains, depth). Every bound is a constant of the
module (`MaxGen`, `MaxLeases`, `MaxStream`, `MaxGeneration`, `MaxFaults`,
`MaxInst`, `MaxHandles`, `MaxTime`, `MaxRows`, `MaxDepth`, `MaxWrites`,
`MaxStarts`, `MaxNodes`, `MaxSelected`, `MaxAssigned`, `MaxGrants`, `MaxChain`,
`Horizon`, `MaxChanges`, `MaxRuns`, `MaxDispatches`, `MaxGuards`, `MaxCommands`, `MaxVersion`,
`MaxAppends` and the members of `Budgets`) and guards the action that would pass it.
`Budgets` lists the mixes of commands of a scene, so that three kinds of command
meet without all of them meeting at once. In `web_sessions` an administrator
changes one thing once during the logins, a login may be retried once, and the
container closes over two owners. In `records` dispatches are nested two deep; a
job between two transactions needs three, and is covered by the theorem, which has
no bound on the depth. Statements that look for duplicates are cut after two rows and
the list after one, so three parties of one profile pass the limits. Every property of a
passing run is shown to depend on the code by a mutant of one mapped definition
(`PROJECT.json`) that TLC catches under the same configuration.

Deadlock is not checked where the system may stop: a bounded number of
operations has been called, time has reached its bound, or a disabled authority
stops every worker. In those runs waiting in a circle is found by the liveness
property of the run, and in `web_sessions` by `NoCircularWait`. Deadlock is
checked in `retention` and `policy`, whose clocks always advance or commands can
always be issued.

Symmetry is used for identities that only differ by name (callers, callbacks,
requests, transactions, subjects no seed names), and never in a run that checks
liveness.

## Fairness

* `OperationStep` (modules), `LifecycleStep` (application), `Lifecycle`,
  `StartFails` and `TaskEnds` (worker): weak fairness. They are continuations
  of a task in one event loop, every wait of which has a deadline, so the loop
  resumes it. Hooks and handlers get no fairness of their own: a hook that
  never returns is met by its deadline.
* `EventDelivery`: weak fairness of the publisher loop and of the delivery
  callback of each worker, which are loops with bounded waits; strong fairness
  of `Receive`, because JetStream redelivers an unacknowledged message for ever
  while workers come and go. No fairness for failures, which are bounded by
  `MaxFaults`, nor for restarts by the operator.
* `ProtectedDatabase`: `Progress` is what a request does once it has begun,
  its admission and the disposals; handlers end, rotations and administrators
  need not.
* `SchemaMigrations`: `Progress` is the parent task, the end of a child it
  kills and the server's notice of a lost session. A child has no fairness: it
  may hang in a statement for ever. No fairness for `LeavesUnconfirmed` either: the
  confirmation ends by itself.
* `MessageDispatch`: `Progress` is the framework's part of a dispatch, the
  return or failure of a handler and the removal of a drained generation.
* `MetadataPublication`, `CustomEntities`, `PartyRecords`: weak fairness of each
  session, whose statements PostgreSQL answers once their locks are free.
* `TenantAccess`: weak fairness of the consumer, which redelivers until the
  hooks have run, and of a login. Hooks fail finitely often.
* All other modules assert no liveness and assume no fairness. Where a run has
  scenes, the fairness of each is conjoined with its scene.

## Proofs

The proof modules hold for every value of the constants that satisfies the
named assumptions of the module they extend; the constants' bounds stay
parameters, and a bound in a guard is used only where the property is about it.
Each shows that an inductive invariant holds initially, is preserved by every
action and implies the property.

* `ModuleLifecycleProofs`. Types and control first: which values the program
  counter, the loop position and the module under work have together. On top of
  it `ActiveIsRegistered`, dependencies (strengthened with what enable_all has
  enabled so far and that dependencies precede their dependents in `Order`),
  roll back (what is enabled and not recorded), and the counters (the number of
  leases, as a cardinality). The theorems about dependencies and roll back
  assume that `replace` is not called inside an operation; the finding shows
  that they fail without it. `NothingStaysBehind` needs no such proviso: its
  invariant `PlaceInv` says of every module which of its generations may be in
  the registries, the container and the gate (`Placed`), depending on where the
  operation stands that works on it, and that whatever is held belongs to a
  registered generation or to that operation (`Owned`). A removal has forgotten
  all of a generation by the time its place is quiet again.
* `EventDeliveryProofs`. The invariant relates a callback's position to what it
  holds: inside a unit of work the effect is not yet in the tables, the row
  lock on the receipt excludes another worker, and a message in the stream
  stems from a committed row or a forgery. From it the exactly-once
  equation, and the refinement of `EventEffects`: a commit is `Apply`, all
  other steps stutter or record. `OnceAndCurrent` adds where every copy of an
  event in the stream comes from (a publication that was marked, or a failure
  that is counted) and that the authority a worker holds inside a transaction
  is the durable one, because of its share lock. `AckedAreServed`: what a
  delivery still owes its subscribers shrinks only by their commits, and a
  worker's obligations are fixed once it has begun to deliver.
* `WebSessionsProofs`. A request that is about to rotate holds a handle that
  exists; a handle beyond the last one made is free; gone is final. One handle
  per login follows because the script compares before it replaces. The absolute
  lifetime goes unchanged from handle to handle, and nothing extends the idle one
  beyond it (`LifetimeInv`). `CallbackInv` is about `LoginTransactions`: the
  callback that consumed a login's transaction is the only one that can still
  create its session, and a transaction that is gone never comes back. So one
  session per login does not depend on the consumed marker, which expires.
  `SessionsStaySound` joins the two. It assumes
  `IdleTTL <= AbsoluteTTL`, as in the defaults: the configuration permits an idle period
  longer than the absolute one (web_sessions.py:94), and then the first idle
  expiry of a session lies beyond its lifetime.
  `ContainerInv` is about `DependencyContainer`, for any keys, needs and callers,
  as long as no caller has the name of an instance (`ContainerAssumption`). The
  steps are sorted by what they do to one task (`ContainerKinds`), and the conjuncts
  are proved per kind. A task that initializes is the flight of its key
  (`InitializerInv`); the order of publication names every owner after all it
  retains (`OrderInv`), so closing in reverse order, once `PhaseInv` says that
  nothing initializes any more, releases a resource after its dependents. The count
  of each edge is the cardinality of those who wait with it in their chain, and the
  counted edges have no circle (`GraphInv`); the path of a task ends with its own key
  (`TaskInv`), so tasks that waited in a circle would count a circle of edges. A
  result not yet taken is that of the current owner (`AnswerInv`): this is where it
  matters that a module's keys are registered again only after the event loop has
  delivered the results set before, and it is what `ReturnsStayLive` rests on, as
  the code checks the owner that is current and returns the result it awaited.
* `ProcessAndAuthorityProofs`. For the application, `LifeInv` says of each stage which
  prefix of the components is up and what has been reported (`IdleInv` between
  operations, `CallInv` inside one, `ErrorInv` for failures and resistance), and
  `RequestInv` that whoever is admitted is counted until it leaves. For the
  worker, `PlaceInv`, `JobInv` and `CleanupInv` say what exists at each step of
  start and clean-up, and `OnceInv` that no second subscription is ever made,
  because the application starts once in a process. The theorem about the worker
  assumes that nothing is delivered before `subscribe` has returned
  (`DeliverEarly` is FALSE): the finding below shows that a quarantine then finds
  no subscription to close.
  For the policy authority, `PolicyInv` = `TypeOK`, `Sound(db)` (the tables load),
  `NoConflict(db, now)`, `LockHeld` and `WrittenStands`: what a command has written
  under the lock leaves tables that load and have no conflict, whenever it commits. An
  accepted increase compares, for a conflict, only the instants at which some row starts
  (`Starts`): whatever is active at another instant was active at the last start before it,
  so these suffice. That a search means what it says is shown in
  two steps. It has an answer at all because each step visits one principal more
  (`SearchEnds`); and, as tables that load have no walk longer than `MaxDepth`, in
  particular no circle (`NobodyWalksOn`), the principals on a chain are all different and
  no bound of the search is met before the chain's end (`ClimbIsShort`): so
  it finds a source exactly where a chain leads to one. In the same way the walk over
  parents ends with an empty frontier and has met every ancestor.
  `AppliedHolds` says that the rows an applied decision rests on are there and the
  members locked: who would take away such rows waits for the lock it holds.
  Assumed: `SoundStart`, that a behaviour starts with tables the commands could have
  made, before anything was delegated, and that the subjects are finitely many.
* `RetentionGovernanceProofs`. `GovernanceInv` = types, control (`Shape`,
  `Inputs`, `Gates`: a command past a gate holds it) and `HoldRows`; on top
  `HoldInv` = `DecidedIsGone`, `Facts` (what a command has checked still holds
  because it keeps the lock under which others would change it) and
  `RecordHoldsProtect`. Mutual exclusion of the gates is what makes `Facts`
  inductive. For the policies, `LockInv` says who holds which row and gate in
  which order, from which no circle of waiting commands follows, and
  `PolicyInv` that the policies of a category have disjoint periods and that a
  replacement has compared itself with the row it has locked
  (`PoliciesStaySound`, `OnlyEverStrengthened`).
* `RecordsAndOrganizationProofs`. Seven invariants of one shape: what a transaction has found out at one
  await and relies on at a later one.
  - `DispatchInv` goes frame by frame: its stage says what its transaction is
    (`StageInv`), everything its unit of work draws on has been admitted
    (`DrawsInv`), and nothing it has admitted is removed (`LiveInv`), as the gate
    waits for what is in flight. Only the last frame of a task changes. A frame
    under a transaction has admitted nothing, which a job on top of it cannot change.
  - `AuditInv`: a trail, the committed one and what a transaction sees of it with its own
    additions, has one record per id and per source and one last record, and
    each record is linked to the one before it in time (`GoodTrail`). What is staged
    comes after all that is committed, which stands because whoever has appended holds the
    tenant's advisory lock alone (`AuditLocks`). For a page: of what a reader owes,
    each record it has not seen still has `offset` newer ones (`ReaderInv`); ranks are
    dense (`RanksAreDense`), so where a page is empty nothing is owed any more.
  - `PartyInv`: a number is inserted by one open transaction and by no committed
    one (`PartyNumbers`), as the unique index lets no second one in; a
    values transaction that holds its party's row has checked that the party is active
    and its version the expected one, and the schema revision it has resolved
    is published (`PartyWriters`). What finds one party for another finds the
    other for it (`FoundBack`), in a statement of which nothing is cut when it has no
    more rows than are looked at (`WholePage`, `Fewer`). Assumed: the creators are
    finitely many numbers, the order of the parties' ids.
  - `ClassInv`: a history has one version at a time and ends open, and a code is
    core or owned, never both (`ClassHistories`); which transactions exclude each other
    (`Clash`), and that what a reference has resolved is, when it writes, still what the
    tables say (`StillResolved`, for `ReferencesAssigned`).
  - `EntityInv`: whoever is past the quota lock holds it alone, so the counts it
    compared are those at its commit; the types whose locks it shares are not being
    retired, and the rows it has locked have the versions it expects
    (`CommandChecked`, for `EntityChanges`).
  - `TenantInv`: an operation is recorded with its transition, a deletion only after its
    completed export, and the hooks of a deletion have run in reverse order; while
    hooks run, the tenant's locked row keeps the version they run for
    (`TenantWorker`). A login's transaction shares the rows it has read until it binds
    the principal (`TenantLogin`, for `TenantAdmits`).
  - The organization has its own specification. `Hierarchy` says that every row fits to rows created before
    it. What is above a row is a recursion over two references, owner and parent,
    so its existence is shown by taking the least row without one (`AboveExists`),
    and from it that a new row changes nothing above the old ones (`AboveKept`).
    `RightsInv` does the same for chains of delegations: each lies within the one it was
    written under (`Narrow`). `TxInv` (`Founded`) says what a transaction that has checked
    something still has: its locked assignment rows carry every row it selected, or it
    holds the authority lock, and then the path, the people on it and the root's
    assignments and rights are as it found them; a delegation that will be written
    still fits to the end of its path. Commands without the lock only add rows or
    remove what nobody has locked (`FoundedKept`). `SelectionsHold` is about rows alone:
    rows that are comparable pair by pair have comparable lineages of every kind
    (`SelectionsLine`).
  A behaviour of the run stays in the scene it begins in (`AuditScene` and the
  others), so the theorems about the run's specification are about each module.
* `ProtectedDatabaseProofs`. The governance and metadata authorities protect a
  selection by the lock they hold while they validate, the publication authority
  by a lease it takes before. `AuthorityInv` covers both: whoever validates
  without a lease holds the lock, under which the serving pool cannot change;
  leases are a cardinality; and the ticket queue is in arrival order without
  repetition. `EntryIsCurrent`: at hand-out the verdict is of this admission's
  own checks. `MigrationInv`, for any number of deployers and any releases,
  follows the protocol of one deployer: the phase its child has announced is
  either still in the pipe or being answered, never both (`UpInv`, `DownInv`), the
  answer to the last phase is what authorizes the commit, and once the parent
  is done no process is left that could commit (`ParentInv`). Only an interrupted or
  failed confirmation may leave a session behind (`Unsettled`), and then its child is gone. Two deployers share
  only the advisory lock and the history. Who is under the lock holds it
  (`SessionInv`), and what it has staged there extends the recorded history
  (`StagedInv`), which nobody else can change meanwhile. Assumed: no deployer is
  called "none", and the versions of releases are numbers.
* `MetadataPublicationProofs`. Who moves a pin of a module, and who changes its
  identity, holds its row in a mode that excludes the other. A definition
  command learned the rows to lock from an unlocked read, and the active
  generation it compares tells it that they are the right ones (`ShownInv`);
  counts are exact because a pin and its count move in one commit. A revision
  becomes active only from the draft its publisher compared (`OnlyAsShown`).

From these follow, for every instance, all the safety and action properties of
every passing run, under the provisos named above.

Only model-checked: every liveness property, as fairness is beyond the prover.

What the proofs changed in the models. `DecisionStands` of the organization once
demanded one assignment of the root for all selected leaves; the code validates
the leaves one by one (organization module.py:1103-1133), each of which may have an
assignment of its own, and the property now says so. In `PartyRecords` and
`DataClassification` three choices were written as a CASE whose conditions overlap, of
which TLA+ does not say which applies; they are nested IFs now, in the order of
the code. The hierarchies a behaviour may start with are now named as an
assumption (`SeedsAssumption`): rows that the create commands could have made. The searches of
`PolicyAuthority` were recursive operators, which the provers do not take, and are now
recursive functions; the tables it starts with are assumed to load and to be without
conflict (`SoundStart`).

## Findings

* `module_replace_race`. `_enable_all` decides what to roll back from objects
  it captured before its first await, and `ModuleRegistry.replace` takes no
  lifecycle lock. A module replaced in between is enabled but not recorded,
  and stays ENABLED after the roll back.
* `web_sessions_purge`. `revoke_principal` is two Redis commands. A session
  stored between them survives, and the deletion of the index hides it from
  every later revocation until it expires.

Disagreements met while modelling that have no run of their own:

* `EventWorker._quarantine` (event_worker.py:572) called by a delivery that
  arrives before `subscribe` has returned finds no subscription to close, while
  docs/architecture/ADR-019-RUNTIME-IMPLEMENTATION.md:102 says "Invalid
  authority quarantines worker processing, closes its durable subscription".
  Setting `DeliverEarly` to TRUE shows it.
* sod_authority.py:96 loads revoked delegations too, where
  PHASE-4-PREVENTATIVE-SOD-HARDENING.md:22-23 speaks of non-revoked ones: the
  guard is stricter than its description.
* A permission `<namespace>.*` is honoured by the live decision
  (v2_runtime.py:532) and not counted by `permissions_for`
  (sod_authority.py:265), which the same document calls a conservative guard
  (line 42). The runs have no wildcard among their permissions.
* A selection through a delegation compares only its leaves with the root's
  assignments, and all selected rows with the delegation's scope
  (organization module.py:1103-1133). Once the root keeps only an assignment of
  a unit, the holder of a delegation of the company can still select the company
  together with that unit, while docs/architecture/IDENTITY-ORGANIZATION.md:101
  says that a child-only grant cannot authorize an explicitly selected
  ancestor. `DecisionStands` therefore speaks of leaves.
* A migration whose child sends its outcome and exits between the parent's poll
  of the pipe and its `is_alive()` (migrations.py:777) is reported as a child
  that exited without an outcome, while docs/development/SETUP.md:302 says that
  the durable outcome is returned. The model has the step; `OutcomeIsDurable`
  says nothing of that result. A cancellation before the backend's pid is known
  (migrations.py:797) does not wait for the session to end.
* A migration whose task is cancelled while the end of its backend is being
  confirmed (`_wait_backend_stopped`, migrations.py:949-961, where only the last
  sleep is guarded) raises `CancelledError` at once. Called at 798, after a first
  cancellation, the backend and its advisory lock may still live; called at 788,
  after the pipe of an authorized child has closed, the commit may be durable.
  docs/architecture/DATABASE.md:148-154 says that a cancellation "closes its
  PostgreSQL backend", and after the authorization "is suppressed until the durable
  committed or failed outcome is known"; docs/development/SETUP.md:300-303 that the
  backend's exit is confirmed before `CancelledError` is propagated. The model has both steps (`LeavesUnconfirmed` with
  "interrupted"), and `OutcomeIsDurable` claims of this result only what holds.
* A tenant overlay that a later, stricter canonical version outgrows can no
  longer be replaced: `_set_canonical_overlay_v2` resolves the current
  composition first (data_governance module.py:504), which is then refused.
* `_authority` (oidc.py:256) locks the MFA policy's row; when there is none nothing
  is locked, and a policy set meanwhile does not apply to that login.
  `CommittedIsCurrent` speaks of policies that were read.
* An authentication session outlives the revocation of its membership as a row,
  and is valid again when the membership is granted again.

## What is not modelled

* Open (see the table above): retention cleanup against a fenced object
  store, the reference hierarchies (geography, units, currency, reference data)
  and the web application's contexts.
* Of the platform: role provisioning and bootstrap, which one operator runs as a
  sequence of statements; the providers' adapters beyond what `EventDelivery`
  needs of JetStream; session variables and read-only modes of ordinary
  database sessions.
* One hazard is left without a property: rows whose publication always fails
  stay the oldest pending ones (eventing.py:88). No document bounds it, and
  `EventuallyApplied` supposes that failures end.
* Left out for good: HTTP routing and encoding, configuration, logging and
  telemetry, manifest parsing, the SDK's declarations, React components, and
  operator scripts. They hold no state on which another component decides.
* Cryptography, PostgreSQL, Redis, NATS and the identity provider are modelled
  by what the code relies on: row and advisory locks, READ COMMITTED, atomic
  scripts and pipelines, at-least-once delivery, and answers that may be
  anything the validation then refuses.
* Of the modelled components: message contents, permissions' meaning and error
  texts; the limits named under each module.
