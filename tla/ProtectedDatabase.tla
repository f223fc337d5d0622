-------------------------- MODULE ProtectedDatabase --------------------------
(***************************************************************************)
(* The protected database profiles: which handler may open a transaction   *)
(* with a privileged role, on which connection pool, after which checks of *)
(* the live database, and how credentials are rotated meanwhile.           *)
(*                                                                         *)
(* One authority is modelled at a time, chosen by `profile`:               *)
(*   governance   database_execution.py: the authority's lock is held      *)
(*                while the pool is validated, the lease is taken after;   *)
(*   metadata     metadata_execution.py: the same, behind a keyed FIFO     *)
(*                admission (database_admission.py);                       *)
(*   publication  publication_database.py: the lease is taken first, the   *)
(*                lock is never held across an await, cleanup is shielded. *)
(***************************************************************************)
EXTENDS Naturals, Sequences, FiniteSets

CONSTANTS Clients,     \* requests that need a protected transaction
          Rotators,    \* credential rotations
          Pools,       \* every pool ever built
          FirstPool,   \* the pool of the configured credential
          NoPool,      \* Python's None for a pool
          Keys,        \* scheduling keys of metadata mutations
          Profiles,    \* the profiles to explore
          Crowds,      \* which requests and rotations arrive together
          Drifting,    \* catalog facts an administrator may change
          PoolSize,    \* connections of one pool
          TicketLimit, \* hard bound on keyed admission tickets
          MaxChanges   \* bound on changes of the surroundings: drains and catalog changes

ASSUME ClientsAssumption == IsFiniteSet(Clients) /\ NoPool \notin Clients
ASSUME PoolsAssumption == FirstPool \in Pools /\ NoPool \notin Pools
ASSUME ProfilesAssumption == Profiles \subseteq {"governance", "metadata", "publication"}
ASSUME SizesAssumption == PoolSize \in Nat \ {0} /\ TicketLimit \in Nat /\ MaxChanges \in Nat

VARIABLES profile,    \* the authority modelled
          drift,      \* catalog facts that are not as the migrations left them
          changes,    \* how often the surroundings changed
          generation, \* state of the enrolled handlers' generation
          active,     \* _active: the pool new admissions use
          leases,     \* _leases: admissions per pool
          pool,       \* state of each engine
          closed,     \* "no", "closing" (close() is between its sections), "yes"
          lock,       \* holder of _lock while it validates, else NoPool
          tickets,    \* _KeyedAdmission._tickets: clients in arrival order
          client,     \* program counter and locals of each request
          rotator     \* program counter and locals of each rotation

vars == <<profile, drift, changes, generation, active, leases, pool, closed, lock,
          tickets, client, rotator>>

(***************************************************************************)
(* What validate() reads.  A check passes when every required fact of the  *)
(* catalog holds and no forbidden one does; each is a statement (or a run  *)
(* of statements) of its own, so the catalog may change between two.       *)
(***************************************************************************)
GovernanceRole ==
    [required  |-> {<<"governance", "login">>},
     forbidden |-> {<<"governance", "attribute">>, <<"governance", "member">>,
                    <<"governance", "owns">>, <<"ordinary", "member">>}]

GovernanceRelations ==
    [required  |-> {<<"gov", "rls">>, <<"gov", "write">>, <<"log", "rls">>, <<"log", "insert">>},
     forbidden |-> {<<"gov", "ordinary write">>, <<"gov", "delete">>, <<"log", "update">>}]

GovernanceClassifications ==
    [required |-> {<<"classification", "rls">>, <<"classification", "lock policy">>}, forbidden |-> {}]

\* An enrolled owner relation that does not exist is skipped.
GovernanceOwners(catalog) ==
    IF <<"owner", "exists">> \in catalog
    THEN [required  |-> {<<"owner", "rls">>, <<"owner", "columns">>},
          forbidden |-> {<<"owner", "delete">>, <<"owner", "table write">>,
                         <<"owner", "ordinary write">>}]
    ELSE [required |-> {}, forbidden |-> {}]

\* Nothing else is writable, and of a classification only the locking column.
GovernanceInventory ==
    [required  |-> {<<"classification", "lock column">>},
     forbidden |-> {<<"other", "write">>, <<"classification", "write">>}]

GovernanceIndirect ==
    [required  |-> {},
     forbidden |-> {<<"indirect", "view">>, <<"indirect", "definer">>, <<"indirect", "trigger">>,
                    <<"indirect", "rule">>, <<"indirect", "default acl">>}]

MetadataRole ==
    [required  |-> {<<"metadata", "login">>},
     forbidden |-> {<<"metadata", "attribute">>, <<"metadata", "member">>,
                    <<"metadata", "owns">>, <<"ordinary", "member">>, <<"metadata", "create">>}]

MetadataRelations ==
    [required  |-> {<<"metadata", "grants">>, <<"metadata", "rls">>, <<"fence", "columns">>},
     forbidden |-> {<<"other", "write">>, <<"metadata", "ordinary access">>}]

MetadataIndirect ==
    [required  |-> {},
     forbidden |-> {<<"indirect", "view">>, <<"indirect", "definer">>, <<"indirect", "trigger">>,
                    <<"indirect", "rule">>}]

PublicationVerifier ==
    [required  |-> {<<"publication", "version">>, <<"publication", "lineage">>,
                    <<"publication", "triggers">>},
     forbidden |-> {}]

PublicationIndirect ==
    [required  |-> {<<"counter", "owner">>},
     forbidden |-> {<<"indirect", "definer">>, <<"counter", "member">>,
                    <<"indirect", "default acl">>, <<"publication", "ordinary write">>}]

Checks(catalog) ==
    CASE profile = "governance" ->
           <<GovernanceRole, GovernanceRelations, GovernanceClassifications,
             GovernanceOwners(catalog), GovernanceInventory, GovernanceIndirect>>
      [] profile = "metadata" -> <<MetadataRole, MetadataRelations, MetadataIndirect>>
      [] profile = "publication" ->
           <<MetadataRole, MetadataRelations, MetadataIndirect,
             PublicationVerifier, PublicationIndirect>>

Passes(catalog, k) ==
    /\ Checks(catalog)[k].required \subseteq catalog
    /\ Checks(catalog)[k].forbidden \cap catalog = {}

LastCheck == Len(Checks({}))

\* What the migrations leave: every required fact of every profile, nothing forbidden.
MigratedFacts ==
    {<<"owner", "exists">>, <<"owner", "rls">>, <<"owner", "columns">>}
    \cup UNION {c.required : c \in {GovernanceRole, GovernanceRelations,
           GovernanceClassifications, GovernanceInventory, MetadataRole, MetadataRelations, PublicationVerifier,
           PublicationIndirect}}

Catalog(changed) == (MigratedFacts \ changed) \cup (changed \ MigratedFacts)

-----------------------------------------------------------------------------
ClientStates == {"idle", "queue", "lock", "validate", "recheck", "enter", "unit",
                 "release", "unticket", "ended"}
RotatorStates == {"idle", "validate", "cutover", "revoke", "done", "failed", "refused", "abandoned"}

TypeOK ==
    /\ profile \in Profiles
    /\ generation \in {"active", "draining"}
    /\ active \in Pools \cup {NoPool}
    /\ leases \in [Pools -> 0 .. Cardinality(Clients)]
    /\ pool \in [Pools -> {"unborn", "open", "closing", "closed"}]
    /\ closed \in {"no", "closing", "yes"}
    /\ lock \in Clients \cup {NoPool}
    /\ changes \in 0 .. MaxChanges
    /\ Len(tickets) <= TicketLimit
    /\ \A c \in Clients : client[c].pc \in ClientStates
    /\ \A r \in Rotators : rotator[r].pc \in RotatorStates

NewClient ==
    [pc |-> "idle", command |-> FALSE, keys |-> {}, pool |-> NoPool, check |-> 0,
     since |-> 0, revoke |-> FALSE, lost |-> FALSE]

Init ==
    /\ profile \in Profiles
    /\ drift = {}
    /\ changes = 0
    /\ generation = "active"
    /\ active = FirstPool
    /\ leases = [p \in Pools |-> 0]
    /\ pool = [p \in Pools |-> IF p = FirstPool THEN "open" ELSE "unborn"]
    /\ closed = "no"
    /\ lock = NoPool
    /\ tickets = <<>>
    /\ \E crowd \in Crowds :
         /\ client = [c \in Clients |->
                        [NewClient EXCEPT !.pc = IF c \in crowd THEN "idle" ELSE "ended"]]
         /\ rotator = [r \in Rotators |->
                        [pc |-> IF r \in crowd THEN "idle" ELSE "done",
                         pool |-> NoPool, selected |-> NoPool, check |-> 0]]

Publication == profile = "publication"

\* The exact registration of the handler is recorded and its generation active.
Enrolled == generation = "active"

Admissible(c) == client[c].command => Enrolled

\* The framework itself reads schemas and installs modules, without a registration.
HasReaders == profile # "governance"

\* Connections checked out of pool p: units of work and validations.
CheckedOut(p) == Cardinality({c \in Clients :
    /\ client[c].pool = p
    /\ \/ client[c].pc = "unit"
       \/ client[c].pc = "validate" /\ client[c].check > 0})

\* await pool.close(), or the publication authority's one disposal task.
Dispose(p) == [pool EXCEPT ![p] = IF Publication THEN "closing" ELSE "closed"]

DisposeIf(p, condition) == IF p # NoPool /\ condition THEN Dispose(p) ELSE pool

-----------------------------------------------------------------------------
\* Leaving the authority; a keyed client still owns its ticket.
Left(c) == [NewClient EXCEPT !.pc = IF client[c].keys = {} THEN "ended" ELSE "unticket",
                             !.keys = client[c].keys]

(***************************************************************************)
(* Keyed admission in front of the metadata profile.                       *)
(***************************************************************************)
\* for_message: instance mutations carry scheduling keys, anything else none.
\* The dispatcher resolved the command's active registration just before.
Begin(c, command, keys) ==
    /\ client[c].pc = "idle"
    /\ IF command THEN Enrolled ELSE HasReaders
    /\ keys # {} => command /\ profile = "metadata"
    /\ LET queued == keys # {} /\ closed = "no" /\ Len(tickets) < TicketLimit IN
       /\ tickets' = IF queued THEN Append(tickets, c) ELSE tickets
       /\ client' = [client EXCEPT ![c].command = command,
                                   ![c].keys = IF queued THEN keys ELSE {},
                                   ![c].pc = IF queued THEN "queue"
                                             ELSE IF keys = {} THEN "lock" ELSE "ended"]
    /\ UNCHANGED <<profile, drift, changes, generation, active, leases, pool, closed, lock, rotator>>

Prior(c) == {tickets[i] : i \in {i \in 1 .. Len(tickets) :
                \E j \in 1 .. Len(tickets) : tickets[j] = c /\ i < j}}

Blocked(c) == \E d \in Prior(c) : client[d].keys \cap client[c].keys # {}

Admit(c) ==
    /\ client[c].pc = "queue"
    /\ closed = "no"
    /\ ~ Blocked(c)
    /\ client' = [client EXCEPT ![c].pc = "lock"]
    /\ UNCHANGED <<profile, drift, changes, generation, active, leases, pool, closed, lock,
                   tickets, rotator>>

\* The wait ends by its timeout, by cancellation, or because admission closed.
GiveUp(c) ==
    /\ client[c].pc = "queue"
    /\ client' = [client EXCEPT ![c] = Left(c)]
    /\ UNCHANGED <<profile, drift, changes, generation, active, leases, pool, closed, lock,
                   tickets, rotator>>

\* _remove in its shielded task: repeated cancellation cannot skip it.
RemoveTicket(c) ==
    /\ client[c].pc = "unticket"
    /\ \E i \in 1 .. Len(tickets) :
         /\ tickets[i] = c
         /\ tickets' = SubSeq(tickets, 1, i - 1) \o SubSeq(tickets, i + 1, Len(tickets))
    /\ client' = [client EXCEPT ![c].pc = "ended", ![c].keys = {}]
    /\ UNCHANGED <<profile, drift, changes, generation, active, leases, pool, closed, lock, rotator>>

(***************************************************************************)
(* Admission to the pool.                                                  *)
(***************************************************************************)
\* _closed is set: publication sets it first, the others together with _active.
Refusing == closed = "yes" \/ (Publication /\ closed = "closing")

Free == lock = NoPool

\* The publication authority reserves the pool before it validates it; the
\* others keep _lock until validation ends.
Select(c) ==
    /\ client[c].pc = "lock"
    /\ Free
    /\ IF ~ Admissible(c) \/ active = NoPool \/ Refusing
       THEN /\ client' = [client EXCEPT ![c] = Left(c)]
            /\ UNCHANGED <<leases, lock>>
       ELSE /\ client' = [client EXCEPT ![c].pc = "validate", ![c].pool = active]
            /\ lock' = IF Publication THEN lock ELSE c
            /\ leases' = IF Publication THEN [leases EXCEPT ![active] = @ + 1] ELSE leases
    /\ UNCHANGED <<profile, drift, changes, generation, active, pool, closed, tickets, rotator>>

\* The check validate() can have reached: the statements run one after the
\* other, each on the catalog of its own moment, so from check k it gets past
\* every check that holds now.
Reached(catalog, k) == CHOOSE n \in k .. LastCheck + 1 :
                         /\ n <= LastCheck => ~ Passes(catalog, n)
                         /\ \A i \in k .. n - 1 : Passes(catalog, i)

Connect(c) ==
    /\ client[c].pc = "validate"
    /\ client[c].check = 0
    /\ CheckedOut(client[c].pool) < PoolSize
    /\ client' = [client EXCEPT ![c].check = Reached(Catalog(drift), 1), ![c].since = changes]
    /\ UNCHANGED <<profile, drift, changes, generation, active, leases, pool, closed, lock,
                   tickets, rotator>>

\* Every check has passed; the connection is returned.
Validated(c) ==
    /\ client[c].pc = "validate"
    /\ client[c].check > LastCheck
    /\ client' = [client EXCEPT ![c].pc = "recheck", ![c].check = 0]
    /\ UNCHANGED <<profile, drift, changes, generation, active, leases, pool, closed, lock,
                   tickets, rotator>>

\* A check fails, or the database does: the profile is taken out of service.
CheckFails(c) ==
    /\ client[c].pc = "validate"
    /\ client[c].check > 0
    /\ IF Publication
       THEN /\ client' = [client EXCEPT ![c].pc = "release", ![c].revoke = TRUE]
            /\ UNCHANGED <<active, pool, lock>>
       ELSE /\ client' = [client EXCEPT ![c] = Left(c)]
            /\ active' = NoPool
            /\ pool' = DisposeIf(client[c].pool, leases[client[c].pool] = 0)
            /\ lock' = NoPool
    /\ UNCHANGED <<profile, drift, changes, generation, leases, closed, tickets, rotator>>

\* Capacity, the deadline or cancellation ends the admission: nothing is revoked.
Interrupt(c) ==
    /\ client[c].pc \in {"lock", "validate", "recheck", "enter"}
    /\ IF client[c].pc = "enter" \/ (Publication /\ client[c].pc # "lock")
       THEN /\ client' = [client EXCEPT ![c].pc = "release"]
            /\ UNCHANGED lock
       ELSE /\ client' = [client EXCEPT ![c] = Left(c)]
            /\ lock' = IF lock = c THEN NoPool ELSE lock
    /\ UNCHANGED <<profile, drift, changes, generation, active, leases, pool, closed, tickets, rotator>>

\* Mutant of StillCurrent: the pool selected before validation is not compared again.
OnlyEnrolment(c) == Admissible(c)

\* What may have changed while validate() was awaited.
StillCurrent(c) ==
    Admissible(c) /\ (Publication => ~ Refusing /\ active = client[c].pool)

\* Mutant of Recheck: a refusal after validation leaves the lock taken.
RecheckKeepsLock(c) ==
    /\ client[c].pc = "recheck"
    /\ lock' = IF ~ Publication /\ StillCurrent(c) THEN NoPool ELSE lock
    /\ leases' = IF ~ Publication /\ StillCurrent(c)
                 THEN [leases EXCEPT ![client[c].pool] = @ + 1] ELSE leases
    /\ client' = [client EXCEPT ![c] =
                     IF StillCurrent(c) THEN [client[c] EXCEPT !.pc = "enter"]
                     ELSE IF Publication THEN [client[c] EXCEPT !.pc = "release"] ELSE Left(c)]
    /\ UNCHANGED <<profile, drift, changes, generation, active, pool, closed, tickets, rotator>>

Recheck(c) ==
    /\ client[c].pc = "recheck"
    /\ lock' = IF Publication THEN lock ELSE NoPool
    /\ leases' = IF ~ Publication /\ StillCurrent(c)
                 THEN [leases EXCEPT ![client[c].pool] = @ + 1] ELSE leases
    /\ client' = [client EXCEPT ![c] =
                     IF StillCurrent(c) THEN [client[c] EXCEPT !.pc = "enter"]
                     ELSE IF Publication THEN [client[c] EXCEPT !.pc = "release"] ELSE Left(c)]
    /\ UNCHANGED <<profile, drift, changes, generation, active, pool, closed, tickets, rotator>>

\* The unit of work checks out its own connection; the handler runs; the
\* transaction ends and the connection goes back before the lease does.
Enter(c) ==
    /\ client[c].pc = "enter"
    /\ CheckedOut(client[c].pool) < PoolSize
    /\ client' = [client EXCEPT ![c].pc = "unit"]
    /\ UNCHANGED <<profile, drift, changes, generation, active, leases, pool, closed, lock,
                   tickets, rotator>>

Finish(c) ==
    /\ client[c].pc = "unit"
    /\ client' = [client EXCEPT ![c].pc = "release"]
    /\ UNCHANGED <<profile, drift, changes, generation, active, leases, pool, closed, lock,
                   tickets, rotator>>

\* A publication admission whose validation failed revokes its pool as it leaves.
ServingAfter(c) == IF client[c].revoke /\ active = client[c].pool THEN NoPool ELSE active

\* Mutant of Release: the last lease of a retired pool does not close it.
ReleaseOnly(c) ==
    /\ client[c].pc = "release"
    /\ Free
    /\ leases' = [leases EXCEPT ![client[c].pool] = @ - 1]
    /\ active' = ServingAfter(c)
    /\ client' = [client EXCEPT ![c] = Left(c)]
    /\ UNCHANGED <<profile, drift, changes, generation, pool, closed, lock, tickets, rotator>>

Release(c) ==
    LET p == client[c].pool IN
    /\ client[c].pc = "release"
    /\ Free
    /\ leases' = [leases EXCEPT ![p] = @ - 1]
    /\ active' = ServingAfter(c)
    /\ pool' = DisposeIf(p, leases[p] = 1 /\ p # ServingAfter(c))
    /\ client' = [client EXCEPT ![c] = Left(c)]
    /\ UNCHANGED <<profile, drift, changes, generation, closed, lock, tickets, rotator>>

\* governance, metadata: a second cancellation while the lease waits for
\* _lock skips the decrement; publication joins its cleanup instead.
LoseRelease(c) ==
    /\ ~ Publication
    /\ client[c].pc = "release"
    /\ ~ Free
    /\ client' = [client EXCEPT ![c] = [Left(c) EXCEPT !.lost = TRUE, !.pool = client[c].pool]]
    /\ UNCHANGED <<profile, drift, changes, generation, active, leases, pool, closed, lock,
                   tickets, rotator>>
(***************************************************************************)
(* Rotation and close.                                                     *)
(***************************************************************************)
\* An endpoint that does not match never gets a pool; `selected` is the pool
\* that served when the rotation began (a ghost outside publication).
StartRotate(r) ==
    /\ rotator[r].pc = "idle"
    /\ \/ /\ rotator' = [rotator EXCEPT ![r].pc = "revoke", ![r].selected = active]
          /\ UNCHANGED pool
       \/ LET p == CHOOSE q \in Pools : pool[q] = "unborn" IN
            /\ \E q \in Pools : pool[q] = "unborn"
            /\ pool' = [pool EXCEPT ![p] = "open"]
            /\ rotator' = [rotator EXCEPT ![r].pc = "validate", ![r].pool = p,
                                          ![r].selected = active, ![r].check = Reached(Catalog(drift), 1)]
    /\ UNCHANGED <<profile, drift, changes, generation, active, leases, closed, lock, tickets, client>>

ReplacementValidated(r) ==
    /\ rotator[r].pc = "validate"
    /\ rotator[r].check > LastCheck
    /\ rotator' = [rotator EXCEPT ![r].pc = "cutover", ![r].check = 0]
    /\ UNCHANGED <<profile, drift, changes, generation, active, leases, pool, closed, lock,
                   tickets, client>>

\* Validation of the replacement fails, times out or is cancelled: it is closed first.
RotationFails(r) ==
    /\ rotator[r].pc = "validate"
    /\ pool' = Dispose(rotator[r].pool)
    /\ rotator' = [rotator EXCEPT ![r].pc = "revoke", ![r].pool = NoPool]
    /\ UNCHANGED <<profile, drift, changes, generation, active, leases, closed, lock, tickets, client>>

\* A failed rotation revokes new admissions; publication only those of the
\* pool it started from.
Revoked(r) == IF Publication /\ active # rotator[r].selected THEN active ELSE NoPool

Revoke(r) ==
    /\ rotator[r].pc = "revoke"
    /\ Free
    /\ active' = Revoked(r)
    /\ pool' = DisposeIf(active, active # Revoked(r) /\ leases[active] = 0)
    /\ rotator' = [rotator EXCEPT ![r].pc = "failed"]
    /\ UNCHANGED <<profile, drift, changes, generation, leases, closed, lock, tickets, client>>

CutOver(r) ==
    /\ rotator[r].pc = "cutover"
    /\ Free
    /\ IF Refusing
       THEN /\ pool' = Dispose(rotator[r].pool)
            /\ rotator' = [rotator EXCEPT ![r].pc = "refused", ![r].selected = NoPool]
            /\ UNCHANGED active
       ELSE /\ active' = rotator[r].pool
            /\ pool' = DisposeIf(active, active # NoPool /\ leases[active] = 0)
            /\ rotator' = [rotator EXCEPT ![r].pc = "done", ![r].selected = NoPool]
    /\ UNCHANGED <<profile, drift, changes, generation, leases, closed, lock, tickets, client>>

\* governance, metadata: cancelled while it waits for _lock, the rotation
\* neither installs nor closes its replacement, or does not revoke.
AbandonRotation(r) ==
    /\ ~ Publication
    /\ rotator[r].pc \in {"cutover", "revoke"}
    /\ ~ Free
    /\ rotator' = [rotator EXCEPT ![r].pc = "abandoned"]
    /\ UNCHANGED <<profile, drift, changes, generation, active, leases, pool, closed, lock,
                   tickets, client>>

\* metadata closes its keyed admission first, publication sets _closed first.
BeginClose ==
    /\ profile # "governance"
    /\ closed = "no"
    /\ closed' = "closing"
    /\ UNCHANGED <<profile, drift, changes, generation, active, leases, pool, lock, tickets,
                   client, rotator>>

FinishClose ==
    /\ closed = IF profile = "governance" THEN "no" ELSE "closing"
    /\ Free
    /\ closed' = "yes"
    /\ active' = NoPool
    /\ pool' = DisposeIf(active, active # NoPool /\ leases[active] = 0)
    /\ UNCHANGED <<profile, drift, changes, generation, leases, lock, tickets, client, rotator>>

\* The one disposal task of a retired publication pool.
DisposalEnds(p) ==
    /\ pool[p] = "closing"
    /\ pool' = [pool EXCEPT ![p] = "closed"]
    /\ UNCHANGED <<profile, drift, changes, generation, active, leases, closed, lock, tickets,
                   client, rotator>>

(***************************************************************************)
(* The surroundings: module lifecycle and database administration.         *)
(***************************************************************************)
\* The gate drains the generation; remove_generation follows only when it
\* counts no command, so no admission can tell the two apart.
Drain ==
    /\ changes < MaxChanges
    /\ changes' = changes + 1
    /\ generation = "active"
    /\ generation' = "draining"
    /\ UNCHANGED <<profile, drift, active, leases, pool, closed, lock, tickets, client, rotator>>

\* An administrator grants, revokes, enables or drops something.
Drift(f) ==
    /\ changes < MaxChanges
    /\ UNCHANGED <<profile, generation, active, leases, pool, closed, lock, tickets>>
    /\ changes' = changes + 1
    /\ drift' = IF f \in drift THEN drift \ {f} ELSE drift \cup {f}
    /\ client' = [c \in Clients |->
                     IF client[c].pc = "validate" /\ client[c].check > 0
                     THEN [client[c] EXCEPT !.check = Reached(Catalog(drift'), client[c].check)] ELSE client[c]]
    /\ rotator' = [r \in Rotators |->
                     IF rotator[r].pc = "validate"
                     THEN [rotator[r] EXCEPT !.check = Reached(Catalog(drift'), rotator[r].check)] ELSE rotator[r]]

ClientStep(c) ==
    \/ RemoveTicket(c) \/ Select(c) \/ Connect(c) \/ Validated(c) \/ CheckFails(c)
    \/ Recheck(c) \/ Enter(c) \/ Finish(c) \/ Release(c)

RotatorStep(r) == ReplacementValidated(r) \/ RotationFails(r) \/ Revoke(r) \/ CutOver(r)

Next ==
    \/ \E c \in Clients : \E command \in BOOLEAN, keys \in SUBSET Keys : Begin(c, command, keys)
    \/ \E c \in Clients : Admit(c) \/ GiveUp(c) \/ ClientStep(c) \/ Interrupt(c) \/ LoseRelease(c)
    \/ \E r \in Rotators : StartRotate(r) \/ RotatorStep(r) \/ AbandonRotation(r)
    \/ BeginClose \/ FinishClose
    \/ \E p \in Pools : DisposalEnds(p)
    \/ Drain
    \/ \E f \in Drifting : Drift(f)

\* Admitted work and cleanup run to their end; an admission wait ends by its
\* timeout at the latest; nothing else is bound to happen.
Progress ==
    \/ \E c \in Clients : ClientStep(c) \/ Admit(c) \/ GiveUp(c)
    \/ \E p \in Pools : DisposalEnds(p)

Spec == Init /\ [][Next]_vars /\ WF_vars(Progress)

-----------------------------------------------------------------------------
Using(c, p) == client[c].pool = p /\ client[c].pc \in {"validate", "recheck", "enter", "unit", "release"}

Holds(c, p) ==
    /\ client[c].pool = p
    /\ \/ client[c].pc \in {"enter", "unit", "release"}
       \/ Publication /\ client[c].pc \in {"validate", "recheck"}
       \/ client[c].lost

\* No engine is disposed under an admission or a transaction that uses it, the
\* lease count of a pool is exactly the admissions that hold it, and a pool
\* that neither serves, nor is leased, nor is a replacement under way has been
\* disposed: no credential's connections are left open.  A pool a failed
\* rotation started from never serves again (database_execution.rotate:
\* "Failure revokes new protected admissions").
PoolsSound ==
    /\ TypeOK
    /\ \A p \in Pools, c \in Clients : Using(c, p) => pool[p] = "open"
    /\ \A p \in Pools : leases[p] = Cardinality({c \in Clients : Holds(c, p)})
    /\ active # NoPool => pool[active] = "open"
    /\ \A p \in Pools : pool[p] = "open" =>
          \/ p = active \/ leases[p] > 0
          \/ \E r \in Rotators : rotator[r].pool = p
                /\ rotator[r].pc \in {"validate", "cutover", "abandoned"}
    /\ \A r \in Rotators : rotator[r].pc = "failed" =>
          rotator[r].selected = NoPool \/ rotator[r].selected # active

\* Metadata mutations with a common key run one at a time and in arrival
\* order, and a ticket is owned by a request that still waits or runs
\* (database_admission._KeyedAdmission).
KeyedFIFO ==
    \A i \in 1 .. Len(tickets) :
      /\ client[tickets[i]].pc \notin {"idle", "ended"}
      /\ \A j \in 1 .. i - 1 :
           client[tickets[i]].keys \cap client[tickets[j]].keys # {} =>
             client[tickets[i]].pc \in {"queue", "unticket"}

\* The pools and the queue of an authority are sound (database_execution.py,
\* metadata_execution.py, publication_database.py, database_admission.py).
AuthoritySound == PoolsSound /\ KeyedFIFO

\* A transaction is handed out only on the pool that serves at that moment,
\* to a handler whose generation is still active; and unless the surroundings
\* changed since this very admission began to validate, it passes every check:
\* no earlier verdict is reused (for_command, _admitted_pool).
Enters ==
    \A c \in Clients : client[c].pc # "enter" /\ client'[c].pc = "enter" =>
      /\ client[c].pool = active
      /\ ~ Refusing
      /\ Admissible(c)
      /\ client[c].since = changes => \A k \in 1 .. LastCheck : Passes(Catalog(drift), k)

\* No admission is under way and no pool is being disposed.
Settled ==
    /\ \A c \in Clients : client[c].pc \in {"idle", "ended"}
    /\ \A p \in Pools : pool[p] # "closing"
=============================================================================
