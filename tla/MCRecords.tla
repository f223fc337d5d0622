----------------------------- MODULE MCRecords ------------------------------
(***************************************************************************)
(* The dispatch of messages to handlers, and the records the foundations   *)
(* keep for a tenant in them, for TLC: its custom entities, its lifecycle  *)
(* and directory, its audit trail, its parties and its classifications.    *)
(* They share the database and no row of it, so a behaviour follows one of *)
(* the six and TLC explores them side by side.                             *)
(***************************************************************************)
EXTENDS Integers, Sequences, FiniteSets, TLC

CONSTANTS
    s1, s2,
    Sessions,                       \* of CustomEntities, AuditTrail and DataClassification
    Tasks, Generations, Coordinators, MaxDepth, MaxDispatches, MaxGuards,   \* of MessageDispatch
    Types, MaxEntities, MaxPerType, MaxPerTenant, MaxTypeRevisions, MaxEntityVersion, PageSize,
    EntityBudgets,                                                          \* of CustomEntities
    Owners, MaxTenantVersion, MaxConfigs, TenantBudgets,                    \* of TenantAccess
    Events, MaxAuditTime, MaxAppends, MaxRows, AuditLimit,                  \* of AuditTrail
    Creators, Numbers, MaxAttempts, Values, MaxChildren, MaxFull, MaxSetRevisions,
    MaxValuesVersion, PartyLimit, MatchRows, MatchLimit, PartyBudgets,      \* of PartyRecords
    Fields, Policies, MaxClassTime, MaxLevel, ClassBudgets                  \* of DataClassification

\* The bounds are numbers; a publication coordinator is one of the generations.
ASSUME BoundsAssumption == MaxDepth \in Nat /\ MaxDispatches \in Nat /\ MaxGuards \in Nat
ASSUME CoordinatorsAssumption == Coordinators \subseteq Generations
\* Pages have rows, and "none" marks what is absent.
ASSUME AuditAssumption ==
    /\ MaxAuditTime \in Nat /\ MaxRows \in Nat /\ AuditLimit \in Nat \ {0}
    /\ "none" \notin Events
ASSUME PartyAssumption ==
    /\ Creators \subseteq Nat \ {0} /\ IsFiniteSet(Creators)
    /\ MatchRows \in Nat \ {0} /\ MatchLimit \in Nat \ {0}
    /\ Numbers # {} /\ "none" \notin Numbers /\ Values # {}
    /\ MaxChildren \in Nat /\ MaxFull \in Nat /\ MaxSetRevisions \in Nat \ {0}
    /\ MaxValuesVersion \in Nat /\ MaxAttempts \in Nat /\ PartyLimit \in Nat \ {0}
\* The entities that exist at the start are within the limits, and every type has a revision.
ASSUME EntityAssumption ==
    /\ Types \subseteq Nat /\ IsFiniteSet(Types) /\ Types # {} /\ MaxEntities \in Nat
    /\ MaxPerType \in Nat \ {0, 1} /\ MaxPerTenant \in Nat \ {0, 1}
    /\ MaxTypeRevisions \in Nat \ {0} /\ MaxEntityVersion \in Nat \ {0} /\ PageSize \in Nat \ {0}
\* Lifecycle hooks have an order; it is their owners' here.
ASSUME TenantAssumption ==
    /\ Owners \subseteq Nat /\ IsFiniteSet(Owners)
    /\ MaxTenantVersion \in Nat /\ MaxConfigs \in Nat
\* The clock starts at 1, and levels too.
ASSUME ClassAssumption == MaxClassTime \in Nat \ {0} /\ MaxLevel \in Nat \ {0}

VARIABLES
    scene,
    \* MessageDispatch
    gate, stack, dispatched,
    \* CustomEntities
    definition, entity, etx, retiring, page, eleft,
    \* TenantAccess
    tenant, operation, worker, ran, directory, login, session, check, tleft,
    \* AuditTrail
    log, atx, areader,
    \* PartyRecords
    party, rows, custom, fieldset, ptx, preader, pleft,
    \* DataClassification
    clock, core, owned, overlays, tags, ctx, cleft

dispatchVars == <<gate, stack, dispatched>>
entityVars == <<definition, entity, etx, retiring, page, eleft>>
tenantVars == <<tenant, operation, worker, ran, directory, login, session, check, tleft>>
auditVars == <<log, atx, areader>>
partyVars == <<party, rows, custom, fieldset, ptx, preader, pleft>>
classVars == <<clock, core, owned, overlays, tags, ctx, cleft>>
allVars == <<scene, dispatchVars, entityVars, tenantVars, auditVars, partyVars, classVars>>

-----------------------------------------------------------------------------
(* Two writers beside a retirement or a publication, or beside a list; and   *)
(* one writer beside two of them.  One room is left in the tenant.           *)
MCEntityBudgets ==
    {s1 :> b[1] @@ s2 :> b[2] @@ "types" :> b[3] @@ "list" :> b[4] :
        b \in {<<1, 1, 1, 0>>, <<1, 1, 0, 1>>, <<1, 0, 2, 0>>, <<2, 0, 0, 1>>}}

\* The whole lifecycle with failing hooks; an active tenant whose directory changes under a
\* login; sessions beside membership changes.
MCTenantBudgets ==
    {[transition |-> b[1], failure |-> b[2], admin |-> b[3], login |-> b[4], session |-> b[5]] :
        b \in {<<7, 2, 0, 0, 0>>, <<3, 0, 4, 1, 0>>, <<0, 0, 4, 0, 3>>}}

\* Creators after the same numbers; writers of values beside an update and a publication;
\* children of two parties; a reader beside new children.
MCPartyBudgets ==
    {[create |-> b[1], values |-> b[2], update |-> b[3], child |-> b[4], fieldset |-> b[5],
      list |-> b[6]] :
        b \in {<<2, 0, 0, 0, 0, 0>>, <<0, 3, 1, 0, 1, 0>>, <<1, 0, 0, 2, 0, 0>>,
               <<0, 0, 0, 3, 0, 1>>}}

\* A reference beside overlays, a scheduled version, a revision, a deactivation or claims.
MCClassBudgets ==
    {[assign |-> 1, overlay |-> b[1], revise |-> b[2], deactivate |-> b[3], claim |-> b[4],
      schedule |-> b[5]] :
        b \in {<<2, 0, 0, 0, 0>>, <<1, 0, 0, 0, 1>>, <<0, 1, 0, 0, 1>>, <<0, 1, 1, 0, 0>>,
               <<0, 0, 0, 2, 0>>}}

Dispatch == INSTANCE MessageDispatch

Entities == INSTANCE CustomEntities WITH
    MaxRevisions <- MaxTypeRevisions, MaxVersion <- MaxEntityVersion, Budgets <- EntityBudgets,
    tx <- etx, left <- eleft

Tenant == INSTANCE TenantAccess WITH
    MaxVersion <- MaxTenantVersion, Budgets <- TenantBudgets, left <- tleft

Audit == INSTANCE AuditTrail WITH
    MaxTime <- MaxAuditTime, Limit <- AuditLimit, tx <- atx, reader <- areader

Party == INSTANCE PartyRecords WITH
    Sessions <- Creators, MaxRevisions <- MaxSetRevisions, MaxVersion <- MaxValuesVersion,
    Limit <- PartyLimit, Budgets <- PartyBudgets, tx <- ptx, reader <- preader, left <- pleft

Class == INSTANCE DataClassification WITH
    MaxTime <- MaxClassTime, Budgets <- ClassBudgets, tenant <- owned, tx <- ctx, left <- cleft

-----------------------------------------------------------------------------
Off == "off"

EntitiesOff ==
    /\ definition = Off /\ entity = Off /\ etx = Off /\ retiring = Off /\ page = Off /\ eleft = Off
TenantOff ==
    /\ tenant = Off /\ operation = Off /\ worker = Off /\ ran = Off /\ directory = Off
    /\ login = Off /\ session = Off /\ check = Off /\ tleft = Off
AuditOff == log = Off /\ atx = Off /\ areader = Off
PartyOff ==
    /\ party = Off /\ rows = Off /\ custom = Off /\ fieldset = Off /\ ptx = Off /\ preader = Off
    /\ pleft = Off
ClassOff ==
    /\ clock = Off /\ core = Off /\ owned = Off /\ overlays = Off /\ tags = Off /\ ctx = Off
    /\ cleft = Off

\* No task has dispatched and every generation is active.
DispatchOff == Dispatch!Init

MCInit ==
    /\ scene \in {"dispatch", "entities", "tenant", "audit", "party", "class"}
    /\ \/ scene = "dispatch" /\ Dispatch!Init
       \/ scene # "dispatch" /\ DispatchOff
    /\ \/ scene = "entities" /\ Entities!Init
       \/ scene # "entities" /\ EntitiesOff
    /\ \/ scene = "tenant" /\ Tenant!Init
       \/ scene # "tenant" /\ TenantOff
    /\ \/ scene = "audit" /\ Audit!Init
       \/ scene # "audit" /\ AuditOff
    /\ \/ scene = "party" /\ Party!Init
       \/ scene # "party" /\ PartyOff
    /\ \/ scene = "class" /\ Class!Init
       \/ scene # "class" /\ ClassOff

MCNext ==
    \/ /\ scene = "dispatch" /\ Dispatch!Next
       /\ UNCHANGED <<scene, entityVars, tenantVars, auditVars, partyVars, classVars>>
    \/ /\ scene = "entities" /\ Entities!Next
       /\ UNCHANGED <<scene, dispatchVars, tenantVars, auditVars, partyVars, classVars>>
    \/ /\ scene = "tenant" /\ Tenant!Next
       /\ UNCHANGED <<scene, dispatchVars, entityVars, auditVars, partyVars, classVars>>
    \/ /\ scene = "audit" /\ Audit!Next
       /\ UNCHANGED <<scene, dispatchVars, entityVars, tenantVars, partyVars, classVars>>
    \/ /\ scene = "party" /\ Party!Next
       /\ UNCHANGED <<scene, dispatchVars, entityVars, tenantVars, auditVars, classVars>>
    \/ /\ scene = "class" /\ Class!Next
       /\ UNCHANGED <<scene, dispatchVars, entityVars, tenantVars, auditVars, partyVars>>

\* The fairness of each specification, in its own scene.
MCSpec ==
    /\ MCInit /\ [][MCNext]_allVars
    /\ WF_dispatchVars(scene = "dispatch" /\ Dispatch!Progress)
    /\ \A s \in Sessions : WF_entityVars(scene = "entities" /\ Entities!Step(s))
    /\ \A t \in Types : WF_entityVars(scene = "entities" /\ Entities!CommitRetire(t))
    /\ WF_tenantVars(scene = "tenant" /\ Tenant!Lifecycle)
    /\ WF_tenantVars(scene = "tenant" /\ Tenant!Resolve)
    /\ \A s \in Creators : WF_partyVars(scene = "party" /\ Party!Step(s))

-----------------------------------------------------------------------------
\* Admissions cover a unit of work and what it reports is what the database did
\* (MessageDispatch).
DispatchSound == scene = "dispatch" => Dispatch!DispatchSound

\* The limits on custom entities hold however creations interleave (CustomEntities), and
\* external work follows the tenant's lifecycle whatever fails (TenantAccess).
EntitiesSound ==
    /\ scene = "entities" => Entities!EntitiesSound
    /\ scene = "tenant" => Tenant!TenantSound

\* The audit chain stays whole under concurrent appends and clocks that go back (AuditTrail),
\* party numbers stay unique and readers complete (PartyRecords), and classification codes
\* and histories stay unambiguous (DataClassification).
RecordsSound ==
    /\ scene = "audit" => Audit!TrailSound
    /\ scene = "party" => Party!PartiesSound
    /\ scene = "class" => Class!ClassificationSound

\* What a transaction commits agrees with what the database holds at its commit, not only
\* with what it read: an entity's type and target, a principal's tenant, provider and
\* membership, a party's activity, a reference's classification.
CommittedIsCurrent ==
    [][/\ scene = "entities" => Entities!WriteIsLive
       /\ scene = "tenant" => Tenant!Admitted
       /\ scene = "party" => Party!ValuesChanged
       /\ scene = "class" => Class!Assigned]_allVars

\* Every command, login, lifecycle operation and write ends: locks are taken in one order,
\* redelivered work is completed or skipped, and numbers are drawn a bounded number of times;
\* a draining generation is removed, whatever fails or is cancelled in the dispatches that
\* hold it (close_and_drain).
RecordWorkEnds ==
    <>[](/\ scene = "dispatch" => Dispatch!Settled
         /\ scene = "entities" => Entities!Settled
         /\ scene = "tenant" => Tenant!Settled
         /\ scene = "party" => Party!Settled)
=============================================================================
