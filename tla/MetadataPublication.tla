------------------------- MODULE MetadataPublication -------------------------
(* Publication of metadata against module upgrades.  A definition and a UI   *)
(* overlay are drafted, published, reactivated and retired by commands that  *)
(* run in several processes; each process also activates modules.  All meet *)
(* at the rows of module_fence: a publication pins the exact artifact and    *)
(* generation of every module it depends on, an activation may change the    *)
(* artifact only while nothing pins it.  Row locks have PostgreSQL's modes,  *)
(* and a transaction's writes take effect at its commit, with its locks held.*)
(* The contract fence never changes once migrated, so it is left out.        *)
EXTENDS Integers, FiniteSets, Sequences, FiniteSetsExt, Functions

CONSTANTS Sessions,     \* handlers and activations that run concurrently
          Processes,    \* processes that share the database
          ProcessOf,    \* the process a session runs in
          Modules,      \* module ids, numbered in their lock order
          Base,         \* the module that owns the resource and the view
          Artifacts,    \* artifact identities a module can be deployed with
          Absent,       \* modules that may not have been activated yet
          Newcomers,    \* processes that may have just started
          None,
          MaxCommands   \* commands and activations each session performs

ASSUME PublicationAssumption ==
    /\ Modules \subseteq Nat /\ IsFiniteSet(Modules) /\ Base \in Modules
    /\ Absent \subseteq Modules \ {Base} /\ Newcomers \subseteq Processes
    /\ ProcessOf \in [Sessions -> Processes] /\ MaxCommands \in [Sessions -> Nat]
    /\ Artifacts # {}

VARIABLES module_fence,   \* the durable identity of each module and its active bindings
          admitted,       \* per process, the identity each published module was activated at
          definition, revisions,
          overlay, ui_revisions,
          tx,             \* the transaction of each session
          left            \* commands each session still performs

vars == <<module_fence, admitted, definition, revisions, overlay, ui_revisions, tx, left>>

Identity(m) == <<module_fence[m].artifact, module_fence[m].generation>>
HasRow(m) == module_fence[m].generation > 0
Snapshots == {S \in SUBSET Modules : Base \in S}

DefinitionOps == {"edit", "publish", "reactivate", "retire"}
PrivateUIOps == {"publish_ui", "reactivate_ui", "retire_ui"}
UIOps == PrivateUIOps \cup {"create_ui", "edit_ui", "read_ui", "resolve_ui"}

NoLocks == [m \in Modules |-> "none"]
EmptyMap == [m \in {} |-> None]
Idle == [op |-> "none", pc |-> "idle", draft_generation |-> 0, active |-> 0,
         active_generation |-> 0, ids |-> EmptyMap, target |-> 0, src |-> EmptyMap,
         todo |-> {}, held |-> NoLocks]

NoObject == [lifecycle |-> "none", draft_generation |-> 0, draft |-> EmptyMap,
             active |-> 0, active_generation |-> 0]

\* An installation in use: two revisions of the definition and one of the overlay.
InUse(ids) ==
    /\ revisions = <<[m \in {Base} |-> ids[m]], ids>> /\ ui_revisions = <<ids>>
    /\ definition = [lifecycle |-> "published", draft_generation |-> 2,
                     draft |-> [m \in {Base} |-> None], active |-> 2, active_generation |-> 2]
    /\ overlay = [lifecycle |-> "published", draft_generation |-> 1, draft |-> ids,
                  active |-> 1, active_generation |-> 1]

Fresh ==
    /\ definition = NoObject /\ revisions = <<>>
    /\ overlay = NoObject /\ ui_revisions = <<>>

\* Every process has just started or has activated all modules that were ever activated.
Init ==
    /\ \E missing \in SUBSET Absent, starting \in SUBSET Newcomers, used \in BOOLEAN :
       LET present == Modules \ missing
           a == CHOOSE x \in Artifacts : TRUE IN
        /\ module_fence = [m \in Modules |->
                IF m \in missing THEN [artifact |-> None, generation |-> 0, active_bindings |-> 0]
                ELSE [artifact |-> a, generation |-> 1,
                      active_bindings |-> IF used THEN 2 ELSE 0]]
        /\ admitted = [p \in Processes |-> [m \in Modules |->
                IF p \in starting \/ m \in missing THEN None ELSE <<a, 1>>]]
        /\ IF used THEN InUse([m \in present |-> <<a, 1>>]) ELSE Fresh
    /\ tx = [s \in Sessions |-> Idle]
    /\ left = MaxCommands

-----------------------------------------------------------------------------
(* Row locks.                                                                *)

\* FOR KEY SHARE conflicts only with FOR UPDATE, FOR NO KEY UPDATE also with itself.
Conflict(a, b) ==
    /\ a # "none" /\ b # "none"
    /\ a = "key share" => b = "update"
    /\ b = "key share" => a = "update"

Compatible(s, m, mode) == \A t \in Sessions \ {s} : ~Conflict(mode, tx[t].held[m])

\* Publication of a definition takes FOR UPDATE, of an overlay FOR NO KEY UPDATE; other
\* overlay operations take FOR KEY SHARE.
ModuleMode(op) ==
    IF op \in DefinitionOps THEN "update"
    ELSE IF op \in PrivateUIOps THEN "no key update" ELSE "key share"

\* The definition's row, or the tenant/view advisory lock and the overlay's row.
RowMode(op) == IF op \in {"read_ui", "resolve_ui"} THEN "shared" ELSE "exclusive"
SameRow(op, other) == (op \in DefinitionOps /\ other \in DefinitionOps)
                      \/ (op \in UIOps /\ other \in UIOps)
RowFree(s) ==
    \A t \in Sessions \ {s} :
        (tx[t].pc \in {"locked", "served"} /\ SameRow(tx[s].op, tx[t].op))
            => RowMode(tx[s].op) = "shared" /\ RowMode(tx[t].op) = "shared"

End(s) == tx' = [tx EXCEPT ![s] = Idle]

\* Mutant of LockOrder: the order of the modules is not respected.
AnyOrder(todo, m) == m \in todo

\* Modules are locked in ascending order of their ids.
LockOrder(todo, m) == m \in todo /\ \A n \in todo : m <= n

LockModule(s) ==
    /\ tx[s].pc = "locking"
    /\ \E m \in Modules :
        /\ LockOrder(tx[s].todo, m)
        /\ Compatible(s, m, ModuleMode(tx[s].op))
        /\ tx' = [tx EXCEPT ![s].todo = @ \ {m}, ![s].held[m] = ModuleMode(tx[s].op)]
    /\ UNCHANGED <<module_fence, admitted, definition, revisions, overlay, ui_revisions, left>>

LockRow(s) ==
    /\ tx[s].pc = "locking" /\ tx[s].todo = {}
    /\ RowFree(s)
    /\ tx' = [tx EXCEPT ![s].pc = "locked"]
    /\ UNCHANGED <<module_fence, admitted, definition, revisions, overlay, ui_revisions, left>>

\* lock_timeout is set by activations and by overlay operations, not by definition commands.
LockTimeout(s) ==
    /\ \/ tx[s].pc = "reading" /\ ~Compatible(s, tx[s].target, "key share")
       \/ tx[s].pc = "writing" /\ ~Compatible(s, tx[s].target, "update")
       \/ /\ tx[s].pc = "locking" /\ tx[s].op \in UIOps
          /\ \/ \E m \in Modules : LockOrder(tx[s].todo, m)
                                   /\ ~Compatible(s, m, ModuleMode(tx[s].op))
             \/ tx[s].todo = {} /\ ~RowFree(s)
    /\ End(s)
    /\ UNCHANGED <<module_fence, admitted, definition, revisions, overlay, ui_revisions, left>>

-----------------------------------------------------------------------------
(* Module activation (registry._enable inside MetadataActivationFence).     *)

Spend(s) == left[s] > 0 /\ left' = [left EXCEPT ![s] = @ - 1]

StartActivation(s) ==
    /\ tx[s].pc = "idle" /\ Spend(s)
    /\ \E m \in Modules, a \in Artifacts :
        /\ admitted[ProcessOf[s]][m] = None
        /\ \A t \in Sessions : ProcessOf[t] = ProcessOf[s] => tx[t].op # "activate"
        /\ tx' = [tx EXCEPT ![s] = [Idle EXCEPT !.op = "activate", !.pc = "reading",
                                               !.target = m, !.src = [x \in {m} |-> <<a, 0>>]]]
    /\ UNCHANGED <<module_fence, admitted, definition, revisions, overlay, ui_revisions>>

WantedArtifact(s) == tx[s].src[tx[s].target][1]

\* A restart at an admitted artifact only shares the key; anything else takes the writer.
ActivationRead(s) ==
    LET m == tx[s].target IN
    /\ tx[s].pc = "reading"
    /\ Compatible(s, m, "key share")
    /\ IF HasRow(m) /\ module_fence[m].artifact = WantedArtifact(s)
       THEN tx' = [tx EXCEPT ![s].pc = "activating", ![s].held[m] = "key share",
                             ![s].src = [x \in {m} |-> Identity(m)]]
       ELSE tx' = [tx EXCEPT ![s].pc = "writing"]
    /\ UNCHANGED <<module_fence, admitted, definition, revisions, overlay, ui_revisions, left>>

\* Mutant of ArtifactFree: active revisions do not protect the artifact they pin.
ArtifactNeverPinned(m) == TRUE

ArtifactFree(m) == module_fence[m].active_bindings = 0

ActivationWrite(s) ==
    LET m == tx[s].target
        same == HasRow(m) /\ module_fence[m].artifact = WantedArtifact(s) IN
    /\ tx[s].pc = "writing"
    /\ Compatible(s, m, "update")
    /\ IF ~same /\ ~ArtifactFree(m)
       THEN End(s)
       ELSE tx' = [tx EXCEPT ![s].pc = "activating", ![s].held[m] = "update",
                             ![s].src = [x \in {m} |->
                                 IF same THEN Identity(m)
                                 ELSE <<WantedArtifact(s), module_fence[m].generation + 1>>]]
    /\ UNCHANGED <<module_fence, admitted, definition, revisions, overlay, ui_revisions, left>>

\* The module registered and started: the fence commits, then its contributions publish.
CommitActivation(s) ==
    LET m == tx[s].target IN
    /\ tx[s].pc = "activating"
    /\ module_fence' = [module_fence EXCEPT ![m].artifact = tx[s].src[m][1],
                                            ![m].generation = tx[s].src[m][2]]
    /\ tx' = [tx EXCEPT ![s].pc = "publishing", ![s].held = NoLocks]
    /\ UNCHANGED <<admitted, definition, revisions, overlay, ui_revisions, left>>

PublishContributions(s) ==
    LET m == tx[s].target IN
    /\ tx[s].pc = "publishing"
    /\ admitted' = [admitted EXCEPT ![ProcessOf[s]][m] = tx[s].src[m]]
    /\ End(s)
    /\ UNCHANGED <<module_fence, definition, revisions, overlay, ui_revisions, left>>

\* register, start or the commit itself fails: the unit rolls back.
ActivationFails(s) ==
    /\ tx[s].pc = "activating"
    /\ End(s)
    /\ UNCHANGED <<module_fence, admitted, definition, revisions, overlay, ui_revisions, left>>

\* Disabling drains the operations that retained the module's declarations.
Disable(s) ==
    /\ tx[s].pc = "idle" /\ Spend(s)
    /\ \E m \in Modules :
        /\ admitted[ProcessOf[s]][m] # None
        /\ \A t \in Sessions : (ProcessOf[t] = ProcessOf[s] /\ tx[t].op \in UIOps)
                                => m \notin DOMAIN tx[t].src
        /\ admitted' = [admitted EXCEPT ![ProcessOf[s]][m] = None]
    /\ UNCHANGED <<module_fence, definition, revisions, overlay, ui_revisions, tx>>

-----------------------------------------------------------------------------
(* Commands.                                                                 *)

Resolvable(s, S) == \A m \in S : admitted[ProcessOf[s]][m] # None
Ids(S) == [m \in S |-> Identity(m)]
Pins(history, index) == IF index = 0 THEN EmptyMap ELSE history[index]

CreateDefinition(s) ==
    /\ tx[s].pc = "idle" /\ Spend(s)
    /\ definition.lifecycle = "none" /\ Resolvable(s, {Base})
    /\ \E S \in Snapshots :
        definition' = [NoObject EXCEPT !.lifecycle = "draft", !.draft_generation = 1,
                                       !.draft = [m \in S |-> None]]
    /\ UNCHANGED <<module_fence, admitted, revisions, overlay, ui_revisions, tx>>

\* What the client is shown before it sends the command: PreflightPublication, or a read of
\* the record.  The fences are read after the row, in the same query.
Expect(s, op, target, object, ids) ==
    tx' = [tx EXCEPT ![s] = [Idle EXCEPT
              !.op = op, !.pc = "expecting", !.draft_generation = object.draft_generation,
              !.active = object.active, !.active_generation = object.active_generation,
              !.ids = ids, !.target = target]]

PreflightDefinition(s) ==
    /\ tx[s].pc = "idle" /\ Spend(s)
    /\ definition.lifecycle \notin {"none", "retired"}
    /\ \E op \in {"publish", "reactivate"} :
       \E target \in IF op = "publish" THEN {0} ELSE DOMAIN revisions :
        LET S == DOMAIN (IF target = 0 THEN definition.draft ELSE revisions[target]) IN
        /\ Resolvable(s, S) /\ \A m \in S : HasRow(m)
        /\ Expect(s, op, target, definition, Ids(S))
    /\ UNCHANGED <<module_fence, admitted, definition, revisions, overlay, ui_revisions>>

ReadDefinition(s) ==
    /\ tx[s].pc = "idle" /\ Spend(s)
    /\ definition.lifecycle # "none"
    /\ \/ Expect(s, "edit", 0, [NoObject EXCEPT !.draft_generation = definition.draft_generation],
                 EmptyMap)
       \/ Expect(s, "retire", 0, [NoObject EXCEPT !.active_generation = definition.active_generation],
                 EmptyMap)
    /\ UNCHANGED <<module_fence, admitted, definition, revisions, overlay, ui_revisions>>

ReadOverlay(s) ==
    /\ tx[s].pc = "idle" /\ Spend(s)
    /\ \E op \in UIOps :
       \E target \in IF op = "reactivate_ui" THEN DOMAIN ui_revisions ELSE {0} :
        /\ op \in {"create_ui", "resolve_ui"} \/ overlay.lifecycle # "none"
        /\ Expect(s, op, target,
                  IF op \in PrivateUIOps \cup {"edit_ui"} THEN overlay ELSE NoObject, EmptyMap)
    /\ UNCHANGED <<module_fence, admitted, definition, revisions, overlay, ui_revisions>>

\* The command's unit begins: it reads the row unlocked to learn which pins it will move.
BeginDefinition(s) ==
    /\ tx[s].pc = "expecting" /\ tx[s].op \in DefinitionOps
    /\ tx' = [tx EXCEPT ![s].pc = "locking",
                        ![s].todo = IF tx[s].op = "edit" THEN {}
                                    ELSE DOMAIN Pins(revisions, definition.active)
                                         \cup DOMAIN tx[s].ids]
    /\ UNCHANGED <<module_fence, admitted, definition, revisions, overlay, ui_revisions, left>>

\* The declarations of the view the process has published, retained for the operation.
Sources(p) == [m \in {n \in Modules : admitted[p][n] # None} |-> admitted[p][m]]

BeginUI(s) ==
    LET src == Sources(ProcessOf[s])
        previous == IF tx[s].op \in PrivateUIOps
                    THEN DOMAIN Pins(ui_revisions, overlay.active) ELSE {} IN
    /\ tx[s].pc = "expecting" /\ tx[s].op \in UIOps
    /\ IF Base \notin DOMAIN src
       THEN End(s)
       ELSE tx' = [tx EXCEPT ![s].pc = "locking", ![s].src = src,
                             ![s].todo = DOMAIN src \cup previous]
    /\ UNCHANGED <<module_fence, admitted, definition, revisions, overlay, ui_revisions, left>>

-----------------------------------------------------------------------------
(* The counter trigger: the old revision's pins are dropped, the new one's   *)
(* added, and every row touched must still have the pinned identity.        *)

Delta(old, new, m) == (IF m \in DOMAIN new THEN 1 ELSE 0) - (IF m \in DOMAIN old THEN 1 ELSE 0)

BindingsMove(old, new) ==
    /\ \A m \in DOMAIN old : old[m] = Identity(m) /\ module_fence[m].active_bindings > 0
    /\ \A m \in DOMAIN new : new[m] = Identity(m)

Rebind(old, new) ==
    module_fence' = [m \in Modules |-> [module_fence[m] EXCEPT
                        !.active_bindings = @ + Delta(old, new, m)]]

Activate(object, index) ==
    [object EXCEPT !.lifecycle = "published", !.active = index, !.active_generation = @ + 1]
Retired(object) ==
    [object EXCEPT !.lifecycle = "retired", !.active = 0, !.active_generation = @ + 1]

Refused(s) == End(s) /\ UNCHANGED <<module_fence, definition, revisions, overlay, ui_revisions>>

-----------------------------------------------------------------------------
(* Definition commands, at their commit.                                     *)

EditDraft(s) ==
    /\ tx[s].pc = "locked" /\ tx[s].op = "edit"
    /\ \/ /\ definition.lifecycle # "retired"
          /\ definition.draft_generation = tx[s].draft_generation
          /\ \E S \in Snapshots :
              /\ Resolvable(s, S)
              /\ definition' = [definition EXCEPT !.draft = [m \in S |-> None],
                                                  !.draft_generation = @ + 1]
          /\ End(s)
          /\ UNCHANGED <<module_fence, revisions, overlay, ui_revisions>>
       \/ Refused(s)
    /\ UNCHANGED <<admitted, left>>

\* Mutant of LockedPreflight: the draft is published whatever its generation.
PreflightIgnoresDraft(s) ==
    /\ \A m \in DOMAIN tx[s].ids : Identity(m) = tx[s].ids[m]
    /\ definition.lifecycle # "retired"
    /\ definition.active = tx[s].active
    /\ definition.active_generation = tx[s].active_generation

LockedPreflight(s) ==
    /\ \A m \in DOMAIN tx[s].ids : Identity(m) = tx[s].ids[m]
    /\ definition.lifecycle # "retired"
    /\ definition.draft_generation = tx[s].draft_generation
    /\ definition.active = tx[s].active
    /\ definition.active_generation = tx[s].active_generation

Publish(s) ==
    LET old == Pins(revisions, definition.active) IN
    /\ tx[s].pc = "locked" /\ tx[s].op = "publish"
    /\ IF /\ LockedPreflight(s)
          /\ Resolvable(s, DOMAIN definition.draft)
          /\ DOMAIN definition.draft = DOMAIN tx[s].ids
          /\ BindingsMove(old, tx[s].ids)
       THEN /\ revisions' = Append(revisions, tx[s].ids)
            /\ definition' = Activate(definition, Len(revisions) + 1)
            /\ Rebind(old, tx[s].ids)
            /\ End(s)
            /\ UNCHANGED <<overlay, ui_revisions>>
       ELSE Refused(s)
    /\ UNCHANGED <<admitted, left>>

Reactivate(s) ==
    LET old == Pins(revisions, definition.active)
        new == revisions[tx[s].target] IN
    /\ tx[s].pc = "locked" /\ tx[s].op = "reactivate"
    /\ IF /\ LockedPreflight(s)
          /\ Resolvable(s, DOMAIN new)
          /\ new = tx[s].ids
          /\ BindingsMove(old, new)
       THEN /\ definition' = Activate(definition, tx[s].target)
            /\ Rebind(old, new)
            /\ End(s)
            /\ UNCHANGED <<revisions, overlay, ui_revisions>>
       ELSE Refused(s)
    /\ UNCHANGED <<admitted, left>>

\* A retired definition can be retired again; only its active generation is compared.
Retire(s) ==
    LET old == Pins(revisions, definition.active) IN
    /\ tx[s].pc = "locked" /\ tx[s].op = "retire"
    /\ IF /\ definition.active_generation = tx[s].active_generation
          /\ BindingsMove(old, EmptyMap)
       THEN /\ definition' = Retired(definition)
            /\ Rebind(old, EmptyMap)
            /\ End(s)
            /\ UNCHANGED <<revisions, overlay, ui_revisions>>
       ELSE Refused(s)
    /\ UNCHANGED <<admitted, left>>

-----------------------------------------------------------------------------
(* Overlay operations, at their commit.                                      *)

\* capture_members: what the process was activated at is what the locked rows still say.
CaptureMembers(s) == \A m \in DOMAIN tx[s].src : HasRow(m) /\ Identity(m) = tx[s].src[m]

CreateOverlay(s) ==
    /\ tx[s].pc = "locked" /\ tx[s].op = "create_ui"
    /\ IF CaptureMembers(s) /\ overlay.lifecycle = "none"
       THEN /\ overlay' = [NoObject EXCEPT !.lifecycle = "draft", !.draft_generation = 1,
                                           !.draft = tx[s].src]
            /\ End(s)
            /\ UNCHANGED <<module_fence, definition, revisions, ui_revisions>>
       ELSE Refused(s)
    /\ UNCHANGED <<admitted, left>>

Expected(s) ==
    /\ overlay.draft_generation = tx[s].draft_generation
    /\ overlay.active_generation = tx[s].active_generation
    /\ overlay.lifecycle # "retired"

\* An identical edit invents no generation.
EditOverlay(s) ==
    /\ tx[s].pc = "locked" /\ tx[s].op = "edit_ui"
    /\ \E same \in BOOLEAN :
        IF /\ CaptureMembers(s) /\ Expected(s)
           /\ ~(same /\ overlay.draft = tx[s].src)
        THEN /\ overlay' = [overlay EXCEPT !.draft = tx[s].src, !.draft_generation = @ + 1]
             /\ End(s)
             /\ UNCHANGED <<module_fence, definition, revisions, ui_revisions>>
        ELSE Refused(s)
    /\ UNCHANGED <<admitted, left>>

\* The pins to be released are locked and still current.
ActivePinsCurrent(s) ==
    LET old == Pins(ui_revisions, overlay.active) IN
    \A m \in DOMAIN old : tx[s].held[m] # "none" /\ old[m] = Identity(m)

\* The seal trigger: the members bound are the durable identities, all of them.
Sealed(members) == members # EmptyMap /\ \A m \in DOMAIN members : HasRow(m) /\ members[m] = Identity(m)

PublishOverlay(s) ==
    LET old == Pins(ui_revisions, overlay.active) IN
    /\ tx[s].pc = "locked" /\ tx[s].op = "publish_ui"
    /\ IF /\ CaptureMembers(s) /\ Expected(s) /\ ActivePinsCurrent(s)
          /\ overlay.draft = tx[s].src
          /\ Sealed(tx[s].src) /\ BindingsMove(old, tx[s].src)
       THEN /\ ui_revisions' = Append(ui_revisions, tx[s].src)
            /\ overlay' = Activate(overlay, Len(ui_revisions) + 1)
            /\ Rebind(old, tx[s].src)
            /\ End(s)
            /\ UNCHANGED <<definition, revisions>>
       ELSE Refused(s)
    /\ UNCHANGED <<admitted, left>>

ReactivateOverlay(s) ==
    LET old == Pins(ui_revisions, overlay.active)
        new == ui_revisions[tx[s].target] IN
    /\ tx[s].pc = "locked" /\ tx[s].op = "reactivate_ui"
    /\ IF /\ CaptureMembers(s) /\ Expected(s) /\ ActivePinsCurrent(s)
          /\ new = tx[s].src
          /\ BindingsMove(old, new)
       THEN /\ overlay' = Activate(overlay, tx[s].target)
            /\ Rebind(old, new)
            /\ End(s)
            /\ UNCHANGED <<definition, revisions, ui_revisions>>
       ELSE Refused(s)
    /\ UNCHANGED <<admitted, left>>

RetireOverlay(s) ==
    LET old == Pins(ui_revisions, overlay.active) IN
    /\ tx[s].pc = "locked" /\ tx[s].op = "retire_ui"
    /\ IF /\ CaptureMembers(s) /\ Expected(s) /\ ActivePinsCurrent(s)
          /\ BindingsMove(old, EmptyMap)
       THEN /\ overlay' = Retired(overlay)
            /\ Rebind(old, EmptyMap)
            /\ End(s)
            /\ UNCHANGED <<definition, revisions, ui_revisions>>
       ELSE Refused(s)
    /\ UNCHANGED <<admitted, left>>

\* An active overlay is applied only if its compatibility digest is the composition's.
StillServable(s) ==
    /\ CaptureMembers(s)
    /\ overlay.lifecycle = "published" => Pins(ui_revisions, overlay.active) = tx[s].src

\* ResolvePublishedUI and ReadUIOverlay answer, and keep their locks until they complete.
Serve(s) ==
    /\ tx[s].pc = "locked" /\ tx[s].op \in {"resolve_ui", "read_ui"}
    /\ IF (tx[s].op = "resolve_ui" /\ StillServable(s)) \/ (tx[s].op = "read_ui" /\ CaptureMembers(s))
       THEN tx' = [tx EXCEPT ![s].pc = "served", ![s].active = overlay.active]
       ELSE End(s)
    /\ UNCHANGED <<module_fence, admitted, definition, revisions, overlay, ui_revisions, left>>

Complete(s) ==
    /\ tx[s].pc = "served"
    /\ End(s)
    /\ UNCHANGED <<module_fence, admitted, definition, revisions, overlay, ui_revisions, left>>

\* The invocation, the caller's scope or a permission is refused: before anything is locked,
\* or by the permission fence that runs when the operation completes.
Denied(s) ==
    /\ tx[s].pc \in {"expecting", "locked", "served"}
    /\ End(s)
    /\ UNCHANGED <<module_fence, admitted, definition, revisions, overlay, ui_revisions, left>>

-----------------------------------------------------------------------------
Continue(s) ==
    \/ LockModule(s) \/ LockRow(s) \/ LockTimeout(s)
    \/ ActivationRead(s) \/ ActivationWrite(s) \/ CommitActivation(s)
    \/ PublishContributions(s) \/ ActivationFails(s)
    \/ BeginDefinition(s) \/ BeginUI(s)
    \/ EditDraft(s) \/ Publish(s) \/ Reactivate(s) \/ Retire(s)
    \/ CreateOverlay(s) \/ EditOverlay(s) \/ PublishOverlay(s) \/ ReactivateOverlay(s)
    \/ RetireOverlay(s) \/ Serve(s) \/ Complete(s)

Next ==
    \E s \in Sessions :
        \/ StartActivation(s) \/ Disable(s) \/ CreateDefinition(s)
        \/ PreflightDefinition(s) \/ ReadDefinition(s) \/ ReadOverlay(s)
        \/ Denied(s) \/ Continue(s)

\* A transaction that can proceed eventually does: PostgreSQL grants free locks.
Spec == Init /\ [][Next]_vars /\ \A s \in Sessions : WF_vars(Continue(s))

-----------------------------------------------------------------------------
(* Properties.                                                               *)

TypeOK ==
    /\ \A m \in Modules : module_fence[m].active_bindings \in Nat
    /\ \A o \in {definition, overlay} :
        /\ o.lifecycle \in {"none", "draft", "published", "retired"}
        /\ o.lifecycle = "published" <=> o.active # 0
    /\ \A s \in Sessions : left[s] \in 0..MaxCommands[s]

ActivePins == <<Pins(revisions, definition.active), Pins(ui_revisions, overlay.active)>>

\* A resolution that has been answered and not yet completed was composed from the durable
\* identities and from an overlay published for exactly them, and it stays so.
ServedIsCompatible ==
    \A s \in Sessions : tx[s].pc = "served" =>
        /\ \A m \in DOMAIN tx[s].src : Identity(m) = tx[s].src[m]
        /\ tx[s].active = overlay.active
        /\ (tx[s].op = "resolve_ui" /\ tx[s].active # 0)
            => ui_revisions[tx[s].active] = tx[s].src

\* The fence is exact: every active revision pins the identities the modules durably have,
\* each module counts exactly the revisions that pin it, and what a resolver serves agrees.
FenceSound ==
    /\ TypeOK
    /\ \A i \in DOMAIN ActivePins : \A m \in DOMAIN ActivePins[i] :
            ActivePins[i][m] = Identity(m)
    /\ \A m \in Modules : module_fence[m].active_bindings =
            Cardinality({i \in DOMAIN ActivePins : m \in DOMAIN ActivePins[i]})
    /\ ServedIsCompatible

\* A revision becomes active only from the draft, the active revision and the module
\* identities its publisher was shown; history is only appended to; and a retired definition
\* or overlay never comes back.
PublishesAsShown ==
    /\ (definition'.active # definition.active /\ definition'.active # 0) =>
         \E s \in Sessions :
             /\ tx[s].op \in {"publish", "reactivate"} /\ tx[s].pc = "locked"
             /\ tx[s].active_generation = definition.active_generation
             /\ revisions'[definition'.active] = tx[s].ids
             /\ tx[s].op = "publish" =>
                 /\ tx[s].draft_generation = definition.draft_generation
                 /\ DOMAIN tx[s].ids = DOMAIN definition.draft
    /\ (overlay'.active # overlay.active /\ overlay'.active # 0) =>
         \E s \in Sessions :
             /\ tx[s].op \in {"publish_ui", "reactivate_ui"} /\ tx[s].pc = "locked"
             /\ tx[s].active_generation = overlay.active_generation
             /\ tx[s].draft_generation = overlay.draft_generation
    /\ SubSeq(revisions', 1, Len(revisions)) = revisions
    /\ SubSeq(ui_revisions', 1, Len(ui_revisions)) = ui_revisions
    /\ definition.lifecycle = "retired" => definition'.lifecycle = "retired"
    /\ overlay.lifecycle = "retired" => overlay'.lifecycle = "retired"

PublishedAsShown == [][PublishesAsShown]_vars

\* No command and no activation is under way.
Settled == \A s \in Sessions : tx[s].pc = "idle"
=============================================================================
