----------------------------- MODULE MCDatabase ------------------------------
(***************************************************************************)
(* The database for TLC: the protected profiles through which handlers     *)
(* reach it, and the migrations that change its schema.  Migrations run    *)
(* before an application serves, so a behaviour follows one of the two.    *)
(***************************************************************************)
EXTENDS ProtectedDatabase

CONSTANTS
    Deployers, Commands, Releases, Installed, Core, InventoryAt, GraphAt, MaxRuns,
                                                                    \* of SchemaMigrations
    c1, c2, r1, r2, d1, d2

\* No task is called as the lock that nobody holds.
ASSUME DeployersAssumption == "none" \notin Deployers /\ MaxRuns \in Nat

\* Versions are ordered, as numbers here.
ASSUME ReleasesAssumption == \A r \in Releases \cup Installed : r.version \in Nat

VARIABLES scene, db, mlock, parent, child, session, up, down, runs

migrationVars == <<db, mlock, parent, child, session, up, down, runs>>
allVars == <<scene, vars, migrationVars>>

\* Two requests during a rotation, or one during two rotations.
MCCrowds == {{c1, c2, r1}, {c1, r1, r2}}

\* A SECURITY DEFINER function ordinary sessions may call: unsafe for every profile.
MCDrifting == {<<"indirect", "definer">>}

-----------------------------------------------------------------------------
(* A module in five releases, over two revisions of the framework.           *)
Rev(id, owner, parents, dependencies, labels) ==
    [id |-> id, owner |-> owner, parents |-> parents, dependencies |-> dependencies,
     labels |-> labels, fingerprint |-> 1]

C1 == Rev("c1", "core", {}, {}, {"core_ns"})
C2 == Rev("c2", "core", {"c1"}, {}, {})
M1 == Rev("m1", "mod", {}, {"c1"}, {"mod_ns"})
M2 == Rev("m2", "mod", {"m1"}, {}, {})

Version(version, revisions) ==
    [version |-> version, revisions |-> revisions,
     namespace |-> [core |-> "core_ns", mod |-> "mod_ns"],
     allowed |-> [core |-> {}, mod |-> {"core"}]]

First == Version(1, {C1, C2, M1})

\* Before the graph columns; first; grown; rewritten; with a cycle.
MCReleases ==
    {Version(1, {C1, M1}), First, Version(2, {C1, C2, M1, M2}),
     Version(2, {C1, C2, [M1 EXCEPT !.fingerprint = 2]}),
     Version(2, {C1, C2, [M1 EXCEPT !.dependencies = {"m2"}], M2})}

\* The first release may have been deployed before.
MCInstalled == {First}

Migrations == INSTANCE SchemaMigrations WITH lock <- mlock

-----------------------------------------------------------------------------
Off == "off"

\* The authority stays at its start while migrations run.
ProtectedOff == Init /\ profile = "governance" /\ client[c2].pc = "ended"
MigrationsOff ==
    /\ db = Off /\ mlock = Off /\ parent = Off /\ child = Off /\ session = Off /\ up = Off
    /\ down = Off /\ runs = Off

MCInit ==
    /\ scene \in {"protected", "migrations"}
    /\ IF scene = "protected" THEN Init ELSE ProtectedOff
    /\ IF scene = "migrations" THEN Migrations!Init ELSE MigrationsOff

MCNext ==
    \/ scene = "protected" /\ Next /\ UNCHANGED <<scene, migrationVars>>
    \/ scene = "migrations" /\ Migrations!Next /\ UNCHANGED <<scene, vars>>

\* The fairness of each specification, in its own scene.
MCSpec ==
    /\ MCInit /\ [][MCNext]_allVars
    /\ WF_vars(scene = "protected" /\ Progress)
    /\ WF_migrationVars(scene = "migrations" /\ Migrations!Progress)

-----------------------------------------------------------------------------
\* What a migration's caller is told is what the database did, whatever crashed or was
\* cancelled (SchemaMigrations).
OutcomeIsDurable == scene = "migrations" => Migrations!OutcomeIsDurable

\* A transaction is handed out only on what has just been validated (ProtectedDatabase), and
\* no migration rewrites the history another has recorded (SchemaMigrations).
CheckedIsCurrent ==
    [][/\ scene = "protected" => Enters
       /\ scene = "migrations" => Migrations!HistoryGrows]_allVars

\* Every admission that has begun comes to an end: nobody waits forever for the authority's
\* lock, a key or a connection, and every disposal completes.  A cancelled migration, or one
\* whose child is lost, returns, even if the child hangs in a statement (_stop_process).
DatabaseWorkEnds ==
    <>[](/\ scene = "protected" => Settled
         /\ scene = "migrations" => Migrations!Settled)
=============================================================================
