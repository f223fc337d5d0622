------------------------------ MODULE MCPolicy ------------------------------
(***************************************************************************)
(* PolicyAuthority for TLC.  A behaviour plays one of four scenes, each    *)
(* with its tables at the start and the commands its callers issue; they   *)
(* are explored side by side in one run.                                   *)
(***************************************************************************)
EXTENDS PolicyAuthority, TLC

CONSTANTS a, b, c, r1, r2, r3, r4, p, q, site

VARIABLE scene

AllTime == [from |-> 0, to |-> Forever]
Late == [from |-> 1, to |-> Forever]

TwoWindows == {AllTime, Late}

Row(s, r, sc, w) == [subject |-> s, role |-> r, scope |-> sc,
                     from |-> w.from, to |-> w.to]

\* r2 inherits from r1, which grants p; r3 grants q; a holds r1.
Configured ==
    [roles |-> (r1 :> NoRole @@ r2 :> r1 @@ r3 :> NoRole),
     perms |-> {<<r1, p>>, <<r3, q>>},
     assignments |-> {Row(a, r1, Tenant, AllTime)},
     delegations |-> {}, rules |-> {}]

\* A hierarchy one level short of the deepest that is allowed.
Deep ==
    [roles |-> (r1 :> NoRole @@ r2 :> r1), perms |-> {<<r1, p>>},
     assignments |-> {}, delegations |-> {}, rules |-> {}]

\* One role that grants p; a holds it for the tenant.
OneRole ==
    [roles |-> (r1 :> NoRole), perms |-> {<<r1, p>>},
     assignments |-> {Row(a, r1, Tenant, AllTime)},
     delegations |-> {}, rules |-> {}]

MCSeeds == {Configured, Deep, OneRole}

\* What each scene starts with, which commands it issues, and how many
\* rows there may be in all.
Scene == [
    conflicts  |-> [seed |-> Configured, rows |-> 8,
                    ops |-> {"assignPermission", "assignRole", "createRule",
                             "delegate", "revoke", "createDetectiveRule"}],
    roles      |-> [seed |-> Deep, rows |-> 6,
                    ops |-> {"createRole", "assignRole", "createRule", "revoke"}],
    delegation |-> [seed |-> OneRole, rows |-> 6,
                    ops |-> {"assignRole", "delegate", "revoke"}],
    permit     |-> [seed |-> OneRole, rows |-> 5,
                    ops |-> {"delegate", "revoke", "authorize", "membership"}]]

\* Scopes and roles that a scene has no use for are left out of its commands.
Issued(cmd) ==
    /\ cmd.op \in Scene[scene].ops
    /\ IF cmd.op = "revoke" THEN cmd.id <= MaxRows ELSE RowCount < Scene[scene].rows
    /\ cmd.op = "assignRole" =>
         /\ scene # "delegation" => cmd.row.scope = Tenant /\ cmd.row.subject # c
         /\ scene = "delegation" => cmd.row.role = r1 /\ cmd.row.from = 0
    /\ cmd.op = "delegate" =>
         /\ scene = "conflicts" => cmd.scope = Tenant /\ c \notin {cmd.delegator, cmd.delegatee}
         /\ scene # "conflicts" => cmd.role = r1

MCInit ==
    /\ Init
    /\ scene \in DOMAIN Scene
    /\ db = Scene[scene].seed

MCNext ==
    /\ Next
    /\ scene' = scene
    /\ \A t \in Txs : tx[t] = Idle =>
         /\ tx'[t].phase = "locked" => Issued(tx'[t].cmd)
         /\ tx'[t].phase = "permitted" => "authorize" \in Scene[scene].ops
    /\ members' # members => "membership" \in Scene[scene].ops
    /\ db' # db /\ tx' = tx =>
         "createDetectiveRule" \in Scene[scene].ops /\ RowCount < Scene[scene].rows

MCSpec == MCInit /\ [][MCNext]_<<vars, scene>>

\* Only a is named by the seeds.
Symmetry == Permutations(Txs) \cup Permutations(Subjects \ {a})
=============================================================================
