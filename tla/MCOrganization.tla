--------------------------- MODULE MCOrganization ---------------------------
(***************************************************************************)
(* OrganizationScopes for TLC.  A behaviour plays one of two scenes,       *)
(* explored side by side: rows are created below two companies, or rights  *)
(* to a small hierarchy are assigned, delegated, selected and revoked.     *)
(***************************************************************************)
EXTENDS OrganizationScopes, TLC

CONSTANTS p1, p2, p3

VARIABLE scene

Row(k, o, p, u) == [kind |-> k, owner |-> o, parent |-> p, until |-> u]

Fill(rows) == [n \in Nodes |-> IF n \in DOMAIN rows THEN rows[n] ELSE Absent]

\* Two companies of one legal entity
Companies == Fill(<<Row("enterprise_group", 0, 0, Forever), Row("legal_entity", 1, 0, Forever),
                    Row("company", 2, 0, Forever), Row("company", 2, 0, Forever)>>)

\* A company with a unit and a unit below it that closes
Units == Fill(<<Row("enterprise_group", 0, 0, Forever), Row("legal_entity", 1, 0, Forever),
               Row("company", 2, 0, Forever), Row("org_unit", 3, 0, Forever),
               Row("org_unit", 3, 4, 1)>>)

\* A unit, or the company with a unit
MCChoices == {{4}, {5}, {3, 4}}

MCSeeds == {Companies, Units}

Always == [from |-> 0, until |-> Forever]
MCWindows == {Always, [from |-> 0, until |-> 1]}

\* Only structure changes, or only rights do.
MCInit == Init /\ scene = IF node = Units THEN "rights" ELSE "structure"

\* The company or its unit is delegated; only p1 selects by assignment.
Issued(c) ==
    IF c.op = "delegate" THEN c.sel \subseteq {3, 4} ELSE c.via = 0 => c.who = p1

\* p1 is assigned, to the company for good or to its unit for a while.
Granted(r) ==
    r.who = p1 /\ r.scope \in {3, 4} /\ (r.scope = 3 <=> r.window = Always)

\* One membership or one decision of Policy about p1 is withdrawn.
Withdrawn ==
    Cardinality(Principals \ members') + Cardinality((Principals \X Actions) \ policy') <= 1
      /\ policy \ policy' \subseteq {p1} \X Actions

MCNext ==
    /\ Next
    /\ scene' = scene
    /\ IF scene = "structure"
       THEN node' # node /\ \A n \in Nodes : node'[n].until \in {0, Forever}
       ELSE /\ node' = node
            /\ \A t \in Txs : tx[t] = Idle /\ tx'[t] # Idle => Issued(tx'[t])
            /\ \A r \in assigned' \ assigned : Granted(r)
            /\ Withdrawn

MCSpec == MCInit /\ [][MCNext]_<<vars, scene>>

\* p2 and p3 differ in nothing but their names.
Symmetry == Permutations({p2, p3})
=============================================================================
