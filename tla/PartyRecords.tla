---------------------------- MODULE PartyRecords ----------------------------
(***************************************************************************)
(* One tenant's parties (party/module.py, custom_fields.py): numbers are   *)
(* drawn at random and inserted under a unique index, a bounded number of  *)
(* times; contacts, addresses, identifiers and relationships are added to  *)
(* a party; tenant-defined values are written under the party's row lock,  *)
(* by a schema that another transaction reads; readers page by offset,     *)
(* load a whole party one statement at a time and look for duplicates.     *)
(***************************************************************************)
EXTENDS Integers, FiniteSets, FiniteSetsExt

CONSTANTS
    Sessions,           \* numbers of the writing sessions; session s creates party s
    Numbers,            \* party numbers that can be drawn
    MaxAttempts,        \* _PARTY_NUMBER_ATTEMPTS
    Values,             \* values of contacts, identifiers and profiles
    MaxChildren,        \* bound: rows of all parties
    MaxFull,            \* _FULL_PARTY_MAX_CHILDREN
    MatchRows,          \* rows of a statement that looks for duplicates (100)
    MatchLimit,         \* query.limit of match_duplicates
    MaxRevisions,       \* bound: revisions of the field set
    MaxVersion,         \* bound: versions of custom values
    Limit,              \* rows of a page
    Budgets             \* bound: how often each kind of command runs

VARIABLES
    party,              \* id -> number, kind, name, profile and whether active, or None
    rows,               \* contacts, addresses, identifiers and relationships
    custom,             \* id -> version, pinned revision and cleared flag of its values
    fieldset,           \* active revision of the published field set (0: retired), and latest
    tx,                 \* session -> its transaction
    reader, left

vars == <<party, rows, custom, fieldset, tx, reader, left>>

Ids == Sessions \cup {0}
Names == {"ann", "bob"}
Kinds == {"person", "organization"}
Providers == {"vat", "VAT"}
None == [number |-> "none"]
NoValues == [version |-> 0, revision |-> 0, cleared |-> FALSE]
Idle == [pc |-> "idle"]
Parties == {p \in Ids : party[p] # None}

Init ==
    /\ party = [p \in Ids |-> IF p # 0 THEN None ELSE
                  [number |-> CHOOSE n \in Numbers : TRUE, kind |-> "person", name |-> "ann",
                   profile |-> CHOOSE v \in Values : TRUE, active |-> TRUE]]
    /\ rows = {}
    /\ custom = [p \in Ids |-> NoValues]
    /\ fieldset = [active |-> 1, latest |-> 1]
    /\ tx = [s \in Sessions |-> Idle]
    /\ reader = Idle
    /\ left \in Budgets

Spend(x) == left[x] > 0 /\ left' = [left EXCEPT ![x] = @ - 1]
End(s) == tx' = [tx EXCEPT ![s] = Idle]

-----------------------------------------------------------------------------
(* Creating a party.                                                         *)

BeginCreate(s) ==
    /\ tx[s].pc = "idle" /\ party[s] = None /\ Spend("create")
    /\ tx' = [tx EXCEPT ![s] = [pc |-> "draw", attempts |-> 0, number |-> "none"]]
    /\ UNCHANGED <<party, rows, custom, fieldset, reader>>

DrawNumber(s) ==
    /\ tx[s].pc = "draw"
    /\ \/ /\ tx[s].attempts < MaxAttempts
          /\ \E n \in Numbers :
               tx' = [tx EXCEPT ![s] = [pc |-> "insert", attempts |-> @.attempts + 1, number |-> n]]
       \/ tx[s].attempts = MaxAttempts /\ End(s)
    /\ UNCHANGED <<party, rows, custom, fieldset, reader, left>>

Taken(n) == \E p \in Parties : party[p].number = n
\* An uncommitted row with the same number makes the insert wait for its transaction.
Contended(s) == \E o \in Sessions \ {s} : tx[o].pc = "inserted" /\ tx[o].number = tx[s].number

InsertParty(s) ==
    /\ tx[s].pc = "insert" /\ ~Contended(s)
    /\ tx' = [tx EXCEPT ![s].pc = IF Taken(tx[s].number) THEN "draw" ELSE "inserted"]
    /\ UNCHANGED <<party, rows, custom, fieldset, reader, left>>

\* The profile and the event are part of the same transaction.
CommitParty(s) ==
    /\ tx[s].pc = "inserted"
    /\ \E kind \in Kinds, name \in Names, profile \in Values \cup {"none"} :
         party' = [party EXCEPT ![s] = [number |-> tx[s].number, kind |-> kind, name |-> name,
                                        profile |-> profile, active |-> TRUE]]
    /\ End(s)
    /\ UNCHANGED <<rows, custom, fieldset, reader, left>>

-----------------------------------------------------------------------------
(* Custom values.                                                            *)

PartyLock(s, p) ==
    \A o \in Sessions \ {s} : ~ (tx[o].pc \in {"row", "schema", "write"} /\ tx[o].party = p)

BeginValues(s) ==
    /\ tx[s].pc = "idle" /\ Spend("values")
    /\ \E p \in Parties, clear \in BOOLEAN :
         /\ custom[p].version < MaxVersion
         /\ tx' = [tx EXCEPT ![s] = [pc |-> "facts", party |-> p, clear |-> clear,
                                     expected |-> custom[p].version, revision |-> 0]]
    /\ UNCHANGED <<party, rows, custom, fieldset, reader>>

LockedFacts(s) ==
    /\ tx[s].pc = "facts" /\ PartyLock(s, tx[s].party)
    /\ tx' = [tx EXCEPT ![s] = IF party[@.party].active THEN [@ EXCEPT !.pc = "row"] ELSE Idle]
    /\ UNCHANGED <<party, rows, custom, fieldset, reader, left>>

LockValues(s) ==
    /\ tx[s].pc = "row"
    /\ tx' = [tx EXCEPT ![s] = IF custom[@.party].version = @.expected
                               THEN [@ EXCEPT !.pc = "schema"] ELSE Idle]
    /\ UNCHANGED <<party, rows, custom, fieldset, reader, left>>

\* Clearing keeps the pin of what is cleared; anything else needs a published revision.
Retained(s) == tx[s].clear /\ tx[s].expected > 0
ResolveSchema(s) ==
    LET revision == IF Retained(s) THEN custom[tx[s].party].revision ELSE fieldset.active IN
    /\ tx[s].pc = "schema"
    /\ tx' = [tx EXCEPT ![s] = IF revision # 0
                               THEN [@ EXCEPT !.pc = "write", !.revision = revision] ELSE Idle]
    /\ UNCHANGED <<party, rows, custom, fieldset, reader, left>>

WriteValues(s) ==
    /\ tx[s].pc = "write"
    /\ custom' = [custom EXCEPT ![tx[s].party] =
         [version |-> tx[s].expected + 1, revision |-> tx[s].revision, cleared |-> tx[s].clear]]
    /\ End(s)
    /\ UNCHANGED <<party, rows, fieldset, reader, left>>

\* A refused value, a lost permission, a failure or a crash.
Rollback(s) ==
    /\ tx[s].pc # "idle" /\ End(s)
    /\ UNCHANGED <<party, rows, custom, fieldset, reader, left>>

-----------------------------------------------------------------------------
(* Commands of one statement.                                                *)

UpdateParty ==
    \E p \in Parties, name \in Names, active \in BOOLEAN :
        /\ Spend("update") /\ PartyLock(0, p)
        /\ party' = [party EXCEPT ![p].name = name, ![p].active = active]
        /\ UNCHANGED <<rows, custom, fieldset, tx, reader>>

Row(table, id, p, value, flag) ==
    [table |-> table, id |-> id, party |-> p, value |-> value, flag |-> flag]
Of(table, p) == {r \in rows : r.table = table /\ r.party = p}
\* Row ids are random, so a new row comes anywhere in the order of the ids.
Fresh == (1..MaxChildren) \ {r.id : r \in rows}

AddContact(p) ==
    \E id \in Fresh, value \in Values, verified \in BOOLEAN :
        rows' = rows \cup {Row("contact", id, p, value, verified)}

\* The address is looked up by a query of its own, which keeps no lock; none is ever removed.
AssignAddress(p) == \E id \in Fresh : rows' = rows \cup {Row("address", id, p, "none", FALSE)}

AddIdentifier(p) ==
    \E id \in Fresh, provider \in Providers, value \in Values, sensitive \in BOOLEAN :
        /\ ~ \E r \in rows : r.table = "identifier" /\ r.value = <<provider, value>>
        /\ rows' = rows \cup {Row("identifier", id, p, <<provider, value>>, sensitive)}

AddRelationship(p) ==
    \E id \in Fresh, to \in Parties :
        /\ PartyLock(0, to)
        /\ rows' = rows \cup {Row("relationship", id, p, to, FALSE)}

\* The foreign key shares the party's row, which a writer of its values holds.
AddChild ==
    \E p \in Parties :
        /\ Spend("child") /\ PartyLock(0, p)
        /\ AddContact(p) \/ AssignAddress(p) \/ AddIdentifier(p) \/ AddRelationship(p)
        /\ UNCHANGED <<party, custom, fieldset, tx, reader>>

ChangeFieldset ==
    /\ Spend("fieldset")
    /\ \/ /\ fieldset.active # 0 /\ fieldset.latest < MaxRevisions
          /\ fieldset' = [active |-> fieldset.latest + 1, latest |-> fieldset.latest + 1]
       \/ fieldset' = [fieldset EXCEPT !.active = 0]
    /\ UNCHANGED <<party, rows, custom, tx, reader>>

-----------------------------------------------------------------------------
(* Readers.                                                                  *)

Page(set, offset, limit) == {r \in set : Cardinality({q \in set : q.id < r.id}) \in offset..(offset + limit - 1)}

ListContacts(p) == Of("contact", p)
ListAddresses(p) == Of("address", p)
ListIdentifiers(p, sensitive) == {r \in Of("identifier", p) : sensitive \/ ~r.flag}
ListRelationships(p) == {r \in rows : r.table = "relationship" /\ p \in {r.party, r.value}}
Listed(list, p, sensitive) ==
    CASE list = "contact" -> ListContacts(p)
      [] list = "address" -> ListAddresses(p)
      [] list = "identifier" -> ListIdentifiers(p, sensitive)
      [] list = "relationship" -> ListRelationships(p)

\* A whole party shows its contacts only to a sensitive reader.
Shown(table, p, sensitive) ==
    IF table = "contact" /\ ~sensitive THEN {} ELSE Listed(table, p, sensitive)
FullTables == {"contact", "address", "identifier"}

ReaderOf(pc, list, p, sensitive, owed) ==
    [pc |-> pc, list |-> list, party |-> p, sensitive |-> sensitive, offset |-> 0,
     seen |-> {}, owed |-> owed]

BeginList ==
    /\ reader = Idle /\ Spend("list")
    /\ \E p \in Parties, sensitive \in BOOLEAN, list \in FullTables \cup {"relationship"} :
         reader' = ReaderOf("open", list, p, sensitive, Listed(list, p, sensitive))
    /\ UNCHANGED <<party, rows, custom, fieldset, tx>>

NextPage ==
    LET page == Page(Listed(reader.list, reader.party, reader.sensitive), reader.offset, Limit) IN
    /\ reader.pc = "open"
    /\ reader' = [reader EXCEPT !.offset = @ + Limit, !.seen = @ \cup page,
                                !.pc = IF page = {} THEN "done" ELSE "open"]
    /\ UNCHANGED <<party, rows, custom, fieldset, tx, left>>

LoadFullParty ==
    /\ reader = Idle /\ Spend("list")
    /\ \E p \in Parties, sensitive \in BOOLEAN :
         reader' = ReaderOf("load", "contact", p, sensitive,
                            UNION {Shown(t, p, sensitive) : t \in FullTables})
    /\ UNCHANGED <<party, rows, custom, fieldset, tx>>

Following(table) == IF table = "contact" THEN "address" ELSE "identifier"

\* Each table is a statement of its own; one row more than allowed is asked for.
LoadTable ==
    LET page == Page(Shown(reader.list, reader.party, reader.sensitive), 0, MaxFull + 1) IN
    /\ reader.pc = "load"
    /\ reader' = [reader EXCEPT !.seen = @ \cup page, !.list = Following(@),
                                !.pc = IF Cardinality(page) > MaxFull THEN "rejected"
                                       ELSE IF reader.list = "identifier" THEN "done" ELSE "load"]
    /\ UNCHANGED <<party, rows, custom, fieldset, tx, left>>

\* Who looks like a party: a statement for each of its verified contacts and of its
\* identifiers, and one for its profile.  Every statement is cut after MatchRows rows.
Verified(p) == {c \in Of("contact", p) : c.flag}
ContactMatches(c) == {d \in rows : d.table = "contact" /\ d.flag /\ d.value = c.value}
\* Providers are compared without case, unlike the index that keeps identifiers apart.
IdentifierMatches(i) == {j \in rows : j.table = "identifier" /\ j.value[2] = i.value[2]}
Alike(p, q) ==
    /\ party[p].profile # "none" /\ party[q].profile = party[p].profile
    /\ party[q].kind = party[p].kind
    /\ party[p].kind = "person" => party[q].name = party[p].name
ProfileMatches(p) == {[party |-> q] : q \in {o \in Parties : Alike(p, o)}}
Statements(p) ==
    {ContactMatches(c) : c \in Page(Verified(p), 0, MatchRows)}
    \cup {IdentifierMatches(i) : i \in Page(Of("identifier", p), 0, MatchRows)}
    \cup {ProfileMatches(p)}

\* Rows come by party; the parties named, without the source, are listed up to MatchLimit.
Named(found) ==
    {q \in Parties : /\ \E r \in found : r.party = q
                     /\ Cardinality({o \in found : o.party < q}) < MatchRows}
Eligible(p, q) == p # q /\ party[q].kind = party[p].kind
Candidates(p) == {q \in Parties : Eligible(p, q) /\ \E found \in Statements(p) : q \in Named(found)}
MatchDuplicates(p) ==
    {q \in Candidates(p) : Cardinality({o \in Candidates(p) : o < q}) < MatchLimit}

\* No statement of a party's is cut, nor is its list.
Uncut(p) ==
    /\ Cardinality(Verified(p)) <= MatchRows /\ Cardinality(Of("identifier", p)) <= MatchRows
    /\ \A found \in Statements(p) : Cardinality(found) <= MatchRows
    /\ Cardinality(Candidates(p)) <= MatchLimit

ResolveByExternalId(provider, value) ==
    {r.party : r \in {i \in rows : i.table = "identifier" /\ i.value = <<provider, value>>}}

-----------------------------------------------------------------------------
Step(s) ==
    \/ DrawNumber(s) \/ InsertParty(s) \/ CommitParty(s)
    \/ LockedFacts(s) \/ LockValues(s) \/ ResolveSchema(s) \/ WriteValues(s)

Next ==
    \/ \E s \in Sessions : BeginCreate(s) \/ BeginValues(s) \/ Step(s) \/ Rollback(s)
    \/ UpdateParty \/ AddChild \/ ChangeFieldset
    \/ BeginList \/ NextPage \/ LoadFullParty \/ LoadTable

\* Waits end: the transaction waited for commits, or is rolled back.
Spec == Init /\ [][Next]_vars /\ \A s \in Sessions : WF_vars(Step(s))

-----------------------------------------------------------------------------
TypeOK ==
    /\ \A p \in Parties : party[p].number \in Numbers /\ party[p].name \in Names
    /\ \A p \in Ids : custom[p].version \in 0..MaxVersion /\ custom[p].revision \in 0..MaxRevisions
    /\ fieldset.active \in 0..fieldset.latest

\* Two parties never share a number however many creators draw it at once, written values are
\* pinned to a revision that was published, an external identifier names one party, a list
\* and a whole party show every row that was there when they began (a party with too many
\* is refused, never cut short) and only what the reader may see, and whoever lists a party
\* as its duplicate is listed by it, unless it has more matches than a statement looks at or
\* the answer holds.
PartiesSound ==
    /\ TypeOK
    /\ \A p, q \in Parties : party[p].number = party[q].number => p = q
    /\ \A p \in Ids : custom[p].version > 0 => custom[p].revision \in 1..fieldset.latest
    /\ \A r \in Providers, v \in Values : Cardinality(ResolveByExternalId(r, v)) <= 1
    /\ reader.pc = "done" => reader.owed \subseteq reader.seen
    /\ reader.pc = "done" /\ ~reader.sensitive =>
         ~ \E r \in reader.seen : r.table = "identifier" /\ r.flag
    /\ \A p, q \in Parties : p \in MatchDuplicates(q) /\ Uncut(p) => q \in MatchDuplicates(p)

\* Values change only while their party is active, by one version at a time: an update that
\* deactivates the party waits for the writer or stops it.
ValuesChanged ==
    \A p \in Ids : custom'[p] # custom[p] =>
        /\ party[p] # None /\ party[p].active
        /\ custom'[p].version = custom[p].version + 1

\* Every creation and every write ends.
Settled == \A s \in Sessions : tx[s].pc = "idle"
=============================================================================
