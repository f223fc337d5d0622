------------------------ MODULE ProtectedDatabaseProofs -----------------------
(***************************************************************************)
(* For every number of requests, rotations and pools: no pool is disposed  *)
(* under a use, its lease count is exact, no pool is left open unattended, *)
(* a failed rotation's pool never serves again, keyed mutations run one at *)
(* a time in order, and a transaction is handed out on the verdict of its  *)
(* own validation.                                                         *)
(*                                                                         *)
(* The governance and metadata authorities protect a selection by holding  *)
(* the lock while they validate; the publication authority by its lease.   *)
(* One invariant covers both: whoever validates without a lease holds the  *)
(* lock, and while it is held the serving pool cannot change.              *)
(*                                                                         *)
(* And for every number of deployers and every set of releases: what a     *)
(* migration's caller is told is what the database did, and no migration   *)
(* rewrites the history another has recorded.  The invariant follows the   *)
(* protocol of one deployer (at most one phase is unanswered, an answer is *)
(* on its way or the phase is in the pipe, never both); the lock is all    *)
(* that two deployers share.                                               *)
(***************************************************************************)
EXTENDS MCDatabase, TLAPS, FiniteSetTheorems, SequenceTheorems, WellFoundedInduction

Working == {"validate", "recheck", "enter", "unit", "release"}

ClientRecord ==
    [pc : ClientStates, command : BOOLEAN, keys : SUBSET Keys, pool : Pools \cup {NoPool},
     check : Nat, since : Nat, revoke : BOOLEAN, lost : BOOLEAN]

RotatorRecord ==
    [pc : RotatorStates, pool : Pools \cup {NoPool}, selected : Pools \cup {NoPool}, check : Nat]

\* TypeOK without the bound on leases, and the types of the records and of the queue
BaseTypes ==
    /\ profile \in Profiles
    /\ generation \in {"active", "draining"}
    /\ active \in Pools \cup {NoPool}
    /\ leases \in [Pools -> Int]
    /\ pool \in [Pools -> {"unborn", "open", "closing", "closed"}]
    /\ closed \in {"no", "closing", "yes"}
    /\ lock \in Clients \cup {NoPool}
    /\ changes \in 0 .. MaxChanges
    /\ Len(tickets) <= TicketLimit
    /\ client \in [Clients -> ClientRecord]
    /\ rotator \in [Rotators -> RotatorRecord]
    /\ tickets \in Seq(Clients)

\* Which fields go with which program counter
LocalOf(c) ==
    /\ client[c].pc \in Working => client[c].pool \in Pools /\ ~ client[c].lost
    /\ client[c].pc \notin Working /\ ~ client[c].lost => client[c].pool = NoPool
    /\ client[c].lost => client[c].pool \in Pools
    /\ client[c].lost => client[c].pc \in {"unticket", "ended"}
    /\ client[c].pc \in {"idle", "queue", "lock"} => client[c].check = 0
    /\ client[c].pc \in {"idle", "ended"} => client[c].keys = {}

Local == \A c \in Clients : LocalOf(c)

\* No validation counts beyond its last check
CheckBounds ==
    /\ \A c \in Clients : client[c].check <= LastCheck + 1
    /\ \A r \in Rotators : rotator[r].check <= LastCheck + 1

\* The lock is held exactly while governance or metadata validates the pool that serves
Locking(c) == ~ Publication /\ client[c].pc \in {"validate", "recheck"}

LockInv ==
    /\ \A c \in Clients : lock = c <=> Locking(c)
    /\ \A c \in Clients : Locking(c) => client[c].pool = active
    /\ closed = "yes" => active = NoPool

\* A use keeps its pool open; a lease is counted
UseInv ==
    /\ \A p \in Pools, c \in Clients : Using(c, p) => pool[p] = "open"
    /\ active # NoPool => pool[active] = "open"

Holders(p) == {c \in Clients : Holds(c, p)}

LeaseInv == \A p \in Pools : leases[p] = Cardinality(Holders(p))

\* Somebody is responsible for every open pool
Replacing(r) == rotator[r].pc \in {"validate", "cutover"}

AttendedInv ==
    \A p \in Pools : pool[p] = "open" =>
      \/ p = active \/ leases[p] > 0
      \/ \E r \in Rotators : rotator[r].pool = p
            /\ rotator[r].pc \in {"validate", "cutover", "abandoned"}

\* A replacement under way is known to its rotation alone
ReplacementInv ==
    /\ \A c \in Clients : client[c].pool # NoPool => pool[client[c].pool] # "unborn"
    /\ \A r \in Rotators : rotator[r].pool # NoPool => pool[rotator[r].pool] # "unborn"
    /\ \A r \in Rotators : rotator[r].selected # NoPool => pool[rotator[r].selected] # "unborn"
    /\ \A r \in Rotators : Replacing(r) =>
         /\ rotator[r].pool \in Pools
         /\ pool[rotator[r].pool] = "open"
         /\ rotator[r].pool # active
         /\ \A c \in Clients : client[c].pool # rotator[r].pool
         /\ \A s \in Rotators : rotator[s].selected # rotator[r].pool
         /\ \A s \in Rotators : s # r => rotator[s].pool # rotator[r].pool
    /\ \A r \in Rotators : rotator[r].pc = "failed" =>
         rotator[r].selected = NoPool \/ rotator[r].selected # active

PoolInv == UseInv /\ LeaseInv /\ AttendedInv /\ ReplacementInv

\* The queue of keyed mutations
QueueInv ==
    /\ \A i, j \in 1 .. Len(tickets) : tickets[i] = tickets[j] => i = j
    /\ \A i \in 1 .. Len(tickets) : client[tickets[i]].keys # {}
    /\ \A i, j \in 1 .. Len(tickets) :
         j < i /\ client[tickets[i]].keys \cap client[tickets[j]].keys # {} =>
           client[tickets[i]].pc \in {"queue", "unticket"}

\* A verdict holds as long as nothing around it has changed
AllPass == \A k \in 1 .. LastCheck : Passes(Catalog(drift), k)

VerdictInv ==
    \A c \in Clients :
      /\ client[c].since <= changes
      /\ \/ client[c].pc = "validate" /\ client[c].check > LastCheck
         \/ client[c].pc = "recheck"
         => (client[c].since = changes => AllPass)

\* The inductive invariant
AuthorityInv == BaseTypes /\ CheckBounds /\ Local /\ LockInv /\ PoolInv /\ QueueInv /\ VerdictInv

-----------------------------------------------------------------------------
(* Operators of the model. *)

\* Every profile runs a fixed number of checks.
LEMMA LastCheckType == ASSUME profile \in Profiles PROVE LastCheck \in Nat
  <1>1. CASE profile = "governance"  BY <1>1 DEF LastCheck, Checks
  <1>2. CASE profile = "metadata"  BY <1>2 DEF LastCheck, Checks
  <1>3. CASE profile = "publication"  BY <1>3 DEF LastCheck, Checks
  <1> QED BY <1>1, <1>2, <1>3, ProfilesAssumption

\* validate() gets past every check that holds, and stops at one that does not.
LEMMA ReachedFacts ==
    ASSUME profile \in Profiles, NEW catalog, NEW k \in Nat, k <= LastCheck + 1
    PROVE  /\ Reached(catalog, k) \in k .. LastCheck + 1
           /\ \A i \in k .. Reached(catalog, k) - 1 : Passes(catalog, i)
  <1> DEFINE stops == {n \in k .. LastCheck + 1 : n <= LastCheck => ~ Passes(catalog, n)}
  <1>0. LastCheck \in Nat  BY LastCheckType
  <1>1. stops \subseteq Nat /\ LastCheck + 1 \in stops  BY <1>0
  <1> HIDE DEF stops
  <1>2. PICK n \in stops : \A m \in stops : ~ (<<m, n>> \in OpToRel(<, Nat))
    BY <1>1, NatLessThanWellFounded, WFMin
  <1>3. \A m \in stops : ~ m < n  BY <1>1, <1>2 DEF OpToRel
  <1>4. n \in k .. LastCheck + 1 /\ (n <= LastCheck => ~ Passes(catalog, n))
    BY <1>2 DEF stops
  <1>5. \A i \in k .. n - 1 : Passes(catalog, i)  BY <1>0, <1>3, <1>4 DEF stops
  <1> QED BY <1>4, <1>5 DEF Reached

\* What is left of a client that leaves the authority.
LEMMA LeftFacts ==
    ASSUME BaseTypes, NEW c \in Clients
    PROVE  /\ Left(c) \in ClientRecord
           /\ Left(c).pc = IF client[c].keys = {} THEN "ended" ELSE "unticket"
           /\ Left(c).keys = client[c].keys
           /\ Left(c).pool = NoPool /\ Left(c).check = 0 /\ Left(c).since = 0
           /\ Left(c).lost = FALSE /\ Left(c).revoke = FALSE
  BY DEF Left, NewClient, BaseTypes, ClientRecord, ClientStates

-----------------------------------------------------------------------------
(* What each step does to the clients and the rotations. *)

\* Only client c changes, or only rotation r, and to what has its type.
AloneClient(c) ==
    /\ client' \in [Clients -> ClientRecord]
    /\ \A d \in Clients : d # c => client'[d] = client[d]

AloneRotator(r) ==
    /\ rotator' \in [Rotators -> RotatorRecord]
    /\ \A s \in Rotators : s # r => rotator'[s] = rotator[s]

\* Fields a step leaves alone
SameClient(c) ==
    /\ client'[c].pool = client[c].pool
    /\ client'[c].keys = client[c].keys
    /\ client'[c].lost = client[c].lost
    /\ client'[c].command = client[c].command

\* A step that gives one client a new record leaves the other clients alone.
LEMMA SetClient ==
    ASSUME BaseTypes, NEW c \in Clients, NEW f \in ClientRecord,
           client' = [client EXCEPT ![c] = f]
    PROVE  AloneClient(c) /\ client'[c] = f
  BY DEF BaseTypes, AloneClient

\* A step that moves one client and changes nothing else of it.
LEMMA SetPc ==
    ASSUME BaseTypes, NEW c \in Clients, NEW pc \in ClientStates,
           client' = [client EXCEPT ![c].pc = pc]
    PROVE  /\ AloneClient(c) /\ SameClient(c)
           /\ client'[c].pc = pc
           /\ client'[c].check = client[c].check /\ client'[c].since = client[c].since
           /\ client'[c].revoke = client[c].revoke
  <1>1. client[c] \in ClientRecord  BY DEF BaseTypes
  <1>2. [client[c] EXCEPT !.pc = pc] \in ClientRecord  BY <1>1 DEF ClientRecord
  <1>3. client' = [client EXCEPT ![c] = [client[c] EXCEPT !.pc = pc]]  OBVIOUS
  <1>4. AloneClient(c) /\ client'[c] = [client[c] EXCEPT !.pc = pc]  BY <1>2, <1>3, SetClient
  <1> QED BY <1>1, <1>4 DEF SameClient, ClientRecord

\* A client that leaves.
Leaves(c) ==
    /\ client'[c].pc = IF client[c].keys = {} THEN "ended" ELSE "unticket"
    /\ client'[c].keys = client[c].keys
    /\ client'[c].pool = NoPool
    /\ client'[c].check = 0 /\ client'[c].since = 0 /\ client'[c].lost = FALSE

\* A client that leaves gives up everything but its ticket.
LEMMA SetLeft ==
    ASSUME BaseTypes, NEW c \in Clients, client' = [client EXCEPT ![c] = Left(c)]
    PROVE  AloneClient(c) /\ Leaves(c)
  BY LeftFacts, SetClient DEF Leaves

\* A step that gives one rotator a new record leaves the others alone.
LEMMA SetRotator ==
    ASSUME BaseTypes, NEW r \in Rotators, NEW f \in RotatorRecord,
           rotator' = [rotator EXCEPT ![r] = f]
    PROVE  AloneRotator(r) /\ rotator'[r] = f
  BY DEF BaseTypes, AloneRotator

\* Begin
LEMMA BeginEffect ==
    ASSUME BaseTypes, NEW c \in Clients, NEW command \in BOOLEAN, NEW keys \in SUBSET Keys,
           Begin(c, command, keys)
    PROVE  /\ AloneClient(c)
           /\ client[c].pc = "idle"
           /\ client'[c].pool = client[c].pool /\ client'[c].lost = client[c].lost
           /\ client'[c].check = client[c].check /\ client'[c].since = client[c].since
           /\ \/ /\ client'[c].pc = "queue" /\ client'[c].keys = keys /\ keys # {}
                 /\ tickets' = Append(tickets, c) /\ Len(tickets) < TicketLimit
              \/ /\ client'[c].pc \in {"lock", "ended"} /\ client'[c].keys = {}
                 /\ tickets' = tickets
           /\ UNCHANGED <<profile, drift, changes, generation, active, leases, pool, closed, lock,
                          rotator>>
  <1> DEFINE queued == keys # {} /\ closed = "no" /\ Len(tickets) < TicketLimit
             held == IF queued THEN keys ELSE {}
             pc == IF queued THEN "queue" ELSE IF keys = {} THEN "lock" ELSE "ended"
             f == [client[c] EXCEPT !.command = command, !.keys = held, !.pc = pc]
  <1>1. client[c] \in ClientRecord /\ held \in SUBSET Keys /\ pc \in ClientStates
    BY DEF BaseTypes, ClientStates
  <1>2. client' = [client EXCEPT ![c] = f]  BY DEF Begin, BaseTypes
  <1>3. /\ f \in ClientRecord
        /\ f.pc = pc /\ f.keys = held /\ f.pool = client[c].pool /\ f.lost = client[c].lost
        /\ f.check = client[c].check /\ f.since = client[c].since
    <2>1. PICK g \in ClientRecord : g = client[c]  BY <1>1
    <2> HIDE DEF held, pc
    <2>2. f = [g EXCEPT !.command = command, !.keys = held, !.pc = pc]  BY <2>1
    <2>3. f \in ClientRecord  BY <1>1, <2>1, <2>2 DEF ClientRecord
    <2> QED BY <2>1, <2>2, <2>3 DEF ClientRecord
  <1>4. AloneClient(c) /\ client'[c] = f
    <2>1. f \in ClientRecord  BY <1>3
    <2> HIDE DEF f
    <2> QED BY <1>2, <2>1, SetClient
  <1>5. tickets' = IF queued THEN Append(tickets, c) ELSE tickets  BY DEF Begin
  <1>6. CASE queued  BY <1>3, <1>4, <1>5, <1>6 DEF Begin
  <1>7. CASE ~ queued  BY <1>3, <1>4, <1>5, <1>7 DEF Begin
  <1> QED BY <1>6, <1>7

\* Admit, Enter, Finish: the request goes on to its next wait.
LEMMA AdvanceEffect ==
    ASSUME BaseTypes, NEW c \in Clients, Admit(c) \/ Enter(c) \/ Finish(c)
    PROVE  /\ AloneClient(c) /\ SameClient(c)
           /\ client'[c].check = client[c].check /\ client'[c].since = client[c].since
           /\ \/ client[c].pc = "queue" /\ client'[c].pc = "lock" /\ ~ Blocked(c)
              \/ client[c].pc = "enter" /\ client'[c].pc = "unit"
              \/ client[c].pc = "unit" /\ client'[c].pc = "release"
           /\ UNCHANGED <<profile, drift, changes, generation, active, leases, pool, closed, lock,
                          tickets, rotator>>
  <1>1. CASE Admit(c)  BY <1>1, SetPc DEF Admit, ClientStates
  <1>2. CASE Enter(c)  BY <1>2, SetPc DEF Enter, ClientStates
  <1>3. CASE Finish(c)  BY <1>3, SetPc DEF Finish, ClientStates
  <1> QED BY <1>1, <1>2, <1>3

\* GiveUp
LEMMA GiveUpEffect ==
    ASSUME BaseTypes, NEW c \in Clients, GiveUp(c)
    PROVE  /\ AloneClient(c) /\ Leaves(c) /\ client[c].pc = "queue"
           /\ UNCHANGED <<profile, drift, changes, generation, active, leases, pool, closed, lock,
                          tickets, rotator>>
  BY SetLeft DEF GiveUp

\* RemoveTicket
LEMMA RemoveTicketEffect ==
    ASSUME BaseTypes, NEW c \in Clients, RemoveTicket(c)
    PROVE  /\ AloneClient(c)
           /\ client[c].pc = "unticket" /\ client'[c].pc = "ended" /\ client'[c].keys = {}
           /\ client'[c].pool = client[c].pool /\ client'[c].lost = client[c].lost
           /\ client'[c].check = client[c].check /\ client'[c].since = client[c].since
           /\ UNCHANGED <<profile, drift, changes, generation, active, leases, pool, closed, lock,
                          rotator>>
  <1> DEFINE f == [client[c] EXCEPT !.pc = "ended", !.keys = {}]
  <1>1. client[c] \in ClientRecord  BY DEF BaseTypes
  <1>2. client' = [client EXCEPT ![c] = f]  BY DEF RemoveTicket, BaseTypes
  <1>3. /\ f \in ClientRecord /\ f.pc = "ended" /\ f.keys = {} /\ f.pool = client[c].pool
        /\ f.lost = client[c].lost /\ f.check = client[c].check /\ f.since = client[c].since
    BY <1>1 DEF ClientRecord, ClientStates
  <1> HIDE DEF f
  <1> QED BY <1>2, <1>3, SetClient DEF RemoveTicket

\* Select
LEMMA SelectEffect ==
    ASSUME BaseTypes, NEW c \in Clients, Select(c)
    PROVE  /\ AloneClient(c) /\ client[c].pc = "lock" /\ lock = NoPool
           /\ \/ Leaves(c) /\ UNCHANGED <<leases, lock>>
              \/ /\ active \in Pools /\ closed # "yes"
                 /\ client'[c].pc = "validate" /\ client'[c].pool = active
                 /\ client'[c].keys = client[c].keys /\ client'[c].lost = client[c].lost
                 /\ client'[c].check = client[c].check /\ client'[c].since = client[c].since
                 /\ \/ Publication /\ lock' = lock /\ leases' = [leases EXCEPT ![active] = @ + 1]
                    \/ ~ Publication /\ lock' = c /\ leases' = leases
           /\ UNCHANGED <<profile, drift, changes, generation, active, pool, closed, tickets,
                          rotator>>
  <1>1. CASE ~ Admissible(c) \/ active = NoPool \/ Refusing  BY <1>1, SetLeft DEF Select, Free
  <1>2. CASE ~ (~ Admissible(c) \/ active = NoPool \/ Refusing)
    <2> DEFINE f == [client[c] EXCEPT !.pc = "validate", !.pool = active]
    <2>1. client[c] \in ClientRecord /\ active \in Pools /\ closed # "yes"
      BY <1>2 DEF BaseTypes, Refusing
    <2>2. client' = [client EXCEPT ![c] = f]  BY <1>2 DEF Select, BaseTypes
    <2>3. /\ f \in ClientRecord /\ f.pc = "validate" /\ f.pool = active /\ f.keys = client[c].keys
          /\ f.lost = client[c].lost /\ f.check = client[c].check /\ f.since = client[c].since
      BY <2>1 DEF ClientRecord, ClientStates
    <2> HIDE DEF f
    <2>4. AloneClient(c) /\ client'[c] = f  BY <2>2, <2>3, SetClient
    <2> QED BY <1>2, <2>1, <2>3, <2>4 DEF Select, Free
  <1> QED BY <1>1, <1>2

\* Connect
LEMMA ConnectEffect ==
    ASSUME BaseTypes, NEW c \in Clients, Connect(c)
    PROVE  /\ AloneClient(c) /\ SameClient(c)
           /\ client[c].pc = "validate" /\ client'[c].pc = "validate"
           /\ client'[c].check = Reached(Catalog(drift), 1) /\ client'[c].since = changes
           /\ client'[c].check <= LastCheck + 1
           /\ UNCHANGED <<profile, drift, changes, generation, active, leases, pool, closed, lock,
                          tickets, rotator>>
  <1> DEFINE n == Reached(Catalog(drift), 1)
             f == [client[c] EXCEPT !.check = n, !.since = changes]
  <1>1. LastCheck \in Nat /\ profile \in Profiles  BY LastCheckType DEF BaseTypes
  <1>2. n \in 1 .. LastCheck + 1  BY <1>1, ReachedFacts
  <1>3. n \in Nat /\ changes \in Nat  BY <1>1, <1>2, SizesAssumption DEF BaseTypes
  <1>4. client[c] \in ClientRecord  BY DEF BaseTypes
  <1>5. client' = [client EXCEPT ![c] = f]  BY DEF Connect, BaseTypes
  <1> HIDE DEF n
  <1>6. /\ f \in ClientRecord /\ f.pc = client[c].pc /\ f.pool = client[c].pool
        /\ f.keys = client[c].keys /\ f.lost = client[c].lost /\ f.command = client[c].command
        /\ f.check = n /\ f.since = changes
    BY <1>3, <1>4 DEF ClientRecord
  <1> HIDE DEF f
  <1>7. AloneClient(c) /\ client'[c] = f  BY <1>5, <1>6, SetClient
  <1> QED BY <1>1, <1>2, <1>6, <1>7 DEF Connect, SameClient, n

\* Validated
LEMMA ValidatedEffect ==
    ASSUME BaseTypes, NEW c \in Clients, Validated(c)
    PROVE  /\ AloneClient(c) /\ SameClient(c)
           /\ client[c].pc = "validate" /\ client[c].check > LastCheck
           /\ client'[c].pc = "recheck" /\ client'[c].since = client[c].since
           /\ client'[c].check = 0
           /\ UNCHANGED <<profile, drift, changes, generation, active, leases, pool, closed, lock,
                          tickets, rotator>>
  <1> DEFINE f == [client[c] EXCEPT !.pc = "recheck", !.check = 0]
  <1>1. client[c] \in ClientRecord  BY DEF BaseTypes
  <1>2. client' = [client EXCEPT ![c] = f]  BY DEF Validated, BaseTypes
  <1>3. /\ f \in ClientRecord /\ f.pc = "recheck" /\ f.pool = client[c].pool
        /\ f.keys = client[c].keys /\ f.lost = client[c].lost /\ f.command = client[c].command
        /\ f.since = client[c].since /\ f.check = 0
    BY <1>1 DEF ClientRecord, ClientStates
  <1> HIDE DEF f
  <1> QED BY <1>2, <1>3, SetClient DEF Validated, SameClient

\* CheckFails
LEMMA CheckFailsEffect ==
    ASSUME BaseTypes, NEW c \in Clients, CheckFails(c)
    PROVE  /\ AloneClient(c) /\ client[c].pc = "validate"
           /\ \/ /\ Publication /\ client'[c].pc = "release" /\ SameClient(c)
                 /\ client'[c].since = client[c].since /\ client'[c].check = client[c].check
                 /\ UNCHANGED <<active, pool, lock>>
              \/ /\ ~ Publication /\ Leaves(c) /\ active' = NoPool /\ lock' = NoPool
                 /\ pool' = DisposeIf(client[c].pool, leases[client[c].pool] = 0)
           /\ UNCHANGED <<profile, drift, changes, generation, leases, closed, tickets, rotator>>
  <1>1. CASE Publication
    <2> DEFINE f == [client[c] EXCEPT !.pc = "release", !.revoke = TRUE]
    <2>1. client[c] \in ClientRecord  BY DEF BaseTypes
    <2>2. client' = [client EXCEPT ![c] = f]  BY <1>1 DEF CheckFails, BaseTypes
    <2>3. /\ f \in ClientRecord /\ f.pc = "release" /\ f.pool = client[c].pool
          /\ f.keys = client[c].keys /\ f.lost = client[c].lost /\ f.command = client[c].command
          /\ f.since = client[c].since /\ f.check = client[c].check
      BY <2>1 DEF ClientRecord, ClientStates
    <2> HIDE DEF f
    <2> QED BY <1>1, <2>2, <2>3, SetClient DEF CheckFails, SameClient
  <1>2. CASE ~ Publication  BY <1>2, SetLeft DEF CheckFails
  <1> QED BY <1>1, <1>2

\* Recheck
LEMMA RecheckEffect ==
    ASSUME BaseTypes, NEW c \in Clients, Recheck(c)
    PROVE  /\ AloneClient(c) /\ client[c].pc = "recheck"
           /\ lock' = IF Publication THEN lock ELSE NoPool
           /\ \/ /\ StillCurrent(c) /\ client'[c].pc = "enter" /\ SameClient(c)
                 /\ client'[c].since = client[c].since /\ client'[c].check = client[c].check
                 /\ leases' = IF Publication THEN leases
                              ELSE [leases EXCEPT ![client[c].pool] = @ + 1]
              \/ /\ Publication /\ client'[c].pc = "release" /\ SameClient(c)
                 /\ client'[c].since = client[c].since /\ client'[c].check = client[c].check /\ leases' = leases
              \/ ~ Publication /\ Leaves(c) /\ leases' = leases
           /\ UNCHANGED <<profile, drift, changes, generation, active, pool, closed, tickets,
                          rotator>>
  <1>0. client[c] \in ClientRecord /\ client \in [Clients -> ClientRecord]  BY DEF BaseTypes
  <1>1. CASE StillCurrent(c)
    <2>1. client' = [client EXCEPT ![c].pc = "enter"]  BY <1>0, <1>1 DEF Recheck
    <2> QED BY <1>1, <2>1, SetPc DEF Recheck, ClientStates
  <1>2. CASE ~ StillCurrent(c) /\ Publication
    <2>1. client' = [client EXCEPT ![c].pc = "release"]  BY <1>0, <1>2 DEF Recheck
    <2> QED BY <1>2, <2>1, SetPc DEF Recheck, ClientStates
  <1>3. CASE ~ StillCurrent(c) /\ ~ Publication  BY <1>3, SetLeft DEF Recheck
  <1> QED BY <1>1, <1>2, <1>3

\* Interrupt
LEMMA InterruptEffect ==
    ASSUME BaseTypes, NEW c \in Clients, Interrupt(c)
    PROVE  /\ AloneClient(c)
           /\ client[c].pc \in {"lock", "validate", "recheck", "enter"}
           /\ \/ /\ client[c].pc = "enter" \/ (Publication /\ client[c].pc # "lock")
                 /\ client'[c].pc = "release" /\ SameClient(c)
                 /\ client'[c].since = client[c].since /\ lock' = lock
                 /\ client'[c].check = client[c].check
              \/ /\ client[c].pc # "enter" /\ (~ Publication \/ client[c].pc = "lock")
                 /\ Leaves(c) /\ lock' = IF lock = c THEN NoPool ELSE lock
           /\ UNCHANGED <<profile, drift, changes, generation, active, leases, pool, closed,
                          tickets, rotator>>
  <1>1. CASE client[c].pc = "enter" \/ (Publication /\ client[c].pc # "lock")
    BY <1>1, SetPc DEF Interrupt, ClientStates
  <1>2. CASE ~ (client[c].pc = "enter" \/ (Publication /\ client[c].pc # "lock"))
    BY <1>2, SetLeft DEF Interrupt
  <1> QED BY <1>1, <1>2

\* Release
LEMMA ReleaseEffect ==
    ASSUME BaseTypes, NEW c \in Clients, Release(c)
    PROVE  /\ AloneClient(c) /\ Leaves(c) /\ client[c].pc = "release" /\ lock = NoPool
           /\ leases' = [leases EXCEPT ![client[c].pool] = @ - 1]
           /\ active' = active \/ (active' = NoPool /\ active = client[c].pool)
           /\ pool' = DisposeIf(client[c].pool, leases[client[c].pool] = 1 /\ client[c].pool # active')
           /\ UNCHANGED <<profile, drift, changes, generation, closed, lock, tickets, rotator>>
  <1>1. AloneClient(c) /\ Leaves(c)  BY SetLeft DEF Release
  <1> QED BY <1>1 DEF Release, ServingAfter, Free

\* LoseRelease
LEMMA LoseReleaseEffect ==
    ASSUME BaseTypes, NEW c \in Clients, LoseRelease(c)
    PROVE  /\ AloneClient(c) /\ ~ Publication /\ client[c].pc = "release"
           /\ client'[c].pc = IF client[c].keys = {} THEN "ended" ELSE "unticket"
           /\ client'[c].keys = client[c].keys /\ client'[c].pool = client[c].pool
           /\ client'[c].lost = TRUE /\ client'[c].since = 0 /\ client'[c].check = 0
           /\ UNCHANGED <<profile, drift, changes, generation, active, leases, pool, closed, lock,
                          tickets, rotator>>
  <1> DEFINE f == [Left(c) EXCEPT !.lost = TRUE, !.pool = client[c].pool]
  <1>1. Left(c) \in ClientRecord /\ client[c].pool \in Pools \cup {NoPool}
    BY LeftFacts DEF BaseTypes, ClientRecord
  <1>2. /\ f \in ClientRecord /\ f.pc = Left(c).pc /\ f.keys = Left(c).keys
        /\ f.pool = client[c].pool /\ f.lost = TRUE /\ f.since = Left(c).since /\ f.check = Left(c).check
    BY <1>1 DEF ClientRecord
  <1> HIDE DEF f
  <1>3. client' = [client EXCEPT ![c] = f]  BY DEF LoseRelease, f
  <1> QED BY <1>2, <1>3, SetClient, LeftFacts DEF LoseRelease

\* StartRotate
LEMMA StartRotateEffect ==
    ASSUME BaseTypes, NEW r \in Rotators, StartRotate(r)
    PROVE  /\ AloneRotator(r) /\ rotator[r].pc = "idle" /\ rotator'[r].selected = active
           /\ rotator[r].check <= LastCheck + 1 => rotator'[r].check <= LastCheck + 1
           /\ \/ rotator'[r].pc = "revoke" /\ rotator'[r].pool = rotator[r].pool /\ pool' = pool
              \/ \E p \in Pools :
                   /\ pool[p] = "unborn" /\ pool' = [pool EXCEPT ![p] = "open"]
                   /\ rotator'[r].pc = "validate" /\ rotator'[r].pool = p
           /\ UNCHANGED <<profile, drift, changes, generation, active, leases, closed, lock, tickets,
                          client>>
  <1>0. rotator[r] \in RotatorRecord /\ active \in Pools \cup {NoPool}
        /\ rotator \in [Rotators -> RotatorRecord]
    BY DEF BaseTypes
  <1>1. CASE rotator' = [rotator EXCEPT ![r].pc = "revoke", ![r].selected = active] /\ UNCHANGED pool
    <2> DEFINE f == [rotator[r] EXCEPT !.pc = "revoke", !.selected = active]
    <2>1. rotator' = [rotator EXCEPT ![r] = f]  BY <1>0, <1>1
    <2>2. f \in RotatorRecord /\ f.pc = "revoke" /\ f.selected = active /\ f.pool = rotator[r].pool
          /\ f.check = rotator[r].check
      BY <1>0 DEF RotatorRecord, RotatorStates
    <2> HIDE DEF f
    <2> QED BY <1>1, <2>1, <2>2, SetRotator DEF StartRotate
  <1>2. ASSUME NEW p \in Pools, pool[p] = "unborn", pool' = [pool EXCEPT ![p] = "open"],
               rotator' = [rotator EXCEPT ![r].pc = "validate", ![r].pool = p,
                             ![r].selected = active, ![r].check = Reached(Catalog(drift), 1)]
        PROVE  /\ AloneRotator(r) /\ rotator'[r].selected = active
               /\ rotator'[r].pc = "validate" /\ rotator'[r].pool = p
               /\ rotator'[r].check <= LastCheck + 1
    <2> DEFINE n == Reached(Catalog(drift), 1)
               f == [rotator[r] EXCEPT !.pc = "validate", !.pool = p, !.selected = active,
                                       !.check = n]
    <2>1. LastCheck \in Nat /\ profile \in Profiles  BY LastCheckType DEF BaseTypes
    <2>2. n \in Nat /\ n <= LastCheck + 1  BY <2>1, ReachedFacts
    <2>3. rotator' = [rotator EXCEPT ![r] = f]  BY <1>0, <1>2
    <2> HIDE DEF n
    <2>4. f \in RotatorRecord /\ f.pc = "validate" /\ f.selected = active /\ f.pool = p
          /\ f.check = n
      BY <1>0, <2>2 DEF RotatorRecord, RotatorStates
    <2> HIDE DEF f
    <2> QED BY <2>2, <2>3, <2>4, SetRotator
  <1>3. CASE \E p \in Pools : pool[p] = "unborn"
    <2> DEFINE p == CHOOSE q \in Pools : pool[q] = "unborn"
    <2>1. p \in Pools /\ pool[p] = "unborn"  BY <1>3
    <2> HIDE DEF p
    <2>2. ~ (rotator' = [rotator EXCEPT ![r].pc = "revoke", ![r].selected = active] /\ UNCHANGED pool)
          => /\ pool' = [pool EXCEPT ![p] = "open"]
             /\ rotator' = [rotator EXCEPT ![r].pc = "validate", ![r].pool = p,
                              ![r].selected = active, ![r].check = Reached(Catalog(drift), 1)]
      BY DEF StartRotate, p
    <2> QED BY <1>1, <1>2, <2>1, <2>2 DEF StartRotate
  <1> QED BY <1>1, <1>3 DEF StartRotate

\* ReplacementValidated, AbandonRotation
LEMMA WaitEffect ==
    ASSUME BaseTypes, NEW r \in Rotators, ReplacementValidated(r) \/ AbandonRotation(r)
    PROVE  /\ AloneRotator(r)
           /\ rotator'[r].pool = rotator[r].pool /\ rotator'[r].selected = rotator[r].selected
           /\ rotator'[r].check \in {0, rotator[r].check}
           /\ \/ rotator[r].pc = "validate" /\ rotator'[r].pc = "cutover"
              \/ rotator[r].pc \in {"cutover", "revoke"} /\ rotator'[r].pc = "abandoned"
           /\ UNCHANGED <<profile, drift, changes, generation, active, leases, pool, closed, lock,
                          tickets, client>>
  <1>0. rotator[r] \in RotatorRecord /\ rotator \in [Rotators -> RotatorRecord]
    BY DEF BaseTypes
  <1>1. CASE ReplacementValidated(r)
    <2> DEFINE f == [rotator[r] EXCEPT !.pc = "cutover", !.check = 0]
    <2>1. rotator' = [rotator EXCEPT ![r] = f]  BY <1>0, <1>1 DEF ReplacementValidated
    <2>2. f \in RotatorRecord /\ f.pc = "cutover" /\ f.pool = rotator[r].pool
          /\ f.selected = rotator[r].selected /\ f.check = 0
      BY <1>0 DEF RotatorRecord, RotatorStates
    <2> HIDE DEF f
    <2> QED BY <1>1, <2>1, <2>2, SetRotator DEF ReplacementValidated
  <1>2. CASE AbandonRotation(r)
    <2> DEFINE f == [rotator[r] EXCEPT !.pc = "abandoned"]
    <2>1. rotator' = [rotator EXCEPT ![r] = f]  BY <1>0, <1>2 DEF AbandonRotation
    <2>2. f \in RotatorRecord /\ f.pc = "abandoned" /\ f.pool = rotator[r].pool
          /\ f.selected = rotator[r].selected /\ f.check = rotator[r].check
      BY <1>0 DEF RotatorRecord, RotatorStates
    <2> HIDE DEF f
    <2> QED BY <1>2, <2>1, <2>2, SetRotator DEF AbandonRotation
  <1> QED BY <1>1, <1>2

\* RotationFails
LEMMA RotationFailsEffect ==
    ASSUME BaseTypes, NEW r \in Rotators, RotationFails(r)
    PROVE  /\ AloneRotator(r) /\ rotator[r].pc = "validate"
           /\ rotator'[r].pc = "revoke" /\ rotator'[r].pool = NoPool
           /\ rotator'[r].selected = rotator[r].selected
           /\ rotator'[r].check = rotator[r].check
           /\ pool' = Dispose(rotator[r].pool)
           /\ UNCHANGED <<profile, drift, changes, generation, active, leases, closed, lock, tickets,
                          client>>
  <1>0. rotator[r] \in RotatorRecord /\ rotator \in [Rotators -> RotatorRecord]
    BY DEF BaseTypes
  <1> DEFINE f == [rotator[r] EXCEPT !.pc = "revoke", !.pool = NoPool]
  <1>1. rotator' = [rotator EXCEPT ![r] = f]  BY <1>0 DEF RotationFails
  <1>2. f \in RotatorRecord /\ f.pc = "revoke" /\ f.pool = NoPool
        /\ f.selected = rotator[r].selected /\ f.check = rotator[r].check
    BY <1>0 DEF RotatorRecord, RotatorStates
  <1> HIDE DEF f
  <1> QED BY <1>1, <1>2, SetRotator DEF RotationFails

\* Revoke
LEMMA RevokeEffect ==
    ASSUME BaseTypes, NEW r \in Rotators, Revoke(r)
    PROVE  /\ AloneRotator(r) /\ rotator[r].pc = "revoke" /\ lock = NoPool
           /\ rotator'[r].pc = "failed" /\ rotator'[r].pool = rotator[r].pool
           /\ rotator'[r].selected = rotator[r].selected
           /\ rotator'[r].check = rotator[r].check
           /\ \/ active' = active /\ active # rotator[r].selected
              \/ active' = NoPool
           /\ pool' = DisposeIf(active, active # active' /\ leases[active] = 0)
           /\ UNCHANGED <<profile, drift, changes, generation, leases, closed, lock, tickets, client>>
  <1>0. rotator[r] \in RotatorRecord /\ rotator \in [Rotators -> RotatorRecord]
    BY DEF BaseTypes
  <1> DEFINE f == [rotator[r] EXCEPT !.pc = "failed"]
  <1>1. rotator' = [rotator EXCEPT ![r] = f]  BY <1>0 DEF Revoke
  <1>2. f \in RotatorRecord /\ f.pc = "failed" /\ f.pool = rotator[r].pool
        /\ f.selected = rotator[r].selected /\ f.check = rotator[r].check
    BY <1>0 DEF RotatorRecord, RotatorStates
  <1> HIDE DEF f
  <1>3. AloneRotator(r) /\ rotator'[r] = f  BY <1>1, <1>2, SetRotator
  <1> QED BY <1>2, <1>3 DEF Revoke, Revoked, Free

\* CutOver
LEMMA CutOverEffect ==
    ASSUME BaseTypes, NEW r \in Rotators, CutOver(r)
    PROVE  /\ AloneRotator(r) /\ rotator[r].pc = "cutover" /\ lock = NoPool
           /\ rotator'[r].pool = rotator[r].pool /\ rotator'[r].selected = NoPool
           /\ rotator'[r].check = rotator[r].check
           /\ \/ /\ rotator'[r].pc = "refused" /\ active' = active
                 /\ pool' = Dispose(rotator[r].pool)
              \/ /\ rotator'[r].pc = "done" /\ active' = rotator[r].pool /\ closed # "yes"
                 /\ pool' = DisposeIf(active, active # NoPool /\ leases[active] = 0)
           /\ UNCHANGED <<profile, drift, changes, generation, leases, closed, lock, tickets, client>>
  <1>0. rotator[r] \in RotatorRecord /\ rotator \in [Rotators -> RotatorRecord]
    BY DEF BaseTypes
  <1> DEFINE pc == IF Refusing THEN "refused" ELSE "done"
             f == [rotator[r] EXCEPT !.pc = pc, !.selected = NoPool]
  <1>1. rotator' = [rotator EXCEPT ![r] = f]  BY <1>0 DEF CutOver
  <1>2. pc \in RotatorStates  BY DEF RotatorStates
  <1>3. f \in RotatorRecord /\ f.pc = pc /\ f.pool = rotator[r].pool /\ f.selected = NoPool
        /\ f.check = rotator[r].check
    BY <1>0, <1>2 DEF RotatorRecord
  <1> HIDE DEF f
  <1>4. AloneRotator(r) /\ rotator'[r] = f  BY <1>1, <1>3, SetRotator
  <1>5. CASE Refusing  BY <1>3, <1>4, <1>5 DEF CutOver, Free
  <1>6. CASE ~ Refusing  BY <1>3, <1>4, <1>6 DEF CutOver, Free, Refusing
  <1> QED BY <1>5, <1>6

\* Drift changes nothing of a client or a rotation but the check it has reached.
LEMMA DriftEffect ==
    ASSUME BaseTypes, CheckBounds, NEW fact, Drift(fact)
    PROVE  /\ client' \in [Clients -> ClientRecord]
           /\ rotator' \in [Rotators -> RotatorRecord]
           /\ CheckBounds'
           /\ \A c \in Clients : /\ SameClient(c) /\ client'[c].pc = client[c].pc
                                 /\ client'[c].since = client[c].since
                                 /\ client[c].pc # "validate" => client'[c].check = client[c].check
           /\ \A r \in Rotators : /\ rotator'[r].pc = rotator[r].pc
                                  /\ rotator'[r].pool = rotator[r].pool
                                  /\ rotator'[r].selected = rotator[r].selected
           /\ changes < MaxChanges /\ changes' = changes + 1
           /\ UNCHANGED <<profile, generation, active, leases, pool, closed, lock, tickets>>
  <1> DEFINE catalog == Catalog(drift)'
  <1>0. LastCheck \in Nat /\ profile \in Profiles /\ profile' = profile
    BY LastCheckType DEF BaseTypes, Drift
  <1>1. \A k \in Nat : k <= LastCheck + 1 =>
          Reached(catalog, k) \in Nat /\ Reached(catalog, k) <= LastCheck + 1
    <2> SUFFICES ASSUME NEW k \in Nat, k <= LastCheck + 1
                 PROVE  Reached(catalog, k) \in Nat /\ Reached(catalog, k) <= LastCheck + 1
      OBVIOUS
    <2>1. Reached(catalog, k) \in k .. LastCheck + 1  BY <1>0, ReachedFacts
    <2> QED BY <1>0, <2>1
  <1>2. ASSUME NEW c \in Clients
        PROVE  /\ client'[c] \in ClientRecord /\ SameClient(c) /\ client'[c].pc = client[c].pc
               /\ client'[c].since = client[c].since /\ client'[c].check <= LastCheck + 1
               /\ client[c].pc # "validate" => client'[c].check = client[c].check
    <2>1. client[c] \in ClientRecord /\ client[c].check \in Nat /\ client[c].check <= LastCheck + 1
      BY DEF BaseTypes, ClientRecord, CheckBounds
    <2> DEFINE n == Reached(catalog, client[c].check)
    <2>2. n \in Nat /\ n <= LastCheck + 1  BY <1>1, <2>1
    <2>3. client'[c] = IF client[c].pc = "validate" /\ client[c].check > 0
                       THEN [client[c] EXCEPT !.check = n] ELSE client[c]
      BY DEF Drift
    <2> HIDE DEF n, catalog
    <2>4. CASE client[c].pc = "validate" /\ client[c].check > 0
      BY <2>1, <2>2, <2>3, <2>4 DEF SameClient, ClientRecord
    <2>5. CASE ~ (client[c].pc = "validate" /\ client[c].check > 0)
      BY <2>1, <2>3, <2>5 DEF SameClient
    <2> QED BY <2>4, <2>5
  <1>3. ASSUME NEW r \in Rotators
        PROVE  /\ rotator'[r] \in RotatorRecord /\ rotator'[r].pc = rotator[r].pc
               /\ rotator'[r].pool = rotator[r].pool /\ rotator'[r].selected = rotator[r].selected
               /\ rotator'[r].check <= LastCheck + 1
    <2>1. rotator[r] \in RotatorRecord /\ rotator[r].check \in Nat
          /\ rotator[r].check <= LastCheck + 1
      BY DEF BaseTypes, RotatorRecord, CheckBounds
    <2> DEFINE n == Reached(catalog, rotator[r].check)
    <2>2. n \in Nat /\ n <= LastCheck + 1  BY <1>1, <2>1
    <2>3. rotator'[r] = IF rotator[r].pc = "validate"
                        THEN [rotator[r] EXCEPT !.check = n] ELSE rotator[r]
      BY DEF Drift
    <2> HIDE DEF n, catalog
    <2>4. CASE rotator[r].pc = "validate"  BY <2>1, <2>2, <2>3, <2>4 DEF RotatorRecord
    <2>5. CASE rotator[r].pc # "validate"  BY <2>1, <2>3, <2>5
    <2> QED BY <2>4, <2>5
  <1>4. client' \in [Clients -> ClientRecord]  BY <1>2 DEF Drift
  <1>5. rotator' \in [Rotators -> RotatorRecord]  BY <1>3 DEF Drift
  <1>6. LastCheck' = LastCheck  BY <1>0 DEF LastCheck, Checks
  <1>7. CheckBounds'  BY <1>2, <1>3, <1>6 DEF CheckBounds
  <1> QED BY <1>2, <1>3, <1>4, <1>5, <1>7 DEF Drift
-----------------------------------------------------------------------------
(* A step keeps the invariant, part by part. *)

\* The profile never changes, so neither do the checks.
LEMMA SameProfile ==
    ASSUME profile' = profile
    PROVE  LastCheck' = LastCheck /\ (Publication' <=> Publication)
  BY DEF LastCheck, Checks, Publication

\* Dispose
LEMMA Disposed ==
    ASSUME BaseTypes, NEW p \in Pools \cup {NoPool}
    PROVE  /\ Dispose(p) \in [Pools -> {"unborn", "open", "closing", "closed"}]
           /\ p \in Pools => Dispose(p)[p] \in {"closing", "closed"}
           /\ \A q \in Pools : q # p => Dispose(p)[q] = pool[q]
  BY DEF BaseTypes, Dispose

\* A ticket is added at the end.
LEMMA Appended ==
    ASSUME NEW S, NEW q \in Seq(S), NEW e \in S
    PROVE  /\ Append(q, e) \in Seq(S)
           /\ Len(Append(q, e)) = Len(q) + 1
           /\ \A j \in 1 .. Len(q) : Append(q, e)[j] = q[j]
           /\ Append(q, e)[Len(q) + 1] = e
  OBVIOUS

\* Tickets after a removed one move up.
LEMMA TakenOut ==
    ASSUME NEW S, NEW q \in Seq(S), NEW i \in 1 .. Len(q), NEW w,
           w = SubSeq(q, 1, i - 1) \o SubSeq(q, i + 1, Len(q))
    PROVE  /\ w \in Seq(S)
           /\ Len(w) = Len(q) - 1
           /\ \A j \in 1 .. Len(q) - 1 : w[j] = IF j < i THEN q[j] ELSE q[j + 1]
  <1> DEFINE a == SubSeq(q, 1, i - 1)
             b == SubSeq(q, i + 1, Len(q))
             n == Len(q)
  <1>0. n \in Nat /\ i \in Nat /\ 1 <= i /\ i <= n  OBVIOUS
  <1>1. a \in Seq(S) /\ b \in Seq(S) /\ Len(a) = i - 1 /\ Len(b) = n - i  BY <1>0
  <1>2. \A j \in 1 .. i - 1 : a[j] = q[j]  BY <1>0
  <1>3. \A j \in 1 .. n - i : b[j] = q[i + j]  BY <1>0
  <1>4. w = a \o b  OBVIOUS
  <1> HIDE DEF a, b, n
  <1>5. w \in Seq(S) /\ Len(w) = Len(a) + Len(b)  BY <1>1, <1>4, ConcatProperties
  <1>6. \A j \in 1 .. Len(a) + Len(b) : w[j] = IF j <= Len(a) THEN a[j] ELSE b[j - Len(a)]
    <2>1. a \in Seq(S) /\ b \in Seq(S)  BY <1>1
    <2>2. \A j \in 1 .. Len(a) + Len(b) :
            (a \o b)[j] = IF j <= Len(a) THEN a[j] ELSE b[j - Len(a)]
      BY <2>1, ConcatProperties
    <2> QED BY <1>4, <2>2, Zenon
  <1>7. Len(w) = n - 1
    <2>1. Len(w) = (i - 1) + (n - i)  BY <1>1, <1>5, Zenon
    <2>2. (i - 1) + (n - i) = n - 1  BY <1>0
    <2> QED BY <2>1, <2>2, Zenon
  <1>8. ASSUME NEW j \in 1 .. n - 1 PROVE w[j] = IF j < i THEN q[j] ELSE q[j + 1]
    <2>1. j \in 1 .. Len(a) + Len(b) /\ (j <= Len(a) <=> j < i)  BY <1>0, <1>1
    <2>2. w[j] = IF j < i THEN a[j] ELSE b[j - Len(a)]  BY <1>6, <2>1
    <2>3. CASE j < i
      <3>1. j \in 1 .. i - 1  BY <1>0, <2>3
      <3> QED BY <1>2, <2>2, <2>3, <3>1
    <2>4. CASE ~ j < i
      <3> DEFINE k == j - Len(a)
      <3>1. k \in 1 .. n - i /\ i + k = j + 1  BY <1>0, <1>1, <2>4
      <3> HIDE DEF k
      <3>2. b[k] = q[j + 1]  BY <1>3, <3>1
      <3> QED BY <2>2, <2>4, <3>2 DEF k
    <2> QED BY <2>3, <2>4
  <1> QED BY <1>5, <1>7, <1>8 DEF n

\* A step keeps the types.
LEMMA TypesStep == AuthorityInv /\ [Next]_vars => BaseTypes'
  <1> SUFFICES ASSUME AuthorityInv, [Next]_vars PROVE BaseTypes'  OBVIOUS
  <1> USE ClientsAssumption, PoolsAssumption, SizesAssumption
  <1>0. BaseTypes /\ CheckBounds /\ Local /\ ReplacementInv  BY DEF AuthorityInv, PoolInv
  <1>1. ASSUME NEW c \in Clients, NEW command \in BOOLEAN, NEW keys \in SUBSET Keys,
               Begin(c, command, keys)
        PROVE  BaseTypes'
    <2>1. tickets' \in Seq(Clients) /\ Len(tickets') <= TicketLimit
      <3>1. tickets \in Seq(Clients) /\ Len(tickets) <= TicketLimit /\ Len(tickets) \in Nat
        BY <1>0 DEF BaseTypes
      <3>2. Append(tickets, c) \in Seq(Clients) /\ Len(Append(tickets, c)) = Len(tickets) + 1
        BY <3>1, Appended
      <3>3. \/ tickets' = tickets
            \/ tickets' = Append(tickets, c) /\ Len(tickets) < TicketLimit
        BY <1>0, <1>1, BeginEffect
      <3> QED BY <3>1, <3>2, <3>3
    <2> QED BY <1>0, <1>1, <2>1, BeginEffect DEF BaseTypes, AloneClient
  <1>2. ASSUME NEW c \in Clients, Admit(c) \/ Enter(c) \/ Finish(c) PROVE BaseTypes'
    BY <1>0, <1>2, AdvanceEffect DEF BaseTypes, AloneClient, AloneRotator
  <1>3. ASSUME NEW c \in Clients, GiveUp(c) PROVE BaseTypes'
    BY <1>0, <1>3, GiveUpEffect DEF BaseTypes, AloneClient, AloneRotator
  <1>4. ASSUME NEW c \in Clients, RemoveTicket(c) PROVE BaseTypes'
    <2>1. tickets' \in Seq(Clients) /\ Len(tickets') <= TicketLimit
      <3>1. PICK i \in 1 .. Len(tickets) :
              tickets' = SubSeq(tickets, 1, i - 1) \o SubSeq(tickets, i + 1, Len(tickets))
        BY <1>4 DEF RemoveTicket
      <3>2. tickets \in Seq(Clients) /\ Len(tickets) <= TicketLimit  BY <1>0 DEF BaseTypes
      <3> QED
        <4>1. tickets' \in Seq(Clients) /\ Len(tickets') = Len(tickets) - 1
          BY <3>1, <3>2, TakenOut
        <4> QED BY <3>2, <4>1
    <2> QED BY <1>0, <1>4, <2>1, RemoveTicketEffect DEF BaseTypes, AloneClient
  <1>5. ASSUME NEW c \in Clients, Select(c) PROVE BaseTypes'
    BY <1>0, <1>5, SelectEffect DEF BaseTypes, AloneClient, AloneRotator
  <1>6. ASSUME NEW c \in Clients, Connect(c) PROVE BaseTypes'
    BY <1>0, <1>6, ConnectEffect DEF BaseTypes, AloneClient, AloneRotator
  <1>7. ASSUME NEW c \in Clients, Validated(c) PROVE BaseTypes'
    BY <1>0, <1>7, ValidatedEffect DEF BaseTypes, AloneClient, AloneRotator
  <1>8. ASSUME NEW c \in Clients, CheckFails(c) PROVE BaseTypes'
    BY <1>0, <1>8, CheckFailsEffect DEF BaseTypes, AloneClient, AloneRotator, Dispose, DisposeIf
  <1>9. ASSUME NEW c \in Clients, Recheck(c) PROVE BaseTypes'
    BY <1>0, <1>9, RecheckEffect DEF BaseTypes, AloneClient, AloneRotator
  <1>10. ASSUME NEW c \in Clients, Interrupt(c) PROVE BaseTypes'
    BY <1>0, <1>10, InterruptEffect DEF BaseTypes, AloneClient, AloneRotator
  <1>11. ASSUME NEW c \in Clients, Release(c) PROVE BaseTypes'
    <2>1. client[c].pool \in Pools  BY <1>0, <1>11, ReleaseEffect DEF Local, LocalOf, Working
    <2>2. pool' \in [Pools -> {"unborn", "open", "closing", "closed"}]
      <3>1. pool' = Dispose(client[c].pool) \/ pool' = pool
        BY <1>0, <1>11, ReleaseEffect DEF DisposeIf
      <3> QED BY <1>0, <2>1, <3>1, Disposed DEF BaseTypes
    <2>3. leases' \in [Pools -> Int]
      <3>1. leases \in [Pools -> Int] /\ leases[client[c].pool] - 1 \in Int
        BY <1>0, <2>1 DEF BaseTypes
      <3> QED BY <1>0, <1>11, <2>1, <3>1, ReleaseEffect
    <2> QED BY <1>0, <1>11, <2>2, <2>3, ReleaseEffect DEF BaseTypes, AloneClient
  <1>12. ASSUME NEW c \in Clients, LoseRelease(c) PROVE BaseTypes'
    BY <1>0, <1>12, LoseReleaseEffect DEF BaseTypes, AloneClient, AloneRotator
  <1>13. ASSUME NEW r \in Rotators, StartRotate(r) PROVE BaseTypes'
    BY <1>0, <1>13, StartRotateEffect DEF BaseTypes, AloneClient, AloneRotator
  <1>14. ASSUME NEW r \in Rotators, ReplacementValidated(r) \/ AbandonRotation(r) PROVE BaseTypes'
    BY <1>0, <1>14, WaitEffect DEF BaseTypes, AloneClient, AloneRotator
  <1>15. ASSUME NEW r \in Rotators, RotationFails(r) PROVE BaseTypes'
    BY <1>0, <1>15, RotationFailsEffect DEF BaseTypes, AloneClient, AloneRotator, Dispose, DisposeIf
  <1>16. ASSUME NEW r \in Rotators, Revoke(r) PROVE BaseTypes'
    BY <1>0, <1>16, RevokeEffect DEF BaseTypes, AloneClient, AloneRotator, Dispose, DisposeIf
  <1>17. ASSUME NEW r \in Rotators, CutOver(r) PROVE BaseTypes'
    <2>1. rotator[r].pool \in Pools
      BY <1>0, <1>17, CutOverEffect DEF ReplacementInv, Replacing
    <2> QED
      BY <1>0, <1>17, <2>1, CutOverEffect DEF BaseTypes, AloneRotator, Dispose, DisposeIf
  <1>18. ASSUME BeginClose \/ FinishClose PROVE BaseTypes'
    BY <1>0, <1>18 DEF BaseTypes, AloneClient, AloneRotator, BeginClose, FinishClose, Dispose, DisposeIf
  <1>19. ASSUME NEW p \in Pools, DisposalEnds(p) PROVE BaseTypes'
    BY <1>0, <1>19 DEF BaseTypes, AloneClient, AloneRotator, DisposalEnds
  <1>20. CASE Drain  BY <1>0, <1>20 DEF BaseTypes, AloneClient, AloneRotator, Drain
  <1>21. ASSUME NEW f \in Drifting, Drift(f) PROVE BaseTypes'
    BY <1>0, <1>21, DriftEffect DEF BaseTypes, AloneClient, AloneRotator
  <1>22. CASE UNCHANGED vars  BY <1>0, <1>22 DEF BaseTypes, AloneClient, AloneRotator, vars
  <1> QED
    BY <1>1, <1>2, <1>3, <1>4, <1>5, <1>6, <1>7, <1>8, <1>9, <1>10, <1>11, <1>12, <1>13, <1>14,
       <1>15, <1>16, <1>17, <1>18, <1>19, <1>20, <1>21, <1>22 DEF Next, ClientStep, RotatorStep
\* Only one request's, or one rotation's, count of checks changes.
LEMMA BoundsClient ==
    ASSUME BaseTypes, CheckBounds, NEW c \in Clients, AloneClient(c),
           client'[c].check <= LastCheck + 1, profile' = profile, rotator' = rotator
    PROVE  CheckBounds'
  <1>1. LastCheck' = LastCheck  BY SameProfile
  <1>2. \A d \in Clients : client'[d].check <= LastCheck + 1  BY DEF AloneClient, CheckBounds
  <1> QED BY <1>1, <1>2 DEF CheckBounds

\* A rotator's step keeps the checks within their bounds.
LEMMA BoundsRotator ==
    ASSUME BaseTypes, CheckBounds, NEW r \in Rotators, AloneRotator(r),
           rotator'[r].check <= LastCheck + 1, profile' = profile, client' = client
    PROVE  CheckBounds'
  <1>1. LastCheck' = LastCheck  BY SameProfile
  <1>2. \A s \in Rotators : rotator'[s].check <= LastCheck + 1
    BY DEF AloneRotator, CheckBounds
  <1> QED BY <1>1, <1>2 DEF CheckBounds

\* A step that moves nobody keeps the checks within their bounds.
LEMMA BoundsSame ==
    ASSUME CheckBounds, profile' = profile, client' = client, rotator' = rotator
    PROVE  CheckBounds'
  BY SameProfile DEF CheckBounds

\* A step keeps the checks within their bounds.
LEMMA BoundsStep == AuthorityInv /\ [Next]_vars => CheckBounds'
  <1> SUFFICES ASSUME AuthorityInv, [Next]_vars PROVE CheckBounds'  OBVIOUS
  <1>0. BaseTypes /\ CheckBounds /\ LastCheck \in Nat /\ 0 <= LastCheck + 1
    BY LastCheckType DEF AuthorityInv, BaseTypes
  <1>1. ASSUME NEW c \in Clients, NEW command \in BOOLEAN, NEW keys \in SUBSET Keys,
               Begin(c, command, keys)
        PROVE  CheckBounds'
    <2>1. AloneClient(c) /\ profile' = profile /\ rotator' = rotator
      BY <1>0, <1>1, BeginEffect
    <2>2. client'[c].check <= LastCheck + 1
      BY <1>0, <1>1, BeginEffect DEF CheckBounds, Leaves
    <2> QED BY <1>0, <2>1, <2>2, BoundsClient
  <1>2. ASSUME NEW c \in Clients, Admit(c) \/ Enter(c) \/ Finish(c) PROVE CheckBounds'
    <2>1. AloneClient(c) /\ profile' = profile /\ rotator' = rotator
      BY <1>0, <1>2, AdvanceEffect
    <2>2. client'[c].check <= LastCheck + 1
      BY <1>0, <1>2, AdvanceEffect DEF CheckBounds, Leaves
    <2> QED BY <1>0, <2>1, <2>2, BoundsClient
  <1>3. ASSUME NEW c \in Clients, GiveUp(c) PROVE CheckBounds'
    <2>1. AloneClient(c) /\ profile' = profile /\ rotator' = rotator
      BY <1>0, <1>3, GiveUpEffect
    <2>2. client'[c].check <= LastCheck + 1
      BY <1>0, <1>3, GiveUpEffect DEF CheckBounds, Leaves
    <2> QED BY <1>0, <2>1, <2>2, BoundsClient
  <1>4. ASSUME NEW c \in Clients, RemoveTicket(c) PROVE CheckBounds'
    <2>1. AloneClient(c) /\ profile' = profile /\ rotator' = rotator
      BY <1>0, <1>4, RemoveTicketEffect
    <2>2. client'[c].check <= LastCheck + 1
      BY <1>0, <1>4, RemoveTicketEffect DEF CheckBounds, Leaves
    <2> QED BY <1>0, <2>1, <2>2, BoundsClient
  <1>5. ASSUME NEW c \in Clients, Select(c) PROVE CheckBounds'
    <2>1. AloneClient(c) /\ profile' = profile /\ rotator' = rotator
      BY <1>0, <1>5, SelectEffect
    <2>2. client'[c].check <= LastCheck + 1
      BY <1>0, <1>5, SelectEffect DEF CheckBounds, Leaves
    <2> QED BY <1>0, <2>1, <2>2, BoundsClient
  <1>6. ASSUME NEW c \in Clients, Connect(c) PROVE CheckBounds'
    <2>1. AloneClient(c) /\ profile' = profile /\ rotator' = rotator
      BY <1>0, <1>6, ConnectEffect
    <2>2. client'[c].check <= LastCheck + 1
      BY <1>0, <1>6, ConnectEffect DEF CheckBounds, Leaves
    <2> QED BY <1>0, <2>1, <2>2, BoundsClient
  <1>7. ASSUME NEW c \in Clients, Validated(c) PROVE CheckBounds'
    <2>1. AloneClient(c) /\ profile' = profile /\ rotator' = rotator
      BY <1>0, <1>7, ValidatedEffect
    <2>2. client'[c].check <= LastCheck + 1
      BY <1>0, <1>7, ValidatedEffect DEF CheckBounds, Leaves
    <2> QED BY <1>0, <2>1, <2>2, BoundsClient
  <1>8. ASSUME NEW c \in Clients, CheckFails(c) PROVE CheckBounds'
    <2>1. AloneClient(c) /\ profile' = profile /\ rotator' = rotator
      BY <1>0, <1>8, CheckFailsEffect
    <2>2. client'[c].check <= LastCheck + 1
      BY <1>0, <1>8, CheckFailsEffect DEF CheckBounds, Leaves
    <2> QED BY <1>0, <2>1, <2>2, BoundsClient
  <1>9. ASSUME NEW c \in Clients, Recheck(c) PROVE CheckBounds'
    <2>1. AloneClient(c) /\ profile' = profile /\ rotator' = rotator
      BY <1>0, <1>9, RecheckEffect
    <2>2. client'[c].check <= LastCheck + 1
      BY <1>0, <1>9, RecheckEffect DEF CheckBounds, Leaves
    <2> QED BY <1>0, <2>1, <2>2, BoundsClient
  <1>10. ASSUME NEW c \in Clients, Interrupt(c) PROVE CheckBounds'
    <2>1. AloneClient(c) /\ profile' = profile /\ rotator' = rotator
      BY <1>0, <1>10, InterruptEffect
    <2>2. client'[c].check <= LastCheck + 1
      BY <1>0, <1>10, InterruptEffect DEF CheckBounds, Leaves
    <2> QED BY <1>0, <2>1, <2>2, BoundsClient
  <1>11. ASSUME NEW c \in Clients, Release(c) PROVE CheckBounds'
    <2>1. AloneClient(c) /\ profile' = profile /\ rotator' = rotator
      BY <1>0, <1>11, ReleaseEffect
    <2>2. client'[c].check <= LastCheck + 1
      BY <1>0, <1>11, ReleaseEffect DEF CheckBounds, Leaves
    <2> QED BY <1>0, <2>1, <2>2, BoundsClient
  <1>12. ASSUME NEW c \in Clients, LoseRelease(c) PROVE CheckBounds'
    <2>1. AloneClient(c) /\ profile' = profile /\ rotator' = rotator
      BY <1>0, <1>12, LoseReleaseEffect
    <2>2. client'[c].check <= LastCheck + 1
      BY <1>0, <1>12, LoseReleaseEffect DEF CheckBounds, Leaves
    <2> QED BY <1>0, <2>1, <2>2, BoundsClient
  <1>13. ASSUME NEW r \in Rotators, StartRotate(r) PROVE CheckBounds'
    <2>1. AloneRotator(r) /\ profile' = profile /\ client' = client
      BY <1>0, <1>13, StartRotateEffect
    <2>2. rotator'[r].check <= LastCheck + 1
      BY <1>0, <1>13, StartRotateEffect DEF CheckBounds
    <2> QED BY <1>0, <2>1, <2>2, BoundsRotator
  <1>14. ASSUME NEW r \in Rotators, ReplacementValidated(r) \/ AbandonRotation(r) PROVE CheckBounds'
    <2>1. AloneRotator(r) /\ profile' = profile /\ client' = client
      BY <1>0, <1>14, WaitEffect
    <2>2. rotator'[r].check <= LastCheck + 1  BY <1>0, <1>14, WaitEffect DEF CheckBounds
    <2> QED BY <1>0, <2>1, <2>2, BoundsRotator
  <1>15. ASSUME NEW r \in Rotators, RotationFails(r) PROVE CheckBounds'
    <2>1. AloneRotator(r) /\ profile' = profile /\ client' = client
      BY <1>0, <1>15, RotationFailsEffect
    <2>2. rotator'[r].check <= LastCheck + 1
      BY <1>0, <1>15, RotationFailsEffect DEF CheckBounds
    <2> QED BY <1>0, <2>1, <2>2, BoundsRotator
  <1>16. ASSUME NEW r \in Rotators, Revoke(r) PROVE CheckBounds'
    <2>1. AloneRotator(r) /\ profile' = profile /\ client' = client
      BY <1>0, <1>16, RevokeEffect
    <2>2. rotator'[r].check <= LastCheck + 1  BY <1>0, <1>16, RevokeEffect DEF CheckBounds
    <2> QED BY <1>0, <2>1, <2>2, BoundsRotator
  <1>17. ASSUME NEW r \in Rotators, CutOver(r) PROVE CheckBounds'
    <2>1. AloneRotator(r) /\ profile' = profile /\ client' = client
      BY <1>0, <1>17, CutOverEffect
    <2>2. rotator'[r].check <= LastCheck + 1  BY <1>0, <1>17, CutOverEffect DEF CheckBounds
    <2> QED BY <1>0, <2>1, <2>2, BoundsRotator
  <1>18. ASSUME BeginClose \/ FinishClose PROVE CheckBounds'
    BY <1>0, <1>18, BoundsSame DEF BeginClose, FinishClose
  <1>19. ASSUME NEW p \in Pools, DisposalEnds(p) PROVE CheckBounds'
    BY <1>0, <1>19, BoundsSame DEF DisposalEnds
  <1>20. CASE Drain  BY <1>0, <1>20, BoundsSame DEF Drain
  <1>21. ASSUME NEW f \in Drifting, Drift(f) PROVE CheckBounds'  BY <1>0, <1>21, DriftEffect
  <1>22. CASE UNCHANGED vars  BY <1>0, <1>22, BoundsSame DEF vars
  <1> QED
    BY <1>1, <1>2, <1>3, <1>4, <1>5, <1>6, <1>7, <1>8, <1>9, <1>10, <1>11, <1>12, <1>13, <1>14,
       <1>15, <1>16, <1>17, <1>18, <1>19, <1>20, <1>21, <1>22 DEF Next, ClientStep, RotatorStep
\* Only one request's fields change.
LEMMA LocalClient ==
    ASSUME Local, NEW c \in Clients, AloneClient(c), LocalOf(c)'
    PROVE  Local'
  <1>1. ASSUME NEW d \in Clients, d # c PROVE LocalOf(d)'
    BY <1>1 DEF Local, LocalOf, AloneClient
  <1> QED BY <1>1 DEF Local

\* A step keeps the fields of a request together.
LEMMA LocalStep == AuthorityInv /\ [Next]_vars => Local'
  <1> SUFFICES ASSUME AuthorityInv, [Next]_vars PROVE Local'  OBVIOUS
  <1> USE PoolsAssumption
  <1>0. BaseTypes /\ CheckBounds /\ Local  BY DEF AuthorityInv
  <1>1. ASSUME NEW c \in Clients, NEW command \in BOOLEAN, NEW keys \in SUBSET Keys,
               Begin(c, command, keys)
        PROVE  Local'
    <2>1. AloneClient(c) /\ LocalOf(c)  BY <1>0, <1>1, BeginEffect DEF Local
    <2>2. LocalOf(c)'
      BY <1>0, <1>1, <2>1, BeginEffect DEF LocalOf, Working, SameClient, Leaves
    <2> QED BY <1>0, <2>1, <2>2, LocalClient
  <1>2. ASSUME NEW c \in Clients, Admit(c) \/ Enter(c) \/ Finish(c) PROVE Local'
    <2>1. AloneClient(c) /\ LocalOf(c)  BY <1>0, <1>2, AdvanceEffect DEF Local
    <2>2. LocalOf(c)'
      BY <1>0, <1>2, <2>1, AdvanceEffect DEF LocalOf, Working, SameClient, Leaves
    <2> QED BY <1>0, <2>1, <2>2, LocalClient
  <1>3. ASSUME NEW c \in Clients, GiveUp(c) PROVE Local'
    <2>1. AloneClient(c) /\ LocalOf(c)  BY <1>0, <1>3, GiveUpEffect DEF Local
    <2>2. LocalOf(c)'
      BY <1>0, <1>3, <2>1, GiveUpEffect DEF LocalOf, Working, SameClient, Leaves
    <2> QED BY <1>0, <2>1, <2>2, LocalClient
  <1>4. ASSUME NEW c \in Clients, RemoveTicket(c) PROVE Local'
    <2>1. AloneClient(c) /\ LocalOf(c)  BY <1>0, <1>4, RemoveTicketEffect DEF Local
    <2>2. LocalOf(c)'
      BY <1>0, <1>4, <2>1, RemoveTicketEffect DEF LocalOf, Working, SameClient, Leaves
    <2> QED BY <1>0, <2>1, <2>2, LocalClient
  <1>5. ASSUME NEW c \in Clients, Select(c) PROVE Local'
    <2>1. AloneClient(c) /\ LocalOf(c)  BY <1>0, <1>5, SelectEffect DEF Local
    <2>2. LocalOf(c)'
      BY <1>0, <1>5, <2>1, SelectEffect DEF LocalOf, Working, SameClient, Leaves
    <2> QED BY <1>0, <2>1, <2>2, LocalClient
  <1>6. ASSUME NEW c \in Clients, Connect(c) PROVE Local'
    <2>1. AloneClient(c) /\ LocalOf(c)  BY <1>0, <1>6, ConnectEffect DEF Local
    <2>2. LocalOf(c)'
      BY <1>0, <1>6, <2>1, ConnectEffect DEF LocalOf, Working, SameClient, Leaves
    <2> QED BY <1>0, <2>1, <2>2, LocalClient
  <1>7. ASSUME NEW c \in Clients, Validated(c) PROVE Local'
    <2>1. AloneClient(c) /\ LocalOf(c)  BY <1>0, <1>7, ValidatedEffect DEF Local
    <2>2. LocalOf(c)'
      BY <1>0, <1>7, <2>1, ValidatedEffect DEF LocalOf, Working, SameClient, Leaves
    <2> QED BY <1>0, <2>1, <2>2, LocalClient
  <1>8. ASSUME NEW c \in Clients, CheckFails(c) PROVE Local'
    <2>1. AloneClient(c) /\ LocalOf(c)  BY <1>0, <1>8, CheckFailsEffect DEF Local
    <2>2. LocalOf(c)'
      BY <1>0, <1>8, <2>1, CheckFailsEffect DEF LocalOf, Working, SameClient, Leaves
    <2> QED BY <1>0, <2>1, <2>2, LocalClient
  <1>9. ASSUME NEW c \in Clients, Recheck(c) PROVE Local'
    <2>1. AloneClient(c) /\ LocalOf(c)  BY <1>0, <1>9, RecheckEffect DEF Local
    <2>2. LocalOf(c)'
      BY <1>0, <1>9, <2>1, RecheckEffect DEF LocalOf, Working, SameClient, Leaves
    <2> QED BY <1>0, <2>1, <2>2, LocalClient
  <1>10. ASSUME NEW c \in Clients, Interrupt(c) PROVE Local'
    <2>1. AloneClient(c) /\ LocalOf(c)  BY <1>0, <1>10, InterruptEffect DEF Local
    <2>2. LocalOf(c)'
      BY <1>0, <1>10, <2>1, InterruptEffect DEF LocalOf, Working, SameClient, Leaves
    <2> QED BY <1>0, <2>1, <2>2, LocalClient
  <1>11. ASSUME NEW c \in Clients, Release(c) PROVE Local'
    <2>1. AloneClient(c) /\ LocalOf(c)  BY <1>0, <1>11, ReleaseEffect DEF Local
    <2>2. LocalOf(c)'
      BY <1>0, <1>11, <2>1, ReleaseEffect DEF LocalOf, Working, SameClient, Leaves
    <2> QED BY <1>0, <2>1, <2>2, LocalClient
  <1>12. ASSUME NEW c \in Clients, LoseRelease(c) PROVE Local'
    <2>1. AloneClient(c) /\ LocalOf(c)  BY <1>0, <1>12, LoseReleaseEffect DEF Local
    <2>2. LocalOf(c)'
      BY <1>0, <1>12, <2>1, LoseReleaseEffect DEF LocalOf, Working, SameClient, Leaves
    <2> QED BY <1>0, <2>1, <2>2, LocalClient
  <1>13. ASSUME NEW r \in Rotators, StartRotate(r) PROVE Local'
    BY <1>0, <1>13, StartRotateEffect DEF Local, LocalOf
  <1>14. ASSUME NEW r \in Rotators, ReplacementValidated(r) \/ AbandonRotation(r) PROVE Local'
    BY <1>0, <1>14, WaitEffect DEF Local, LocalOf
  <1>15. ASSUME NEW r \in Rotators, RotationFails(r) PROVE Local'
    BY <1>0, <1>15, RotationFailsEffect DEF Local, LocalOf
  <1>16. ASSUME NEW r \in Rotators, Revoke(r) PROVE Local'
    BY <1>0, <1>16, RevokeEffect DEF Local, LocalOf
  <1>17. ASSUME NEW r \in Rotators, CutOver(r) PROVE Local'
    BY <1>0, <1>17, CutOverEffect DEF Local, LocalOf
  <1>18. ASSUME BeginClose \/ FinishClose PROVE Local'
    BY <1>0, <1>18 DEF Local, LocalOf, BeginClose, FinishClose
  <1>19. ASSUME NEW p \in Pools, DisposalEnds(p) PROVE Local'
    BY <1>0, <1>19 DEF Local, LocalOf, DisposalEnds
  <1>20. CASE Drain  BY <1>0, <1>20 DEF Local, LocalOf, Drain
  <1>21. ASSUME NEW f \in Drifting, Drift(f) PROVE Local'
    BY <1>0, <1>21, DriftEffect DEF Local, LocalOf, SameClient, Working
  <1>22. CASE UNCHANGED vars  BY <1>0, <1>22 DEF Local, LocalOf, vars
  <1> QED
    BY <1>1, <1>2, <1>3, <1>4, <1>5, <1>6, <1>7, <1>8, <1>9, <1>10, <1>11, <1>12, <1>13, <1>14,
       <1>15, <1>16, <1>17, <1>18, <1>19, <1>20, <1>21, <1>22 DEF Next, ClientStep, RotatorStep
\* A step that takes or returns no lock.
LEMMA LockSame ==
    ASSUME LockInv, NEW c \in Clients, AloneClient(c), profile' = profile, lock' = lock,
           active' = active, closed' = closed, Locking(c)' <=> Locking(c),
           Locking(c) => client'[c].pool = client[c].pool
    PROVE  LockInv'
  <1>1. ASSUME NEW d \in Clients PROVE Locking(d)' <=> Locking(d)
    <2>1. CASE d = c  BY <2>1
    <2>2. CASE d # c  BY <2>2, SameProfile DEF AloneClient, Locking
    <2> QED BY <2>1, <2>2
  <1>2. ASSUME NEW d \in Clients, Locking(d) PROVE client'[d].pool = active
    BY <1>2 DEF AloneClient, LockInv
  <1> QED BY <1>1, <1>2 DEF LockInv

\* A request takes the free lock to validate the pool that serves.
LEMMA LockTaken ==
    ASSUME LockInv, NEW c \in Clients, AloneClient(c), profile' = profile, lock = NoPool,
           lock' = c, active' = active, closed' = closed, Locking(c)', client'[c].pool = active
    PROVE  LockInv'
  <1>1. ASSUME NEW d \in Clients, d # c PROVE ~ Locking(d)'
    <2>1. ~ Locking(d)  BY ClientsAssumption DEF LockInv
    <2> QED BY <1>1, <2>1, SameProfile DEF AloneClient, Locking
  <1> QED BY <1>1 DEF LockInv

\* The lock is free, or its holder returns it.
LEMMA LockReturned ==
    ASSUME LockInv, NEW c \in Clients, AloneClient(c), profile' = profile,
           lock \in {c, NoPool}, lock' = NoPool, closed' = closed, ~ Locking(c)',
           active' = active \/ active' = NoPool
    PROVE  LockInv'
  <1>1. ASSUME NEW d \in Clients PROVE ~ Locking(d)'
    <2>1. CASE d = c  BY <2>1
    <2>2. CASE d # c
      <3>1. ~ Locking(d)  BY <2>2, ClientsAssumption DEF LockInv
      <3> QED BY <2>2, <3>1, SameProfile DEF AloneClient, Locking
    <2> QED BY <2>1, <2>2
  <1>2. \A d \in Clients : lock' # d  BY ClientsAssumption
  <1> QED BY <1>1, <1>2 DEF LockInv

\* While the lock is free the serving pool may change.
LEMMA LockFree ==
    ASSUME LockInv, profile' = profile, client' = client, lock = NoPool, lock' = lock,
           closed' = "yes" => active' = NoPool
    PROVE  LockInv'
  <1>1. ASSUME NEW d \in Clients PROVE ~ Locking(d)' /\ lock' # d
    <2>1. ~ Locking(d)  BY ClientsAssumption DEF LockInv
    <2> QED BY <2>1, SameProfile, ClientsAssumption DEF Locking
  <1> QED BY <1>1 DEF LockInv

\* No step of the others touches it.
LEMMA LockIdle ==
    ASSUME LockInv, profile' = profile, lock' = lock, active' = active,
           closed' = "yes" => closed = "yes",
           \A c \in Clients : client'[c].pc = client[c].pc /\ client'[c].pool = client[c].pool
    PROVE  LockInv'
  <1>1. ASSUME NEW d \in Clients PROVE Locking(d)' <=> Locking(d)  BY SameProfile DEF Locking
  <1> QED BY <1>1 DEF LockInv

\* A step keeps the lock with the validation it protects.
LEMMA LockStep == AuthorityInv /\ [Next]_vars => LockInv'
  <1> SUFFICES ASSUME AuthorityInv, [Next]_vars PROVE LockInv'  OBVIOUS
  <1>0. BaseTypes /\ CheckBounds /\ Local /\ LockInv  BY DEF AuthorityInv
  <1>1. ASSUME NEW c \in Clients, NEW command \in BOOLEAN, NEW keys \in SUBSET Keys,
               Begin(c, command, keys)
        PROVE  LockInv'
    <2>1. /\ AloneClient(c) /\ UNCHANGED <<profile, lock, active, closed>>
          /\ ~ Locking(c) /\ ~ Locking(c)'
      BY <1>0, <1>1, BeginEffect, SameProfile DEF Leaves, Locking
    <2> QED BY <1>0, <2>1, LockSame
  <1>2. ASSUME NEW c \in Clients, Admit(c) \/ Enter(c) \/ Finish(c) PROVE LockInv'
    <2>1. /\ AloneClient(c) /\ UNCHANGED <<profile, lock, active, closed>>
          /\ ~ Locking(c) /\ ~ Locking(c)'
      BY <1>0, <1>2, AdvanceEffect, SameProfile DEF Leaves, Locking
    <2> QED BY <1>0, <2>1, LockSame
  <1>3. ASSUME NEW c \in Clients, GiveUp(c) PROVE LockInv'
    <2>1. /\ AloneClient(c) /\ UNCHANGED <<profile, lock, active, closed>>
          /\ ~ Locking(c) /\ ~ Locking(c)'
      BY <1>0, <1>3, GiveUpEffect, SameProfile DEF Leaves, Locking
    <2> QED BY <1>0, <2>1, LockSame
  <1>4. ASSUME NEW c \in Clients, RemoveTicket(c) PROVE LockInv'
    <2>1. /\ AloneClient(c) /\ UNCHANGED <<profile, lock, active, closed>>
          /\ ~ Locking(c) /\ ~ Locking(c)'
      BY <1>0, <1>4, RemoveTicketEffect, SameProfile DEF Leaves, Locking
    <2> QED BY <1>0, <2>1, LockSame
  <1>5. ASSUME NEW c \in Clients, Select(c) PROVE LockInv'
    <2>1. /\ AloneClient(c) /\ UNCHANGED <<profile, active, closed>> /\ lock = NoPool
          /\ ~ Locking(c)
      BY <1>0, <1>5, SelectEffect DEF Locking
    <2>2. CASE lock' = lock /\ ~ Locking(c)'  BY <1>0, <2>1, <2>2, LockSame
    <2>3. CASE lock' = c /\ Locking(c)' /\ client'[c].pool = active
      BY <1>0, <2>1, <2>3, LockTaken
    <2>4. \/ lock' = lock /\ ~ Locking(c)'
          \/ lock' = c /\ Locking(c)' /\ client'[c].pool = active
      BY <1>0, <1>5, SelectEffect, SameProfile DEF Leaves, Locking
    <2> QED BY <2>2, <2>3, <2>4
  <1>6. ASSUME NEW c \in Clients, Connect(c) PROVE LockInv'
    <2>1. /\ AloneClient(c) /\ UNCHANGED <<profile, lock, active, closed>>
          /\ Locking(c)' <=> Locking(c)
          /\ client'[c].pool = client[c].pool
      BY <1>0, <1>6, ConnectEffect, SameProfile DEF Locking, SameClient
    <2> QED BY <1>0, <2>1, LockSame
  <1>7. ASSUME NEW c \in Clients, Validated(c) PROVE LockInv'
    <2>1. /\ AloneClient(c) /\ UNCHANGED <<profile, lock, active, closed>>
          /\ Locking(c)' <=> Locking(c)
          /\ client'[c].pool = client[c].pool
      BY <1>0, <1>7, ValidatedEffect, SameProfile DEF Locking, SameClient
    <2> QED BY <1>0, <2>1, LockSame
  <1>8. ASSUME NEW c \in Clients, CheckFails(c) PROVE LockInv'
    <2>1. AloneClient(c) /\ UNCHANGED <<profile, closed>> /\ client[c].pc = "validate"
      BY <1>0, <1>8, CheckFailsEffect
    <2>2. CASE Publication
      <3>1. UNCHANGED <<lock, active>> /\ ~ Locking(c) /\ ~ Locking(c)'
        BY <1>0, <1>8, <2>1, <2>2, CheckFailsEffect, SameProfile, ClientsAssumption DEF Locking, LockInv, Leaves
      <3> QED BY <1>0, <2>1, <3>1, LockSame
    <2>3. CASE ~ Publication
      <3>1. lock = c /\ lock' = NoPool /\ ~ Locking(c)' /\ (active' = active \/ active' = NoPool)
        BY <1>0, <1>8, <2>1, <2>3, CheckFailsEffect, SameProfile DEF Locking, LockInv, Leaves
      <3> QED BY <1>0, <2>1, <3>1, LockReturned
    <2> QED BY <2>2, <2>3
  <1>9. ASSUME NEW c \in Clients, Recheck(c) PROVE LockInv'
    <2>1. AloneClient(c) /\ UNCHANGED <<profile, closed>> /\ client[c].pc = "recheck"
      BY <1>0, <1>9, RecheckEffect
    <2>2. CASE Publication
      <3>1. UNCHANGED <<lock, active>> /\ ~ Locking(c) /\ ~ Locking(c)'
        BY <1>0, <1>9, <2>1, <2>2, RecheckEffect, SameProfile, ClientsAssumption DEF Locking, LockInv, Leaves
      <3> QED BY <1>0, <2>1, <3>1, LockSame
    <2>3. CASE ~ Publication
      <3>1. lock = c /\ lock' = NoPool /\ ~ Locking(c)' /\ (active' = active \/ active' = NoPool)
        BY <1>0, <1>9, <2>1, <2>3, RecheckEffect, SameProfile DEF Locking, LockInv, Leaves
      <3> QED BY <1>0, <2>1, <3>1, LockReturned
    <2> QED BY <2>2, <2>3
  <1>10. ASSUME NEW c \in Clients, Interrupt(c) PROVE LockInv'
    <2>1. AloneClient(c) /\ UNCHANGED <<profile, active, closed>>
      BY <1>0, <1>10, InterruptEffect
    <2>2. ~ Locking(c)'  BY <1>0, <1>10, InterruptEffect DEF Locking, Leaves
    <2>3. CASE Locking(c)
      <3>1. lock = c /\ lock' = NoPool
        BY <1>0, <1>10, <2>3, InterruptEffect DEF Locking, LockInv
      <3> QED BY <1>0, <2>1, <2>2, <3>1, LockReturned
    <2>4. CASE ~ Locking(c)
      <3>1. lock' = lock  BY <1>0, <1>10, <2>4, InterruptEffect DEF LockInv
      <3> QED BY <1>0, <2>1, <2>2, <2>4, <3>1, LockSame
    <2> QED BY <2>3, <2>4
  <1>11. ASSUME NEW c \in Clients, Release(c) PROVE LockInv'
    <2>1. AloneClient(c) /\ UNCHANGED <<profile, closed, lock>> /\ lock = NoPool
      BY <1>0, <1>11, ReleaseEffect
    <2>2. ~ Locking(c)' /\ (active' = active \/ active' = NoPool)
      BY <1>0, <1>11, ReleaseEffect DEF Locking, Leaves
    <2> QED BY <1>0, <2>1, <2>2, LockReturned
  <1>12. ASSUME NEW c \in Clients, LoseRelease(c) PROVE LockInv'
    <2>1. /\ AloneClient(c) /\ UNCHANGED <<profile, lock, active, closed>>
          /\ ~ Locking(c) /\ ~ Locking(c)'
      BY <1>0, <1>12, LoseReleaseEffect, SameProfile DEF Leaves, Locking
    <2> QED BY <1>0, <2>1, LockSame
  <1>13. ASSUME NEW r \in Rotators, StartRotate(r) PROVE LockInv'
    BY <1>0, <1>13, StartRotateEffect, LockIdle
  <1>14. ASSUME NEW r \in Rotators, ReplacementValidated(r) \/ AbandonRotation(r) PROVE LockInv'
    BY <1>0, <1>14, WaitEffect, LockIdle
  <1>15. ASSUME NEW r \in Rotators, RotationFails(r) PROVE LockInv'
    BY <1>0, <1>15, RotationFailsEffect, LockIdle
  <1>16. ASSUME NEW r \in Rotators, Revoke(r) PROVE LockInv'
    <2>1. /\ UNCHANGED <<profile, client, lock, closed>> /\ lock = NoPool
          /\ closed = "yes" => active' = NoPool
      BY <1>0, <1>16, RevokeEffect DEF LockInv
    <2> QED BY <1>0, <2>1, LockFree
  <1>17. ASSUME NEW r \in Rotators, CutOver(r) PROVE LockInv'
    <2>1. /\ UNCHANGED <<profile, client, lock, closed>> /\ lock = NoPool
          /\ closed = "yes" => active' = NoPool
      BY <1>0, <1>17, CutOverEffect DEF LockInv
    <2> QED BY <1>0, <2>1, LockFree
  <1>18. ASSUME BeginClose \/ FinishClose PROVE LockInv'
    <2>1. CASE BeginClose  BY <1>0, <2>1, LockIdle DEF BeginClose
    <2>2. CASE FinishClose  BY <1>0, <2>2, LockFree DEF FinishClose, Free
    <2> QED BY <1>18, <2>1, <2>2
  <1>19. ASSUME NEW p \in Pools, DisposalEnds(p) PROVE LockInv'
    BY <1>0, <1>19, LockIdle DEF DisposalEnds
  <1>20. CASE Drain  BY <1>0, <1>20, LockIdle DEF Drain
  <1>21. ASSUME NEW f \in Drifting, Drift(f) PROVE LockInv'
    BY <1>0, <1>21, DriftEffect, LockIdle DEF SameClient
  <1>22. CASE UNCHANGED vars  BY <1>0, <1>22, LockIdle DEF vars
  <1> QED
    BY <1>1, <1>2, <1>3, <1>4, <1>5, <1>6, <1>7, <1>8, <1>9, <1>10, <1>11, <1>12, <1>13, <1>14,
       <1>15, <1>16, <1>17, <1>18, <1>19, <1>20, <1>21, <1>22 DEF Next, ClientStep, RotatorStep
-----------------------------------------------------------------------------
(* Pools: how leases count, and what each kind of step does to them. *)

\* Leases are counted, so one holder is enough to keep the count above zero.
LEMMA LeasesCount ==
    ASSUME LeaseInv, NEW p \in Pools
    PROVE  /\ IsFiniteSet(Holders(p)) /\ leases[p] = Cardinality(Holders(p))
           /\ leases[p] \in Nat
           /\ \A d \in Clients : Holds(d, p) => leases[p] > 0
           /\ \A d, e \in Clients : leases[p] = 1 /\ Holds(d, p) /\ Holds(e, p) => d = e
  <1>1. IsFiniteSet(Holders(p))  BY ClientsAssumption, FS_Subset DEF Holders
  <1>2. leases[p] = Cardinality(Holders(p)) /\ leases[p] \in Nat
    BY <1>1, FS_CardinalityType DEF LeaseInv
  <1>3. ASSUME NEW d \in Clients, Holds(d, p) PROVE leases[p] > 0
    <2>1. Holders(p) # {}  BY <1>3 DEF Holders
    <2>2. Cardinality(Holders(p)) # 0  BY <1>1, <2>1, FS_EmptySet
    <2> QED BY <1>2, <2>2
  <1>4. ASSUME NEW d \in Clients, NEW e \in Clients, leases[p] = 1, Holds(d, p), Holds(e, p)
        PROVE  d = e
    <2>1. PICK x : Holders(p) = {x}  BY <1>1, <1>2, <1>4, FS_Singleton
    <2>2. d \in Holders(p) /\ e \in Holders(p)  BY <1>4 DEF Holders
    <2> QED BY <2>1, <2>2
  <1> QED BY <1>1, <1>2, <1>3, <1>4

\* Whoever uses a pool and does not hold the lock has a lease of it.
LEMMA UsingHolds ==
    ASSUME NEW c \in Clients, NEW p \in Pools, Using(c, p), ~ Locking(c)
    PROVE  Holds(c, p)
  BY DEF Using, Holds, Locking

\* The others hold and use what they did.
LEMMA OthersKeep ==
    ASSUME NEW c \in Clients, AloneClient(c), profile' = profile,
           NEW d \in Clients, d # c, NEW p \in Pools
    PROVE  (Holds(d, p)' <=> Holds(d, p)) /\ (Using(d, p)' <=> Using(d, p))
  BY SameProfile DEF AloneClient, Holds, Using

\* A step in which nobody gains or loses a lease.
LEMMA LeaseSame ==
    ASSUME LeaseInv, leases' = leases,
           \A c \in Clients, p \in Pools : Holds(c, p)' <=> Holds(c, p)
    PROVE  LeaseInv'
  <1>1. \A p \in Pools : Holders(p)' = Holders(p)  BY DEF Holders
  <1> QED BY <1>1 DEF LeaseInv

\* A client that neither takes nor gives back a pool leaves the leases right.
LEMMA LeaseAlone ==
    ASSUME LeaseInv, NEW c \in Clients, AloneClient(c), profile' = profile, leases' = leases,
           \A p \in Pools : Holds(c, p)' <=> Holds(c, p)
    PROVE  LeaseInv'
  <1>1. \A d \in Clients, p \in Pools : Holds(d, p)' <=> Holds(d, p)  BY OthersKeep
  <1> QED BY <1>1, LeaseSame

\* A request takes a lease of pool q.
LEMMA LeaseTaken ==
    ASSUME BaseTypes, LeaseInv, NEW c \in Clients, AloneClient(c), profile' = profile,
           NEW q \in Pools, leases' = [leases EXCEPT ![q] = @ + 1],
           ~ Holds(c, q), Holds(c, q)',
           \A p \in Pools : p # q => ~ Holds(c, p) /\ ~ Holds(c, p)'
    PROVE  LeaseInv'
  <1>1. Holders(q)' = Holders(q) \cup {c} /\ c \notin Holders(q)  BY OthersKeep DEF Holders
  <1>2. Cardinality(Holders(q)') = Cardinality(Holders(q)) + 1
    BY <1>1, LeasesCount, FS_AddElement
  <1>3. leases'[q] = Cardinality(Holders(q)')  BY <1>2, LeasesCount DEF BaseTypes
  <1>4. ASSUME NEW p \in Pools, p # q PROVE leases'[p] = Cardinality(Holders(p)')
    <2>1. Holders(p)' = Holders(p)  BY <1>4, OthersKeep DEF Holders
    <2> QED BY <1>4, <2>1 DEF LeaseInv, BaseTypes
  <1> QED BY <1>3, <1>4 DEF LeaseInv

\* A request returns its lease of pool q.
LEMMA LeaseReturned ==
    ASSUME BaseTypes, LeaseInv, NEW c \in Clients, AloneClient(c), profile' = profile,
           NEW q \in Pools, leases' = [leases EXCEPT ![q] = @ - 1],
           Holds(c, q), ~ Holds(c, q)',
           \A p \in Pools : p # q => ~ Holds(c, p) /\ ~ Holds(c, p)'
    PROVE  LeaseInv'
  <1>1. Holders(q)' = Holders(q) \ {c} /\ c \in Holders(q)  BY OthersKeep DEF Holders
  <1>2. Cardinality(Holders(q)') = Cardinality(Holders(q)) - 1
    BY <1>1, LeasesCount, FS_RemoveElement
  <1>3. leases'[q] = Cardinality(Holders(q)')  BY <1>2, LeasesCount DEF BaseTypes
  <1>4. ASSUME NEW p \in Pools, p # q PROVE leases'[p] = Cardinality(Holders(p)')
    <2>1. Holders(p)' = Holders(p)  BY <1>4, OthersKeep DEF Holders
    <2> QED BY <1>4, <2>1 DEF LeaseInv, BaseTypes
  <1> QED BY <1>3, <1>4 DEF LeaseInv

\* Requests come and go while every pool stays as it is.
Settling ==
    /\ UNCHANGED <<active, pool>>
    /\ \A r \in Rotators : /\ rotator'[r].pc = rotator[r].pc
                           /\ rotator'[r].pool = rotator[r].pool
                           /\ rotator'[r].selected = rotator[r].selected
    /\ \A c \in Clients : /\ client'[c].pool \in {client[c].pool, active, NoPool}
                          /\ \A p \in Pools : Using(c, p)' => Using(c, p) \/ p = active
    /\ \A p \in Pools : leases[p] > 0 => leases'[p] > 0

\* Steps that only take uses away keep the pools in order.
LEMMA PoolsSettle ==
    ASSUME PoolInv, BaseTypes, Settling, LeaseInv'
    PROVE  PoolInv'
  <1>0. UseInv /\ AttendedInv /\ ReplacementInv  BY DEF PoolInv
  <1>1. UseInv'
    <2>1. ASSUME NEW p \in Pools, NEW c \in Clients, Using(c, p)' PROVE pool[p] = "open"
      <3>1. Using(c, p) \/ p = active  BY <2>1 DEF Settling
      <3> QED BY <1>0, <3>1, PoolsAssumption DEF UseInv
    <2> QED BY <1>0, <2>1 DEF UseInv, Settling
  <1>2. AttendedInv'  BY <1>0 DEF AttendedInv, Settling
  <1>3. ReplacementInv'
    <2>1. \A c \in Clients : client'[c].pool # NoPool => pool'[client'[c].pool] # "unborn"
      BY <1>0 DEF ReplacementInv, UseInv, Settling
    <2>2. \A r \in Rotators : Replacing(r)' <=> Replacing(r)  BY DEF Replacing, Settling
    <2>3. \A r \in Rotators : rotator'[r].pool # NoPool => pool'[rotator'[r].pool] # "unborn"
      BY <1>0 DEF ReplacementInv, Settling
    <2>4. \A r \in Rotators : rotator'[r].selected # NoPool => pool'[rotator'[r].selected] # "unborn"
      BY <1>0 DEF ReplacementInv, Settling
    <2>5. ASSUME NEW r \in Rotators, Replacing(r)
          PROVE  /\ rotator'[r].pool \in Pools
                 /\ pool'[rotator'[r].pool] = "open"
                 /\ rotator'[r].pool # active'
                 /\ \A c \in Clients : client'[c].pool # rotator'[r].pool
                 /\ \A s \in Rotators : rotator'[s].selected # rotator'[r].pool
                 /\ \A s \in Rotators : s # r => rotator'[s].pool # rotator'[r].pool
      BY <1>0, <2>5, PoolsAssumption DEF ReplacementInv, Settling
    <2>6. \A r \in Rotators : rotator'[r].pc = "failed" =>
            rotator'[r].selected = NoPool \/ rotator'[r].selected # active'
      BY <1>0 DEF ReplacementInv, Settling
    <2> QED BY <2>1, <2>2, <2>3, <2>4, <2>5, <2>6 DEF ReplacementInv
  <1> QED BY <1>1, <1>2, <1>3 DEF PoolInv
\* A pool is disposed when nobody uses it any more.
LEMMA UseMoves ==
    ASSUME UseInv,
           \A p \in Pools : pool[p] = "open" =>
             pool'[p] = "open" \/ (p # active' /\ \A c \in Clients : ~ Using(c, p)'),
           \A c \in Clients, p \in Pools : Using(c, p)' => Using(c, p),
           active' # NoPool => active' \in Pools /\ pool[active'] = "open"
    PROVE  UseInv'
  <1>1. \A p \in Pools, c \in Clients : Using(c, p)' => pool'[p] = "open"  BY DEF UseInv
  <1>2. active' # NoPool => pool'[active'] = "open"  OBVIOUS
  <1> QED BY <1>1, <1>2 DEF UseInv

Attends(r, p) == rotator[r].pool = p /\ rotator[r].pc \in {"validate", "cutover", "abandoned"}

\* Whoever stops attending an open pool leaves it to another.
LEMMA AttendedMoves ==
    ASSUME AttendedInv,
           \A p \in Pools : pool'[p] = "open" => pool[p] = "open",
           \A p \in Pools : pool'[p] = "open" /\ p = active => p = active' \/ leases'[p] > 0,
           \A p \in Pools : pool'[p] = "open" /\ leases[p] > 0 => p = active' \/ leases'[p] > 0,
           \A p \in Pools, r \in Rotators :
             pool'[p] = "open" /\ Attends(r, p) => p = active' \/ Attends(r, p)'
    PROVE  AttendedInv'
  <1> SUFFICES ASSUME NEW p \in Pools, pool'[p] = "open"
               PROVE  p = active' \/ leases'[p] > 0 \/ \E r \in Rotators : Attends(r, p)'
    BY DEF AttendedInv, Attends
  <1>1. p = active \/ leases[p] > 0 \/ \E r \in Rotators : Attends(r, p)
    BY DEF AttendedInv, Attends
  <1> QED BY <1>1

\* A replacement stays the business of its rotation.
LEMMA ReplacementMoves ==
    ASSUME ReplacementInv,
           \A p \in Pools \cup {NoPool} : p # NoPool /\ pool[p] # "unborn" => pool'[p] # "unborn",
           \A c \in Clients : client[c].pool \in Pools \cup {NoPool}
                              /\ client'[c].pool \in {client[c].pool, NoPool},
           \A r \in Rotators : /\ rotator[r].pool \in Pools \cup {NoPool}
                               /\ rotator[r].selected \in Pools \cup {NoPool}
                               /\ rotator'[r].pool \in {rotator[r].pool, NoPool}
                               /\ rotator'[r].selected \in {rotator[r].selected, NoPool},
           \A r \in Rotators : Replacing(r)' =>
             /\ Replacing(r) /\ rotator'[r].pool = rotator[r].pool
             /\ pool'[rotator[r].pool] = "open" /\ rotator[r].pool # active',
           \A r \in Rotators : rotator'[r].pc = "failed" =>
             rotator'[r].selected = NoPool \/ rotator'[r].selected # active'
    PROVE  ReplacementInv'
  <1>1. \A c \in Clients : client'[c].pool # NoPool => pool'[client'[c].pool] # "unborn"
    BY DEF ReplacementInv
  <1>2. \A r \in Rotators : rotator'[r].pool # NoPool => pool'[rotator'[r].pool] # "unborn"
    BY DEF ReplacementInv
  <1>3. \A r \in Rotators : rotator'[r].selected # NoPool => pool'[rotator'[r].selected] # "unborn"
    BY DEF ReplacementInv
  <1>4. ASSUME NEW r \in Rotators, Replacing(r)'
        PROVE  /\ rotator'[r].pool \in Pools
               /\ pool'[rotator'[r].pool] = "open"
               /\ rotator'[r].pool # active'
               /\ \A c \in Clients : client'[c].pool # rotator'[r].pool
               /\ \A s \in Rotators : rotator'[s].selected # rotator'[r].pool
               /\ \A s \in Rotators : s # r => rotator'[s].pool # rotator'[r].pool
    <2>1. Replacing(r) /\ rotator'[r].pool = rotator[r].pool  BY <1>4
    <2>2. rotator[r].pool \in Pools /\ rotator[r].pool # NoPool
      BY <2>1, PoolsAssumption DEF ReplacementInv
    <2> QED BY <1>4, <2>1, <2>2 DEF ReplacementInv
  <1> QED BY <1>1, <1>2, <1>3, <1>4 DEF ReplacementInv

\* What the typed records say of the pools they name.
LEMMA NamedPools ==
    ASSUME BaseTypes
    PROVE  /\ \A c \in Clients : client[c].pool \in Pools \cup {NoPool}
           /\ \A r \in Rotators : rotator[r].pool \in Pools \cup {NoPool}
                                  /\ rotator[r].selected \in Pools \cup {NoPool}
  BY DEF BaseTypes, ClientRecord, RotatorRecord

\* DisposeIf on an open pool: it is disposed, everything else stays.
LEMMA DisposedIf ==
    ASSUME BaseTypes, NEW p \in Pools \cup {NoPool}, NEW condition \in BOOLEAN,
           pool' = DisposeIf(p, condition)
    PROVE  /\ \A q \in Pools : q # p => pool'[q] = pool[q]
           /\ p \in Pools /\ condition => pool'[p] \in {"closing", "closed"}
           /\ ~ condition => pool' = pool
           /\ \A q \in Pools : pool'[q] = "open" => pool[q] = "open"
           /\ \A q \in Pools : pool[q] # "unborn" => pool'[q] # "unborn"
  <1>1. CASE p # NoPool /\ condition
    <2>1. pool' = Dispose(p) /\ p \in Pools  BY <1>1 DEF DisposeIf
    <2> QED BY <1>1, <2>1, Disposed
  <1>2. CASE ~ (p # NoPool /\ condition)  BY <1>2, PoolsAssumption DEF DisposeIf
  <1> QED BY <1>1, <1>2
\* A request moves on without taking or returning a lease.
LEMMA PoolsQuiet ==
    ASSUME PoolInv, BaseTypes, NEW c \in Clients, AloneClient(c), profile' = profile,
           UNCHANGED <<active, leases, pool, rotator>>,
           client'[c].pool \in {client[c].pool, NoPool},
           \A p \in Pools : (Holds(c, p)' <=> Holds(c, p)) /\ (Using(c, p)' => Using(c, p))
    PROVE  PoolInv'
  <1>1. LeaseInv'  BY LeaseAlone DEF PoolInv
  <1>2. Settling
    <2>1. ASSUME NEW d \in Clients
          PROVE  /\ client'[d].pool \in {client[d].pool, active, NoPool}
                 /\ \A p \in Pools : Using(d, p)' => Using(d, p) \/ p = active
      <3>1. CASE d = c  BY <3>1
      <3>2. CASE d # c  BY <3>2, OthersKeep DEF AloneClient
      <3> QED BY <3>1, <3>2
    <2> QED BY <2>1 DEF Settling
  <1> QED BY <1>1, <1>2, PoolsSettle

\* Nothing that the pools depend on changes.
LEMMA PoolsIdle ==
    ASSUME PoolInv, BaseTypes, UNCHANGED <<profile, active, leases, pool>>,
           \A c \in Clients : /\ client'[c].pool = client[c].pool
                              /\ client'[c].pc = client[c].pc /\ client'[c].lost = client[c].lost,
           \A r \in Rotators : /\ rotator'[r].pc = rotator[r].pc
                               /\ rotator'[r].pool = rotator[r].pool
                               /\ rotator'[r].selected = rotator[r].selected
    PROVE  PoolInv'
  <1>1. \A c \in Clients, p \in Pools :
          (Holds(c, p)' <=> Holds(c, p)) /\ (Using(c, p)' <=> Using(c, p))
    BY SameProfile DEF Holds, Using
  <1>2. LeaseInv'  BY <1>1, LeaseSame DEF PoolInv
  <1>3. Settling  BY <1>1 DEF Settling
  <1> QED BY <1>2, <1>3, PoolsSettle

\* Steps that take no lease and return none.
LEMMA QuietSteps ==
    ASSUME AuthorityInv, NEW c \in Clients,
           \/ \E command \in BOOLEAN, keys \in SUBSET Keys : Begin(c, command, keys)
           \/ Admit(c) \/ Enter(c) \/ Finish(c) \/ GiveUp(c) \/ RemoveTicket(c)
           \/ Connect(c) \/ Validated(c) \/ Interrupt(c) \/ LoseRelease(c)
    PROVE  PoolInv'
  <1>0. PoolInv /\ BaseTypes /\ Local /\ LocalOf(c)  BY DEF AuthorityInv, Local
  <1> DEFINE quiet == \A p \in Pools : (Holds(c, p)' <=> Holds(c, p)) /\ (Using(c, p)' => Using(c, p))
             rest == /\ AloneClient(c) /\ profile' = profile
                     /\ UNCHANGED <<active, leases, pool, rotator>>
                     /\ client'[c].pool \in {client[c].pool, NoPool}
  <1>1. CASE \E command \in BOOLEAN, keys \in SUBSET Keys : Begin(c, command, keys)
    <2>1. rest  BY <1>0, <1>1, BeginEffect DEF SameClient, Leaves
    <2>2. quiet
      BY <1>0, <1>1, BeginEffect, SameProfile, PoolsAssumption
         DEF Holds, Using, LocalOf, Working, SameClient, Leaves
    <2> QED BY <1>0, <2>1, <2>2, PoolsQuiet
  <1>2. CASE Admit(c) \/ Enter(c) \/ Finish(c)
    <2>1. rest  BY <1>0, <1>2, AdvanceEffect DEF SameClient, Leaves
    <2>2. quiet
      BY <1>0, <1>2, AdvanceEffect, SameProfile, PoolsAssumption
         DEF Holds, Using, LocalOf, Working, SameClient, Leaves
    <2> QED BY <1>0, <2>1, <2>2, PoolsQuiet
  <1>3. CASE GiveUp(c)
    <2>1. rest  BY <1>0, <1>3, GiveUpEffect DEF SameClient, Leaves
    <2>2. quiet
      BY <1>0, <1>3, GiveUpEffect, SameProfile, PoolsAssumption
         DEF Holds, Using, LocalOf, Working, SameClient, Leaves
    <2> QED BY <1>0, <2>1, <2>2, PoolsQuiet
  <1>4. CASE RemoveTicket(c)
    <2>1. rest  BY <1>0, <1>4, RemoveTicketEffect DEF SameClient, Leaves
    <2>2. quiet
      BY <1>0, <1>4, RemoveTicketEffect, SameProfile, PoolsAssumption
         DEF Holds, Using, LocalOf, Working, SameClient, Leaves
    <2> QED BY <1>0, <2>1, <2>2, PoolsQuiet
  <1>5. CASE Connect(c)
    <2>1. rest  BY <1>0, <1>5, ConnectEffect DEF SameClient, Leaves
    <2>2. quiet
      BY <1>0, <1>5, ConnectEffect, SameProfile, PoolsAssumption
         DEF Holds, Using, LocalOf, Working, SameClient, Leaves
    <2> QED BY <1>0, <2>1, <2>2, PoolsQuiet
  <1>6. CASE Validated(c)
    <2>1. rest  BY <1>0, <1>6, ValidatedEffect DEF SameClient, Leaves
    <2>2. quiet
      BY <1>0, <1>6, ValidatedEffect, SameProfile, PoolsAssumption
         DEF Holds, Using, LocalOf, Working, SameClient, Leaves
    <2> QED BY <1>0, <2>1, <2>2, PoolsQuiet
  <1>7. CASE Interrupt(c)
    <2>1. rest  BY <1>0, <1>7, InterruptEffect DEF SameClient, Leaves
    <2>2. quiet
      BY <1>0, <1>7, InterruptEffect, SameProfile, PoolsAssumption
         DEF Holds, Using, LocalOf, Working, SameClient, Leaves
    <2> QED BY <1>0, <2>1, <2>2, PoolsQuiet
  <1>8. CASE LoseRelease(c)
    <2>1. rest  BY <1>0, <1>8, LoseReleaseEffect DEF SameClient, Leaves
    <2>2. quiet
      BY <1>0, <1>8, LoseReleaseEffect, SameProfile, PoolsAssumption
         DEF Holds, Using, LocalOf, Working, SameClient, Leaves
    <2> QED BY <1>0, <2>1, <2>2, PoolsQuiet
  <1> QED BY <1>1, <1>2, <1>3, <1>4, <1>5, <1>6, <1>7, <1>8

\* Select: nothing but the lease of the serving pool is taken.
LEMMA SelectKeepsPools == ASSUME AuthorityInv, NEW c \in Clients, Select(c) PROVE PoolInv'
  <1>0. PoolInv /\ BaseTypes /\ LocalOf(c) /\ AloneClient(c) /\ profile' = profile
        /\ UNCHANGED <<active, pool, rotator>>
    BY SelectEffect DEF AuthorityInv, Local
  <1>1. \A p \in Pools : ~ Holds(c, p) /\ ~ Using(c, p)
    BY <1>0, SelectEffect, PoolsAssumption DEF Holds, Using, LocalOf, Working
  <1>2. CASE Leaves(c) /\ leases' = leases
    <2>1. \A p \in Pools : ~ Holds(c, p)' /\ ~ Using(c, p)'
      BY <1>2, PoolsAssumption DEF Holds, Using, Leaves
    <2> QED BY <1>0, <1>1, <1>2, <2>1, PoolsQuiet DEF Leaves
  <1>3. CASE /\ active \in Pools /\ client'[c].pc = "validate" /\ client'[c].pool = active
             /\ client'[c].lost = client[c].lost
             /\ \/ Publication /\ leases' = [leases EXCEPT ![active] = @ + 1]
                \/ ~ Publication /\ leases' = leases
    <2>0. ~ client'[c].lost  BY <1>0, <1>3, SelectEffect DEF AuthorityInv, LocalOf
    <2>1. Holds(c, active)' <=> Publication  BY <1>0, <1>3, <2>0, SameProfile DEF Holds
    <2>2. \A p \in Pools : p # active => ~ Holds(c, p)' /\ ~ Using(c, p)'
      BY <1>3 DEF Holds, Using
    <2>3. LeaseInv'
      <3>1. CASE Publication  BY <1>0, <1>1, <1>3, <2>1, <2>2, <3>1, LeaseTaken DEF PoolInv
      <3>2. CASE ~ Publication  BY <1>0, <1>1, <1>3, <2>1, <2>2, <3>2, LeaseAlone DEF PoolInv
      <3> QED BY <3>1, <3>2
    <2>4. \A p \in Pools : leases[p] > 0 => leases'[p] > 0
      <3>1. leases[active] \in Nat /\ leases \in [Pools -> Int]
        BY <1>0, <1>3, LeasesCount DEF PoolInv, BaseTypes
      <3>2. CASE leases' = leases  BY <3>2
      <3>3. CASE leases' = [leases EXCEPT ![active] = @ + 1]  BY <1>3, <3>1, <3>3
      <3> QED BY <1>3, <3>2, <3>3
    <2>5. Settling
      <3>1. ASSUME NEW d \in Clients
            PROVE  /\ client'[d].pool \in {client[d].pool, active, NoPool}
                   /\ \A p \in Pools : Using(d, p)' => Using(d, p) \/ p = active
        BY <1>0, <1>3, <2>2, OthersKeep DEF AloneClient
      <3> QED BY <1>0, <2>4, <3>1 DEF Settling
    <2> QED BY <1>0, <2>3, <2>5, PoolsSettle
  <1> QED BY <1>0, <1>2, <1>3, SelectEffect

\* Recheck: governance and metadata take their lease of the pool they validated.
LEMMA RecheckKeepsPools == ASSUME AuthorityInv, NEW c \in Clients, Recheck(c) PROVE PoolInv'
  <1>0. PoolInv /\ BaseTypes /\ LocalOf(c) /\ AloneClient(c) /\ profile' = profile
        /\ UNCHANGED <<active, pool, rotator>> /\ client[c].pc = "recheck"
    BY RecheckEffect DEF AuthorityInv, Local
  <1>1. client[c].pool \in Pools /\ ~ client[c].lost  BY <1>0 DEF LocalOf, Working
  <1>2. CASE Publication \/ Leaves(c)
    <2>1. leases' = leases /\ client'[c].pool \in {client[c].pool, NoPool}
      BY <1>0, <1>2, RecheckEffect DEF SameClient, Leaves
    <2>2. \A p \in Pools : (Holds(c, p)' <=> Holds(c, p)) /\ (Using(c, p)' => Using(c, p))
      BY <1>0, <1>1, <1>2, RecheckEffect, SameProfile, PoolsAssumption
         DEF Holds, Using, SameClient, Leaves
    <2> QED BY <1>0, <2>1, <2>2, PoolsQuiet
  <1>3. CASE ~ Publication /\ ~ Leaves(c)
    <2> DEFINE q == client[c].pool
    <2>1. /\ client'[c].pc = "enter" /\ client'[c].pool = q /\ client'[c].lost = client[c].lost
          /\ leases' = [leases EXCEPT ![q] = @ + 1]
      BY <1>0, <1>3, RecheckEffect DEF SameClient
    <2>2. ~ Holds(c, q) /\ Holds(c, q)' /\ Using(c, q)
      BY <1>0, <1>1, <1>3, <2>1, SameProfile DEF Holds, Using
    <2>3. \A p \in Pools : p # q => ~ Holds(c, p) /\ ~ Holds(c, p)' /\ ~ Using(c, p)'
      BY <2>1 DEF Holds, Using
    <2>4. LeaseInv'  BY <1>0, <1>1, <2>1, <2>2, <2>3, LeaseTaken DEF PoolInv
    <2>5. \A p \in Pools : leases[p] > 0 => leases'[p] > 0
      <3>1. leases[q] \in Nat  BY <1>0, <1>1, LeasesCount DEF PoolInv
      <3> QED BY <1>0, <1>1, <2>1, <3>1 DEF BaseTypes
    <2>6. Settling
      <3>1. ASSUME NEW d \in Clients
            PROVE  /\ client'[d].pool \in {client[d].pool, active, NoPool}
                   /\ \A p \in Pools : Using(d, p)' => Using(d, p) \/ p = active
        BY <1>0, <2>1, <2>2, <2>3, OthersKeep DEF AloneClient
      <3> QED BY <1>0, <2>5, <3>1 DEF Settling
    <2> QED BY <1>0, <2>4, <2>6, PoolsSettle
  <1> QED BY <1>2, <1>3
\* With the lock free, or held by c alone, whoever else uses a pool has a lease of it.
LEMMA OthersHoldTheirs ==
    ASSUME AuthorityInv, NEW c \in Clients, lock \in {c, NoPool}, NEW d \in Clients,
           d # c \/ lock = NoPool, NEW p \in Pools, Using(d, p)
    PROVE  Holds(d, p)
  <1>1. ~ Locking(d)  BY ClientsAssumption DEF AuthorityInv, LockInv
  <1> QED BY <1>1, UsingHolds

\* CheckFails: governance and metadata retire the pool they validated.
LEMMA CheckFailsKeepsPools ==
    ASSUME AuthorityInv, NEW c \in Clients, CheckFails(c) PROVE PoolInv'
  <1>0. /\ PoolInv /\ UseInv /\ LeaseInv /\ AttendedInv /\ ReplacementInv
        /\ BaseTypes /\ LockInv /\ LocalOf(c) /\ AloneClient(c) /\ profile' = profile
        /\ UNCHANGED <<leases, rotator>> /\ client[c].pc = "validate"
    BY CheckFailsEffect DEF AuthorityInv, Local, PoolInv
  <1> DEFINE q == client[c].pool
  <1>1. q \in Pools /\ ~ client[c].lost  BY <1>0 DEF LocalOf, Working
  <1>2. CASE Publication
    <2>1. UNCHANGED <<active, pool>> /\ client'[c].pool = q
      BY <1>0, <1>2, CheckFailsEffect DEF SameClient
    <2>2. \A p \in Pools : (Holds(c, p)' <=> Holds(c, p)) /\ (Using(c, p)' => Using(c, p))
      BY <1>0, <1>1, <1>2, CheckFailsEffect, SameProfile DEF Holds, Using, SameClient
    <2> QED BY <1>0, <2>1, <2>2, PoolsQuiet
  <1>3. CASE ~ Publication
    <2>1. /\ active' = NoPool /\ pool' = DisposeIf(q, leases[q] = 0) /\ Leaves(c)
          /\ lock = c /\ q = active
      BY <1>0, <1>3, CheckFailsEffect DEF LockInv, Locking
    <2>2. \A p \in Pools : ~ Holds(c, p) /\ ~ Holds(c, p)' /\ ~ Using(c, p)'
      BY <1>0, <1>1, <1>3, <2>1, SameProfile, PoolsAssumption DEF Holds, Using, Leaves
    <2>3. /\ \A p \in Pools : p # q => pool'[p] = pool[p]
          /\ leases[q] = 0 => pool'[q] \in {"closing", "closed"}
          /\ leases[q] # 0 => pool' = pool
          /\ \A p \in Pools : pool'[p] = "open" => pool[p] = "open"
          /\ \A p \in Pools : pool[p] # "unborn" => pool'[p] # "unborn"
      BY <1>0, <1>1, <2>1, DisposedIf
    <2>4. \A p \in Pools : leases[p] \in Nat  BY <1>0, LeasesCount
    <2>5. LeaseInv'  BY <1>0, <2>2, LeaseAlone
    <2>6. \A d \in Clients, p \in Pools : Using(d, p)' => Using(d, p) /\ leases[p] > 0
      <3> SUFFICES ASSUME NEW d \in Clients, NEW p \in Pools, Using(d, p)'
                   PROVE  Using(d, p) /\ leases[p] > 0
        OBVIOUS
      <3>1. d # c  BY <2>2
      <3>2. Using(d, p)  BY <1>0, <3>1, OthersKeep
      <3>3. Holds(d, p)  BY <2>1, <3>1, <3>2, OthersHoldTheirs
      <3> QED BY <1>0, <3>2, <3>3, LeasesCount
    <2>7. UseInv'
      <3>1. \A p \in Pools : pool[p] = "open" =>
              pool'[p] = "open" \/ (p # active' /\ \A d \in Clients : ~ Using(d, p)')
        BY <2>1, <2>3, <2>4, <2>6, PoolsAssumption
      <3> QED BY <1>0, <2>1, <2>6, <3>1, UseMoves
    <2>8. AttendedInv'
      <3>1. \A p \in Pools : pool'[p] = "open" /\ p = active => leases'[p] > 0
        BY <1>0, <1>1, <2>1, <2>3, <2>4
      <3>2. \A p \in Pools, r \in Rotators : Attends(r, p)' <=> Attends(r, p)
        BY <1>0 DEF Attends
      <3> QED BY <1>0, <2>3, <3>1, <3>2, AttendedMoves
    <2>9. ReplacementInv'
      <3>1. \A r \in Rotators : Replacing(r)' => /\ Replacing(r) /\ pool'[rotator[r].pool] = "open"
                                                 /\ rotator[r].pool # active'
        BY <1>0, <2>1, <2>3, PoolsAssumption DEF Replacing, ReplacementInv
      <3>2. \A d \in Clients : client'[d].pool \in {client[d].pool, NoPool}
        BY <1>0, <2>1 DEF AloneClient, Leaves
      <3> QED BY <1>0, <2>1, <2>3, <3>1, <3>2, NamedPools, ReplacementMoves
    <2> QED BY <2>5, <2>7, <2>8, <2>9 DEF PoolInv
  <1> QED BY <1>2, <1>3

\* Release: the last lease of a pool that no longer serves disposes it.
LEMMA ReleaseKeepsPools ==
    ASSUME AuthorityInv, NEW c \in Clients, Release(c) PROVE PoolInv'
  <1> DEFINE q == client[c].pool
  <1>0. /\ PoolInv /\ UseInv /\ LeaseInv /\ AttendedInv /\ ReplacementInv
        /\ BaseTypes /\ LocalOf(c) /\ AloneClient(c) /\ profile' = profile
        /\ rotator' = rotator /\ client[c].pc = "release" /\ lock = NoPool /\ Leaves(c)
        /\ leases' = [leases EXCEPT ![q] = @ - 1]
        /\ active' = active \/ (active' = NoPool /\ active = q)
        /\ pool' = DisposeIf(q, leases[q] = 1 /\ q # active')
    BY ReleaseEffect DEF AuthorityInv, Local, PoolInv
  <1>1. q \in Pools /\ ~ client[c].lost  BY <1>0 DEF LocalOf, Working
  <1>2. /\ Holds(c, q)
        /\ \A p \in Pools : p # q => ~ Holds(c, p)
        /\ \A p \in Pools : ~ Holds(c, p)' /\ ~ Using(c, p)'
    BY <1>0, <1>1, PoolsAssumption DEF Holds, Using, Leaves
  <1>3. LeaseInv'  BY <1>0, <1>1, <1>2, LeaseReturned
  <1>4. /\ \A p \in Pools : leases[p] \in Nat /\ (p # q => leases'[p] = leases[p])
        /\ leases'[q] = leases[q] - 1 /\ leases[q] > 0
    <2>1. leases \in [Pools -> Int] /\ \A p \in Pools : leases[p] \in Nat
      BY <1>0, LeasesCount DEF BaseTypes
    <2>2. leases[q] > 0  BY <1>0, <1>1, <1>2, LeasesCount
    <2> QED BY <1>0, <1>1, <2>1, <2>2
  <1>5. /\ \A p \in Pools : p # q => pool'[p] = pool[p]
        /\ leases[q] = 1 /\ q # active' => pool'[q] \in {"closing", "closed"}
        /\ ~ (leases[q] = 1 /\ q # active') => pool' = pool
        /\ \A p \in Pools : pool'[p] = "open" => pool[p] = "open"
        /\ \A p \in Pools : pool[p] # "unborn" => pool'[p] # "unborn"
    BY <1>0, <1>1, DisposedIf
  <1>6. \A d \in Clients, p \in Pools :
          Using(d, p)' => Using(d, p) /\ (p = q => leases[q] # 1)
    <2> SUFFICES ASSUME NEW d \in Clients, NEW p \in Pools, Using(d, p)'
                 PROVE  Using(d, p) /\ (p = q => leases[q] # 1)
      OBVIOUS
    <2>1. d # c  BY <1>2
    <2>2. Using(d, p)  BY <1>0, <2>1, OthersKeep
    <2>3. Holds(d, p)  BY <1>0, <2>2, OthersHoldTheirs
    <2> QED BY <1>0, <1>1, <1>2, <2>1, <2>2, <2>3, LeasesCount
  <1>7. UseInv'
    <2>1. \A p \in Pools : pool[p] = "open" =>
            pool'[p] = "open" \/ (p # active' /\ \A d \in Clients : ~ Using(d, p)')
      BY <1>5, <1>6
    <2>2. active' # NoPool => active' \in Pools /\ pool[active'] = "open"
      BY <1>0 DEF BaseTypes, UseInv
    <2> QED BY <1>0, <1>6, <2>1, <2>2, UseMoves
  <1>8. AttendedInv'
    <2>1. \A p \in Pools : pool'[p] = "open" /\ p = active => p = active' \/ leases'[p] > 0
      BY <1>0, <1>1, <1>4, <1>5, PoolsAssumption
    <2>2. \A p \in Pools : pool'[p] = "open" /\ leases[p] > 0 => p = active' \/ leases'[p] > 0
      BY <1>0, <1>1, <1>4, <1>5
    <2>3. \A p \in Pools, r \in Rotators : Attends(r, p)' <=> Attends(r, p)
      BY <1>0 DEF Attends
    <2> QED BY <1>0, <1>5, <2>1, <2>2, <2>3, AttendedMoves
  <1>9. ReplacementInv'
    <2>1. \A r \in Rotators : Replacing(r)' => /\ Replacing(r) /\ pool'[rotator[r].pool] = "open"
                                               /\ rotator[r].pool # active'
      BY <1>0, <1>1, <1>5, PoolsAssumption DEF Replacing, ReplacementInv
    <2>2. \A d \in Clients : client'[d].pool \in {client[d].pool, NoPool}
      BY <1>0 DEF AloneClient, Leaves
    <2>3. \A r \in Rotators : rotator[r].pc = "failed" =>
            rotator[r].selected = NoPool \/ rotator[r].selected # active'
      BY <1>0 DEF ReplacementInv
    <2> QED BY <1>0, <1>5, <2>1, <2>2, <2>3, NamedPools, ReplacementMoves
  <1> QED BY <1>3, <1>7, <1>8, <1>9 DEF PoolInv
\* Steps of the rotations and of close() leave every request where it is.
LEMMA RequestsStay ==
    ASSUME LeaseInv, UNCHANGED <<profile, client, leases>>
    PROVE  /\ LeaseInv'
           /\ \A c \in Clients, p \in Pools :
                (Holds(c, p)' <=> Holds(c, p)) /\ (Using(c, p)' <=> Using(c, p))
  <1>1. \A c \in Clients, p \in Pools :
          (Holds(c, p)' <=> Holds(c, p)) /\ (Using(c, p)' <=> Using(c, p))
    BY SameProfile DEF Holds, Using
  <1> QED BY <1>1, LeaseSame

\* StartRotate: a new pool is known to its rotation alone.
LEMMA StartKeepsPools ==
    ASSUME AuthorityInv, NEW r \in Rotators, StartRotate(r) PROVE PoolInv'
  <1>0. /\ PoolInv /\ UseInv /\ LeaseInv /\ AttendedInv /\ ReplacementInv /\ BaseTypes
        /\ AloneRotator(r) /\ rotator[r].pc = "idle" /\ rotator'[r].selected = active
        /\ UNCHANGED <<profile, active, leases, client>>
    BY StartRotateEffect DEF AuthorityInv, PoolInv
  <1>1. LeaseInv' /\ \A c \in Clients, p \in Pools : Using(c, p)' <=> Using(c, p)
    BY <1>0, RequestsStay
  <1>2. active # NoPool => active \in Pools /\ pool[active] = "open"
    BY <1>0 DEF UseInv, BaseTypes
  <1>3. \A s \in Rotators : s # r => rotator'[s] = rotator[s]  BY <1>0 DEF AloneRotator
  <1>4. CASE rotator'[r].pc = "revoke" /\ rotator'[r].pool = rotator[r].pool /\ pool' = pool
    <2>1. UseInv'  BY <1>0, <1>1, <1>4 DEF UseInv
    <2>2. AttendedInv'
      <3>1. \A p \in Pools, s \in Rotators : Attends(s, p)' <=> Attends(s, p)
        BY <1>0, <1>3, <1>4 DEF Attends
      <3> QED BY <1>0, <1>4, <3>1 DEF AttendedInv, Attends
    <2>3. ReplacementInv'
      <3>1. \A s \in Rotators : Replacing(s)' => Replacing(s) /\ s # r /\ rotator'[s] = rotator[s]
        BY <1>3, <1>4 DEF Replacing
      <3>2. \A c \in Clients : client'[c].pool # NoPool => pool'[client'[c].pool] # "unborn"
        BY <1>0, <1>4 DEF ReplacementInv
      <3>3. \A s \in Rotators : rotator'[s].pool # NoPool => pool'[rotator'[s].pool] # "unborn"
        BY <1>0, <1>3, <1>4 DEF ReplacementInv
      <3>4. \A s \in Rotators : rotator'[s].selected # NoPool => pool'[rotator'[s].selected] # "unborn"
        BY <1>0, <1>2, <1>3, <1>4 DEF ReplacementInv
      <3>5. ASSUME NEW s \in Rotators, Replacing(s)'
            PROVE  /\ rotator'[s].pool \in Pools
                   /\ pool'[rotator'[s].pool] = "open"
                   /\ rotator'[s].pool # active'
                   /\ \A c \in Clients : client'[c].pool # rotator'[s].pool
                   /\ \A t \in Rotators : rotator'[t].selected # rotator'[s].pool
                   /\ \A t \in Rotators : t # s => rotator'[t].pool # rotator'[s].pool
        BY <1>0, <1>3, <1>4, <3>1, <3>5 DEF ReplacementInv
      <3>6. \A s \in Rotators : rotator'[s].pc = "failed" =>
              rotator'[s].selected = NoPool \/ rotator'[s].selected # active'
        BY <1>0, <1>3, <1>4 DEF ReplacementInv
      <3> QED BY <3>2, <3>3, <3>4, <3>5, <3>6 DEF ReplacementInv
    <2> QED BY <1>1, <2>1, <2>2, <2>3 DEF PoolInv
  <1>5. ASSUME NEW q \in Pools, pool[q] = "unborn", pool' = [pool EXCEPT ![q] = "open"],
               rotator'[r].pc = "validate", rotator'[r].pool = q
        PROVE  PoolInv'
    <2>0. q # NoPool /\ q # active  BY <1>2, <1>5, PoolsAssumption
    <2>1. pool'[q] = "open" /\ \A p \in Pools : p # q => pool'[p] = pool[p]
      BY <1>0, <1>5 DEF BaseTypes
    <2>2. UseInv'  BY <1>0, <1>1, <1>2, <1>5, <2>0, <2>1 DEF UseInv
    <2>3. AttendedInv'
      <3>1. \A p \in Pools, s \in Rotators : Attends(s, p) => Attends(s, p)'
        BY <1>0, <1>3 DEF Attends
      <3>2. Attends(r, q)'  BY <1>5 DEF Attends
      <3> QED BY <1>0, <2>1, <3>1, <3>2 DEF AttendedInv, Attends
    <2>4. ReplacementInv'
      <3>0. /\ \A c \in Clients : client[c].pool # q
            /\ \A s \in Rotators : rotator[s].pool # q /\ rotator[s].selected # q
        BY <1>0, <1>5, <2>0 DEF ReplacementInv
      <3>1. \A p \in Pools \cup {NoPool} : p # NoPool /\ pool[p] # "unborn" => pool'[p] # "unborn"
        BY <2>1
      <3>2. \A c \in Clients : client'[c].pool # NoPool => pool'[client'[c].pool] # "unborn"
        BY <1>0, <3>1, NamedPools DEF ReplacementInv
      <3>3. \A s \in Rotators : rotator'[s].pool # NoPool => pool'[rotator'[s].pool] # "unborn"
        BY <1>0, <1>3, <1>5, <2>1, <3>1, NamedPools DEF ReplacementInv
      <3>4. \A s \in Rotators : rotator'[s].selected # NoPool => pool'[rotator'[s].selected] # "unborn"
        BY <1>0, <1>2, <1>3, <3>1, NamedPools DEF ReplacementInv
      <3>5. ASSUME NEW s \in Rotators, Replacing(s)'
            PROVE  /\ rotator'[s].pool \in Pools
                   /\ pool'[rotator'[s].pool] = "open"
                   /\ rotator'[s].pool # active'
                   /\ \A c \in Clients : client'[c].pool # rotator'[s].pool
                   /\ \A t \in Rotators : rotator'[t].selected # rotator'[s].pool
                   /\ \A t \in Rotators : t # s => rotator'[t].pool # rotator'[s].pool
        <4>1. CASE s = r  BY <1>0, <1>3, <1>5, <2>0, <2>1, <3>0, <4>1
        <4>2. CASE s # r
          <5>1. Replacing(s) /\ rotator'[s] = rotator[s]  BY <1>3, <3>5, <4>2 DEF Replacing
          <5> QED BY <1>0, <1>3, <1>5, <2>0, <2>1, <3>0, <4>2, <5>1 DEF ReplacementInv
        <4> QED BY <4>1, <4>2
      <3>6. \A s \in Rotators : rotator'[s].pc = "failed" =>
              rotator'[s].selected = NoPool \/ rotator'[s].selected # active'
        BY <1>0, <1>3, <1>5 DEF ReplacementInv
      <3> QED BY <3>2, <3>3, <3>4, <3>5, <3>6 DEF ReplacementInv
    <2> QED BY <1>1, <2>2, <2>3, <2>4 DEF PoolInv
  <1> QED BY <1>0, <1>4, <1>5, StartRotateEffect

\* ReplacementValidated, AbandonRotation
LEMMA WaitKeepsPools ==
    ASSUME AuthorityInv, NEW r \in Rotators, ReplacementValidated(r) \/ AbandonRotation(r)
    PROVE  PoolInv'
  <1>0. /\ PoolInv /\ UseInv /\ LeaseInv /\ AttendedInv /\ ReplacementInv /\ BaseTypes
        /\ AloneRotator(r) /\ UNCHANGED <<profile, active, leases, pool, client>>
        /\ rotator'[r].pool = rotator[r].pool /\ rotator'[r].selected = rotator[r].selected
        /\ \/ rotator[r].pc = "validate" /\ rotator'[r].pc = "cutover"
           \/ rotator[r].pc \in {"cutover", "revoke"} /\ rotator'[r].pc = "abandoned"
    BY WaitEffect DEF AuthorityInv, PoolInv
  <1>1. LeaseInv' /\ \A c \in Clients, p \in Pools : Using(c, p)' <=> Using(c, p)
    BY <1>0, RequestsStay
  <1>2. \A s \in Rotators : s # r => rotator'[s] = rotator[s]  BY <1>0 DEF AloneRotator
  <1>3. UseInv'  BY <1>0, <1>1 DEF UseInv
  <1>4. AttendedInv'
    <2>1. \A p \in Pools, s \in Rotators : Attends(s, p) => Attends(s, p)'
      BY <1>0, <1>2 DEF Attends
    <2> QED BY <1>0, <2>1, AttendedMoves
  <1>5. ReplacementInv'
    <2>1. \A s \in Rotators : /\ Replacing(s)' => Replacing(s)
                              /\ rotator'[s].pool = rotator[s].pool
                              /\ rotator'[s].selected = rotator[s].selected
      BY <1>0, <1>2 DEF Replacing
    <2>2. \A s \in Rotators : Replacing(s)' =>
            pool'[rotator[s].pool] = "open" /\ rotator[s].pool # active'
      BY <1>0, <2>1 DEF ReplacementInv
    <2>3. \A s \in Rotators : rotator'[s].pc = "failed" =>
            rotator'[s].selected = NoPool \/ rotator'[s].selected # active'
      BY <1>0, <1>2 DEF ReplacementInv
    <2> QED BY <1>0, <2>1, <2>2, <2>3, NamedPools, ReplacementMoves
  <1> QED BY <1>1, <1>3, <1>4, <1>5 DEF PoolInv

\* RotationFails: the replacement is disposed before anything else.
LEMMA FailureKeepsPools ==
    ASSUME AuthorityInv, NEW r \in Rotators, RotationFails(r) PROVE PoolInv'
  <1> DEFINE q == rotator[r].pool
  <1>0. /\ PoolInv /\ UseInv /\ LeaseInv /\ AttendedInv /\ ReplacementInv /\ BaseTypes
        /\ AloneRotator(r) /\ UNCHANGED <<profile, active, leases, client>>
        /\ rotator[r].pc = "validate" /\ rotator'[r].pc = "revoke" /\ rotator'[r].pool = NoPool
        /\ rotator'[r].selected = rotator[r].selected /\ pool' = Dispose(q)
    BY RotationFailsEffect DEF AuthorityInv, PoolInv
  <1>1. LeaseInv' /\ \A c \in Clients, p \in Pools : Using(c, p)' <=> Using(c, p)
    BY <1>0, RequestsStay
  <1>2. \A s \in Rotators : s # r => rotator'[s] = rotator[s]  BY <1>0 DEF AloneRotator
  <1>3. /\ q \in Pools /\ pool[q] = "open" /\ q # active /\ \A c \in Clients : client[c].pool # q
        /\ \A s \in Rotators : s # r => rotator[s].pool # q
    BY <1>0 DEF ReplacementInv, Replacing
  <1>4. pool'[q] \in {"closing", "closed"} /\ \A p \in Pools : p # q => pool'[p] = pool[p]
    BY <1>0, <1>3, Disposed
  <1>5. UseInv'
    <2>1. \A c \in Clients : ~ Using(c, q)  BY <1>3 DEF Using
    <2>2. active' # NoPool => active' \in Pools /\ pool[active'] = "open"
      BY <1>0 DEF BaseTypes, UseInv
    <2> QED BY <1>0, <1>1, <1>3, <1>4, <2>1, <2>2, UseMoves
  <1>6. AttendedInv'
    <2>1. \A p \in Pools, s \in Rotators : p # q /\ Attends(s, p) => Attends(s, p)'
      BY <1>0, <1>2 DEF Attends
    <2> QED BY <1>0, <1>3, <1>4, <2>1, AttendedMoves
  <1>7. ReplacementInv'
    <2>1. \A s \in Rotators : Replacing(s)' => s # r /\ Replacing(s)
      BY <1>0, <1>2 DEF Replacing
    <2>2. \A s \in Rotators : Replacing(s)' =>
            /\ Replacing(s) /\ rotator'[s].pool = rotator[s].pool
            /\ pool'[rotator[s].pool] = "open" /\ rotator[s].pool # active'
      BY <1>0, <1>2, <1>3, <1>4, <2>1 DEF ReplacementInv
    <2>3. \A s \in Rotators : /\ rotator'[s].pool \in {rotator[s].pool, NoPool}
                              /\ rotator'[s].selected \in {rotator[s].selected, NoPool}
      BY <1>0, <1>2
    <2>4. \A s \in Rotators : rotator'[s].pc = "failed" =>
            rotator'[s].selected = NoPool \/ rotator'[s].selected # active'
      BY <1>0, <1>2 DEF ReplacementInv
    <2>5. \A p \in Pools \cup {NoPool} : p # NoPool /\ pool[p] # "unborn" => pool'[p] # "unborn"
      BY <1>4
    <2> QED BY <1>0, <2>2, <2>3, <2>4, <2>5, NamedPools, ReplacementMoves
  <1> QED BY <1>1, <1>5, <1>6, <1>7 DEF PoolInv
\* With the lock free the serving pool is replaced, and disposed unless it is leased.
LEMMA PoolRetires ==
    ASSUME AuthorityInv, lock = NoPool, UNCHANGED <<profile, client, leases>>,
           \A p \in Pools : p # active => pool'[p] = pool[p],
           active \in Pools =>
             IF active # active' /\ leases[active] = 0
             THEN pool'[active] \in {"closing", "closed"} ELSE pool'[active] = pool[active],
           active' # NoPool => active' \in Pools /\ pool[active'] = "open",
           \A s \in Rotators : /\ rotator'[s].pool \in {rotator[s].pool, NoPool}
                               /\ rotator'[s].selected \in {rotator[s].selected, NoPool},
           \A p \in Pools, s \in Rotators : Attends(s, p) => p = active' \/ Attends(s, p)',
           \A s \in Rotators : Replacing(s)' =>
             Replacing(s) /\ rotator'[s].pool = rotator[s].pool /\ rotator[s].pool # active',
           \A s \in Rotators : rotator'[s].pc = "failed" =>
             rotator'[s].selected = NoPool \/ rotator'[s].selected # active'
    PROVE  PoolInv'
  <1>0. PoolInv /\ UseInv /\ LeaseInv /\ AttendedInv /\ ReplacementInv /\ BaseTypes
    BY DEF AuthorityInv, PoolInv
  <1>1. LeaseInv' /\ \A c \in Clients, p \in Pools : Using(c, p)' <=> Using(c, p)
    BY <1>0, RequestsStay
  <1>2. \A p \in Pools : leases[p] \in Nat  BY <1>0, LeasesCount
  <1>3. ASSUME NEW c \in Clients, NEW p \in Pools, Using(c, p) PROVE leases[p] > 0
    <2>1. Holds(c, p)  BY <1>3, OthersHoldTheirs
    <2> QED BY <1>0, <2>1, LeasesCount
  <1>4. /\ \A p \in Pools : pool'[p] = "open" => pool[p] = "open"
        /\ \A p \in Pools \cup {NoPool} : p # NoPool /\ pool[p] # "unborn" => pool'[p] # "unborn"
    BY <1>0
  <1>5. UseInv'
    <2>1. ASSUME NEW p \in Pools, pool[p] = "open"
          PROVE  pool'[p] = "open" \/ (p # active' /\ \A c \in Clients : ~ Using(c, p)')
      BY <1>1, <1>2, <1>3, <2>1
    <2> QED BY <1>0, <1>1, <2>1, UseMoves
  <1>6. AttendedInv'
    <2>1. \A p \in Pools : pool'[p] = "open" /\ p = active => p = active' \/ leases'[p] > 0
      BY <1>2
    <2> QED BY <1>0, <1>4, <2>1, AttendedMoves
  <1>7. ReplacementInv'
    <2>1. \A s \in Rotators : Replacing(s) => rotator[s].pool \in Pools /\ rotator[s].pool # active
                                              /\ pool[rotator[s].pool] = "open"
      BY <1>0 DEF ReplacementInv
    <2>2. \A s \in Rotators : Replacing(s)' => pool'[rotator[s].pool] = "open"  BY <2>1
    <2>3. \A c \in Clients : client'[c].pool \in {client[c].pool, NoPool}  OBVIOUS
    <2> QED BY <1>0, <1>4, <2>2, <2>3, NamedPools, ReplacementMoves
  <1> QED BY <1>1, <1>5, <1>6, <1>7 DEF PoolInv

\* Revoke
LEMMA RevokeKeepsPools ==
    ASSUME AuthorityInv, NEW r \in Rotators, Revoke(r) PROVE PoolInv'
  <1>0. /\ PoolInv /\ UseInv /\ ReplacementInv /\ BaseTypes /\ AloneRotator(r)
        /\ UNCHANGED <<profile, client, leases>> /\ lock = NoPool
        /\ rotator[r].pc = "revoke" /\ rotator'[r].pc = "failed"
        /\ rotator'[r].pool = rotator[r].pool /\ rotator'[r].selected = rotator[r].selected
        /\ \/ active' = active /\ active # rotator[r].selected
           \/ active' = NoPool
        /\ pool' = DisposeIf(active, active # active' /\ leases[active] = 0)
    BY RevokeEffect DEF AuthorityInv, PoolInv
  <1>1. \A s \in Rotators : s # r => rotator'[s] = rotator[s]  BY <1>0 DEF AloneRotator
  <1>2. active \in Pools \cup {NoPool}  BY <1>0 DEF BaseTypes
  <1>3. /\ \A p \in Pools : p # active => pool'[p] = pool[p]
        /\ active \in Pools => IF active # active' /\ leases[active] = 0
                               THEN pool'[active] \in {"closing", "closed"}
                               ELSE pool'[active] = pool[active]
    BY <1>0, <1>2, DisposedIf
  <1>4. active' # NoPool => active' \in Pools /\ pool[active'] = "open"
    BY <1>0, <1>2 DEF UseInv
  <1>5. \A p \in Pools, s \in Rotators : Attends(s, p) => Attends(s, p)'
    BY <1>0, <1>1 DEF Attends
  <1>6. \A s \in Rotators : Replacing(s)' =>
          Replacing(s) /\ rotator'[s].pool = rotator[s].pool /\ rotator[s].pool # active'
    BY <1>0, <1>1, PoolsAssumption DEF Replacing, ReplacementInv
  <1>7. \A s \in Rotators : rotator'[s].pc = "failed" =>
          rotator'[s].selected = NoPool \/ rotator'[s].selected # active'
    BY <1>0, <1>1 DEF ReplacementInv
  <1>8. \A s \in Rotators : /\ rotator'[s].pool \in {rotator[s].pool, NoPool}
                            /\ rotator'[s].selected \in {rotator[s].selected, NoPool}
    BY <1>0, <1>1
  <1> QED BY <1>0, <1>3, <1>4, <1>5, <1>6, <1>7, <1>8, PoolRetires

\* CutOver
LEMMA CutOverKeepsPools ==
    ASSUME AuthorityInv, NEW r \in Rotators, CutOver(r) PROVE PoolInv'
  <1> DEFINE q == rotator[r].pool
  <1>0. /\ PoolInv /\ UseInv /\ LeaseInv /\ AttendedInv /\ ReplacementInv /\ BaseTypes
        /\ AloneRotator(r) /\ UNCHANGED <<profile, client, leases>> /\ lock = NoPool
        /\ rotator[r].pc = "cutover" /\ rotator'[r].pool = q /\ rotator'[r].selected = NoPool
    BY CutOverEffect DEF AuthorityInv, PoolInv
  <1>1. \A s \in Rotators : s # r => rotator'[s] = rotator[s]  BY <1>0 DEF AloneRotator
  <1>2. /\ q \in Pools /\ pool[q] = "open" /\ q # active /\ \A c \in Clients : client[c].pool # q
        /\ \A s \in Rotators : s # r => rotator[s].pool # q
        /\ \A s \in Rotators : rotator[s].selected # q
    BY <1>0 DEF ReplacementInv, Replacing
  <1>3. CASE rotator'[r].pc = "refused" /\ active' = active /\ pool' = Dispose(q)
    <2>1. LeaseInv' /\ \A c \in Clients, p \in Pools : Using(c, p)' <=> Using(c, p)
      BY <1>0, RequestsStay
    <2>2. pool'[q] \in {"closing", "closed"} /\ \A p \in Pools : p # q => pool'[p] = pool[p]
      BY <1>0, <1>2, <1>3, Disposed
    <2>3. UseInv'
      <3>1. \A c \in Clients : ~ Using(c, q)  BY <1>2 DEF Using
      <3>2. active' # NoPool => active' \in Pools /\ pool[active'] = "open"
        BY <1>0, <1>3 DEF BaseTypes, UseInv
      <3> QED BY <1>0, <1>2, <1>3, <2>1, <2>2, <3>1, <3>2, UseMoves
    <2>4. AttendedInv'
      <3>1. \A p \in Pools, s \in Rotators : p # q /\ Attends(s, p) => Attends(s, p)'
        BY <1>0, <1>1 DEF Attends
      <3> QED BY <1>0, <1>2, <1>3, <2>2, <3>1, AttendedMoves
    <2>5. ReplacementInv'
      <3>1. \A s \in Rotators : Replacing(s)' => s # r /\ Replacing(s)
        BY <1>1, <1>3 DEF Replacing
      <3>2. \A s \in Rotators : Replacing(s)' =>
              /\ Replacing(s) /\ rotator'[s].pool = rotator[s].pool
              /\ pool'[rotator[s].pool] = "open" /\ rotator[s].pool # active'
        BY <1>0, <1>1, <1>2, <1>3, <2>2, <3>1 DEF ReplacementInv
      <3>3. \A s \in Rotators : /\ rotator'[s].pool \in {rotator[s].pool, NoPool}
                                /\ rotator'[s].selected \in {rotator[s].selected, NoPool}
        BY <1>0, <1>1
      <3>4. \A s \in Rotators : rotator'[s].pc = "failed" =>
              rotator'[s].selected = NoPool \/ rotator'[s].selected # active'
        BY <1>0, <1>1, <1>3 DEF ReplacementInv
      <3>5. \A p \in Pools \cup {NoPool} : p # NoPool /\ pool[p] # "unborn" => pool'[p] # "unborn"
        BY <2>2
      <3> QED BY <1>0, <3>2, <3>3, <3>4, <3>5, NamedPools, ReplacementMoves
    <2> QED BY <2>1, <2>3, <2>4, <2>5 DEF PoolInv
  <1>4. CASE /\ rotator'[r].pc = "done" /\ active' = q
             /\ pool' = DisposeIf(active, active # NoPool /\ leases[active] = 0)
    <2>1. active \in Pools \cup {NoPool}  BY <1>0 DEF BaseTypes
    <2>2. /\ \A p \in Pools : p # active => pool'[p] = pool[p]
          /\ active \in Pools => IF active # active' /\ leases[active] = 0
                                 THEN pool'[active] \in {"closing", "closed"}
                                 ELSE pool'[active] = pool[active]
      BY <1>0, <1>2, <1>4, <2>1, DisposedIf, PoolsAssumption
    <2>3. active' # NoPool => active' \in Pools /\ pool[active'] = "open"  BY <1>2, <1>4
    <2>4. \A p \in Pools, s \in Rotators : Attends(s, p) => p = active' \/ Attends(s, p)'
      BY <1>0, <1>1, <1>4 DEF Attends
    <2>5. \A s \in Rotators : Replacing(s)' =>
            Replacing(s) /\ rotator'[s].pool = rotator[s].pool /\ rotator[s].pool # active'
      BY <1>1, <1>2, <1>4 DEF Replacing
    <2>6. \A s \in Rotators : rotator'[s].pc = "failed" =>
            rotator'[s].selected = NoPool \/ rotator'[s].selected # active'
      BY <1>0, <1>1, <1>2, <1>4
    <2>7. \A s \in Rotators : /\ rotator'[s].pool \in {rotator[s].pool, NoPool}
                              /\ rotator'[s].selected \in {rotator[s].selected, NoPool}
      BY <1>0, <1>1
    <2> QED BY <1>0, <2>2, <2>3, <2>4, <2>5, <2>6, <2>7, PoolRetires
  <1> QED BY <1>0, <1>3, <1>4, CutOverEffect

\* BeginClose, FinishClose
LEMMA CloseKeepsPools == ASSUME AuthorityInv, BeginClose \/ FinishClose PROVE PoolInv'
  <1>0. PoolInv /\ BaseTypes /\ ReplacementInv  BY DEF AuthorityInv, PoolInv
  <1>1. CASE BeginClose  BY <1>0, <1>1, PoolsIdle DEF BeginClose
  <1>2. CASE FinishClose
    <2>1. /\ UNCHANGED <<profile, client, leases, rotator>> /\ lock = NoPool /\ active' = NoPool
          /\ pool' = DisposeIf(active, active # NoPool /\ leases[active] = 0)
      BY <1>2 DEF FinishClose, Free
    <2>2. active \in Pools \cup {NoPool}  BY <1>0 DEF BaseTypes
    <2>3. /\ \A p \in Pools : p # active => pool'[p] = pool[p]
          /\ active \in Pools => IF active # active' /\ leases[active] = 0
                                 THEN pool'[active] \in {"closing", "closed"}
                                 ELSE pool'[active] = pool[active]
      BY <1>0, <2>1, <2>2, DisposedIf, PoolsAssumption
    <2>4. \A p \in Pools, s \in Rotators : Attends(s, p) => Attends(s, p)'
      BY <2>1 DEF Attends
    <2>5. \A s \in Rotators : Replacing(s)' =>
            Replacing(s) /\ rotator'[s].pool = rotator[s].pool /\ rotator[s].pool # active'
      BY <1>0, <2>1, PoolsAssumption DEF Replacing, ReplacementInv
    <2>6. \A s \in Rotators : rotator'[s].pc = "failed" =>
            rotator'[s].selected = NoPool \/ rotator'[s].selected # active'
      BY <2>1
    <2> QED BY <2>1, <2>3, <2>4, <2>5, <2>6, PoolRetires
  <1> QED BY <1>1, <1>2

\* DisposalEnds
LEMMA DisposalKeepsPools ==
    ASSUME AuthorityInv, NEW p \in Pools, DisposalEnds(p) PROVE PoolInv'
  <1>0. /\ PoolInv /\ UseInv /\ LeaseInv /\ AttendedInv /\ ReplacementInv /\ BaseTypes
        /\ UNCHANGED <<profile, active, leases, client, rotator>> /\ pool[p] = "closing"
        /\ pool' = [pool EXCEPT ![p] = "closed"]
    BY DEF AuthorityInv, PoolInv, DisposalEnds
  <1>1. LeaseInv' /\ \A c \in Clients, q \in Pools : Using(c, q)' <=> Using(c, q)
    BY <1>0, RequestsStay
  <1>2. pool'[p] = "closed" /\ \A q : q # p => pool'[q] = pool[q]  BY <1>0 DEF BaseTypes
  <1>3. UseInv'  BY <1>0, <1>1, <1>2 DEF UseInv, BaseTypes
  <1>4. AttendedInv'  BY <1>0, <1>2 DEF AttendedInv
  <1>5. ReplacementInv'
    <2>1. \A r \in Rotators : Replacing(r)' <=> Replacing(r)  BY <1>0 DEF Replacing
    <2>2. \A q : pool[q] # "unborn" => pool'[q] # "unborn"  BY <1>0, <1>2
    <2>3. \A q : pool[q] = "open" => pool'[q] = "open"  BY <1>0, <1>2
    <2> QED BY <1>0, <2>1, <2>2, <2>3 DEF ReplacementInv
  <1> QED BY <1>1, <1>3, <1>4, <1>5 DEF PoolInv

\* A step keeps the pools.
LEMMA PoolsStep == AuthorityInv /\ [Next]_vars => PoolInv'
  <1> SUFFICES ASSUME AuthorityInv, [Next]_vars PROVE PoolInv'  OBVIOUS
  <1>0. PoolInv /\ BaseTypes /\ CheckBounds  BY DEF AuthorityInv
  <1>1. ASSUME NEW c \in Clients, NEW command \in BOOLEAN, NEW keys \in SUBSET Keys,
               Begin(c, command, keys)
        PROVE  PoolInv'
    BY <1>1, QuietSteps
  <1>2. ASSUME NEW c \in Clients,
               Admit(c) \/ GiveUp(c) \/ ClientStep(c) \/ Interrupt(c) \/ LoseRelease(c)
        PROVE  PoolInv'
    BY <1>2, QuietSteps, SelectKeepsPools, CheckFailsKeepsPools, RecheckKeepsPools,
       ReleaseKeepsPools DEF ClientStep
  <1>3. ASSUME NEW r \in Rotators, StartRotate(r) \/ RotatorStep(r) \/ AbandonRotation(r)
        PROVE  PoolInv'
    BY <1>3, StartKeepsPools, WaitKeepsPools, FailureKeepsPools, RevokeKeepsPools,
       CutOverKeepsPools DEF RotatorStep
  <1>4. CASE BeginClose \/ FinishClose  BY <1>4, CloseKeepsPools
  <1>5. ASSUME NEW p \in Pools, DisposalEnds(p) PROVE PoolInv'  BY <1>5, DisposalKeepsPools
  <1>6. CASE Drain  BY <1>0, <1>6, PoolsIdle DEF Drain
  <1>7. ASSUME NEW f \in Drifting, Drift(f) PROVE PoolInv'
    BY <1>0, <1>7, DriftEffect, PoolsIdle DEF SameClient
  <1>8. CASE UNCHANGED vars  BY <1>0, <1>8, PoolsIdle DEF vars
  <1> QED BY <1>1, <1>2, <1>3, <1>4, <1>5, <1>6, <1>7, <1>8 DEF Next
-----------------------------------------------------------------------------
(* The queue of keyed mutations. *)

Waiting == {"queue", "unticket"}

\* A request goes on, but stays in the queue or has passed it already.
LEMMA QueueKept ==
    ASSUME BaseTypes, QueueInv, NEW c \in Clients, AloneClient(c), tickets' = tickets,
           client'[c].keys = client[c].keys,
           client'[c].pc \in Waiting \/ client[c].pc \notin Waiting \/ client[c].keys = {}
    PROVE  QueueInv'
  <1>1. \A i \in 1 .. Len(tickets) : tickets[i] \in Clients  BY ElementOfSeq DEF BaseTypes
  <1>2. \A d \in Clients : /\ client'[d].keys = client[d].keys
                           /\ client[d].pc \in Waiting /\ client[d].keys # {}
                              => client'[d].pc \in Waiting
    BY DEF AloneClient
  <1>3. \A i \in 1 .. Len(tickets) : client'[tickets[i]].keys # {}  BY <1>1, <1>2 DEF QueueInv
  <1>4. ASSUME NEW i \in 1 .. Len(tickets), NEW j \in 1 .. Len(tickets), j < i,
               client'[tickets[i]].keys \cap client'[tickets[j]].keys # {}
        PROVE  client'[tickets[i]].pc \in Waiting
    <2>1. client[tickets[i]].pc \in Waiting  BY <1>1, <1>2, <1>4 DEF QueueInv, Waiting
    <2>2. client[tickets[i]].keys # {}  BY DEF QueueInv
    <2> QED BY <1>1, <1>2, <2>1, <2>2
  <1> QED BY <1>3, <1>4 DEF QueueInv, Waiting

\* A step that moves no client keeps the queue in order.
LEMMA QueueIdle ==
    ASSUME BaseTypes, QueueInv, tickets' = tickets,
           \A c \in Clients : client'[c].pc = client[c].pc /\ client'[c].keys = client[c].keys
    PROVE  QueueInv'
  <1>1. \A i \in 1 .. Len(tickets) : tickets[i] \in Clients  BY ElementOfSeq DEF BaseTypes
  <1> QED BY <1>1 DEF QueueInv

\* Begin: a new ticket is the last.
LEMMA BeginKeepsQueue ==
    ASSUME AuthorityInv, NEW c \in Clients, NEW command \in BOOLEAN, NEW keys \in SUBSET Keys,
           Begin(c, command, keys)
    PROVE  QueueInv'
  <1>0. BaseTypes /\ QueueInv /\ AloneClient(c) /\ client[c].keys = {}
    BY BeginEffect DEF AuthorityInv, Local, LocalOf
  <1>1. tickets \in Seq(Clients) /\ Len(tickets) \in Nat  BY <1>0 DEF BaseTypes
  <1>2. \A i \in 1 .. Len(tickets) : tickets[i] \in Clients /\ tickets[i] # c
    BY <1>0, <1>1, ElementOfSeq DEF QueueInv
  <1>3. \A i \in 1 .. Len(tickets) : client'[tickets[i]] = client[tickets[i]]
    BY <1>0, <1>2 DEF AloneClient
  <1>4. CASE tickets' = tickets  BY <1>0, <1>3, <1>4 DEF QueueInv
  <1>5. CASE /\ client'[c].pc = "queue" /\ client'[c].keys # {} /\ tickets' = Append(tickets, c)
    <2> DEFINE n == Len(tickets)
    <2>1. /\ Len(tickets') = n + 1 /\ tickets'[n + 1] = c
          /\ \A j \in 1 .. n : tickets'[j] = tickets[j]
      BY <1>1, <1>5, Appended
    <2> HIDE DEF n
    <2>2. n \in Nat /\ n = Len(tickets)  BY <1>1 DEF n
    <2>3. \A i \in 1 .. n + 1 : i \in 1 .. n \/ i = n + 1  BY <2>2
    <2>4. \A i, j \in 1 .. n + 1 : tickets'[i] = tickets'[j] => i = j
      <3> SUFFICES ASSUME NEW i \in 1 .. n + 1, NEW j \in 1 .. n + 1, tickets'[i] = tickets'[j]
                   PROVE  i = j
        OBVIOUS
      <3>1. CASE i \in 1 .. n /\ j \in 1 .. n  BY <1>0, <2>1, <2>2, <3>1 DEF QueueInv
      <3>2. CASE i = n + 1 \/ j = n + 1  BY <1>2, <2>1, <2>2, <2>3, <3>2
      <3> QED BY <2>3, <3>1, <3>2
    <2>5. \A i \in 1 .. n + 1 : client'[tickets'[i]].keys # {}
      BY <1>0, <1>3, <1>5, <2>1, <2>2, <2>3 DEF QueueInv
    <2>6. ASSUME NEW i \in 1 .. n + 1, NEW j \in 1 .. n + 1, j < i,
                 client'[tickets'[i]].keys \cap client'[tickets'[j]].keys # {}
          PROVE  client'[tickets'[i]].pc \in {"queue", "unticket"}
      <3>1. CASE i = n + 1  BY <1>5, <2>1, <3>1
      <3>2. CASE i \in 1 .. n
        <4>1. j \in 1 .. n  BY <2>2, <2>6, <3>2
        <4>2. /\ client'[tickets'[i]] = client[tickets[i]]
              /\ client'[tickets'[j]] = client[tickets[j]]
          BY <1>3, <2>1, <2>2, <3>2, <4>1
        <4>3. client[tickets[i]].keys \cap client[tickets[j]].keys # {}  BY <2>6, <4>2
        <4>4. client[tickets[i]].pc \in {"queue", "unticket"}
          BY <1>0, <2>2, <2>6, <3>2, <4>1, <4>3 DEF QueueInv
        <4> QED BY <4>2, <4>4
      <3> QED BY <2>3, <3>1, <3>2
    <2> QED BY <2>1, <2>4, <2>5, <2>6 DEF QueueInv
  <1> QED BY <1>0, <1>4, <1>5, BeginEffect

\* Admit: nobody ahead in the queue has a key in common.
LEMMA AdmitKeepsQueue ==
    ASSUME AuthorityInv, NEW c \in Clients, Admit(c) PROVE QueueInv'
  <1>0. /\ BaseTypes /\ QueueInv /\ AloneClient(c) /\ tickets' = tickets
        /\ client'[c].keys = client[c].keys /\ ~ Blocked(c)
    BY AdvanceEffect DEF AuthorityInv, SameClient, Admit
  <1>1. \A i \in 1 .. Len(tickets) : tickets[i] \in Clients
    BY <1>0, ElementOfSeq DEF BaseTypes
  <1>2. \A d \in Clients : /\ client'[d].keys = client[d].keys
                           /\ d # c => client'[d].pc = client[d].pc
    BY <1>0 DEF AloneClient
  <1>3. ASSUME NEW i \in 1 .. Len(tickets), NEW j \in 1 .. Len(tickets), j < i,
               client'[tickets[i]].keys \cap client'[tickets[j]].keys # {}
        PROVE  client'[tickets[i]].pc \in {"queue", "unticket"}
    <2>1. tickets[i] # c
      <3>1. tickets[i] = c => tickets[j] \in Prior(c)  BY <1>3 DEF Prior
      <3>2. client[tickets[j]].keys \cap client[tickets[i]].keys # {}  BY <1>1, <1>2, <1>3
      <3> QED BY <1>0, <3>1, <3>2 DEF Blocked
    <2> QED BY <1>0, <1>1, <1>2, <1>3, <2>1 DEF QueueInv
  <1> QED BY <1>0, <1>1, <1>2, <1>3 DEF QueueInv

\* RemoveTicket: the tickets behind move up, in order.
LEMMA RemoveKeepsQueue ==
    ASSUME AuthorityInv, NEW c \in Clients, RemoveTicket(c) PROVE QueueInv'
  <1>0. BaseTypes /\ QueueInv /\ AloneClient(c)  BY RemoveTicketEffect DEF AuthorityInv
  <1>1. tickets \in Seq(Clients) /\ Len(tickets) \in Nat  BY <1>0 DEF BaseTypes
  <1>2. PICK k \in 1 .. Len(tickets) :
          /\ tickets[k] = c
          /\ tickets' = SubSeq(tickets, 1, k - 1) \o SubSeq(tickets, k + 1, Len(tickets))
    BY DEF RemoveTicket
  <1> DEFINE n == Len(tickets)
             at(j) == IF j < k THEN j ELSE j + 1
  <1>3. /\ Len(tickets') = n - 1
        /\ \A j \in 1 .. n - 1 : tickets'[j] = IF j < k THEN tickets[j] ELSE tickets[j + 1]
    <2>1. /\ Len(tickets') = Len(tickets) - 1
          /\ \A j \in 1 .. Len(tickets) - 1 :
               tickets'[j] = IF j < k THEN tickets[j] ELSE tickets[j + 1]
      BY <1>1, <1>2, TakenOut
    <2> QED BY <2>1
  <1>4. n \in Nat /\ k \in 1 .. n /\ n = Len(tickets)  BY <1>1
  <1> HIDE DEF n
  <1>5. /\ \A j \in 1 .. n - 1 : at(j) \in 1 .. n /\ at(j) # k /\ tickets'[j] = tickets[at(j)]
        /\ \A i, j \in 1 .. n - 1 : (j < i => at(j) < at(i)) /\ (at(i) = at(j) => i = j)
    BY <1>3, <1>4
  <1>6. \A i \in 1 .. n : i # k => tickets[i] # c  BY <1>0, <1>2, <1>4 DEF QueueInv
  <1>7. \A i \in 1 .. n : tickets[i] \in Clients  BY <1>1, <1>4, ElementOfSeq
  <1> HIDE DEF at
  <1>8. \A j \in 1 .. n - 1 : client'[tickets'[j]] = client[tickets[at(j)]]
    BY <1>0, <1>5, <1>6, <1>7 DEF AloneClient
  <1>9. \A i, j \in 1 .. n - 1 : tickets'[i] = tickets'[j] => i = j
    BY <1>0, <1>4, <1>5 DEF QueueInv
  <1>10. ASSUME NEW i \in 1 .. n - 1 PROVE client'[tickets'[i]].keys # {}
    <2>1. at(i) \in 1 .. Len(tickets) /\ client'[tickets'[i]] = client[tickets[at(i)]]
      BY <1>4, <1>5, <1>8
    <2>2. client[tickets[at(i)]].keys # {}  BY <1>0, <2>1 DEF QueueInv
    <2> QED BY <2>1, <2>2
  <1>11. \A i, j \in 1 .. n - 1 :
           j < i /\ client'[tickets'[i]].keys \cap client'[tickets'[j]].keys # {} =>
             client'[tickets'[i]].pc \in {"queue", "unticket"}
    BY <1>0, <1>4, <1>5, <1>8 DEF QueueInv
  <1> QED BY <1>3, <1>9, <1>10, <1>11 DEF QueueInv

\* A step keeps the order of the queue.
LEMMA QueueStep == AuthorityInv /\ [Next]_vars => QueueInv'
  <1> SUFFICES ASSUME AuthorityInv, [Next]_vars PROVE QueueInv'  OBVIOUS
  <1>0. BaseTypes /\ CheckBounds /\ QueueInv  BY DEF AuthorityInv
  <1>1. ASSUME NEW c \in Clients, NEW command \in BOOLEAN, NEW keys \in SUBSET Keys,
               Begin(c, command, keys)
        PROVE  QueueInv'
    BY <1>1, BeginKeepsQueue
  <1>2. ASSUME NEW c \in Clients, Admit(c) PROVE QueueInv'  BY <1>2, AdmitKeepsQueue
  <1>3. ASSUME NEW c \in Clients, RemoveTicket(c) PROVE QueueInv'  BY <1>3, RemoveKeepsQueue
  <1>4. ASSUME NEW c \in Clients, Enter(c) \/ Finish(c) PROVE QueueInv'
    <2>1. /\ AloneClient(c) /\ tickets' = tickets /\ client'[c].keys = client[c].keys
          /\ client'[c].pc \in Waiting \/ client[c].pc \notin Waiting \/ client[c].keys = {}
      BY <1>0, <1>4, AdvanceEffect DEF SameClient, Leaves, Waiting, Enter, Finish
    <2> QED BY <1>0, <2>1, QueueKept
  <1>5. ASSUME NEW c \in Clients, GiveUp(c) PROVE QueueInv'
    <2>1. /\ AloneClient(c) /\ tickets' = tickets /\ client'[c].keys = client[c].keys
          /\ client'[c].pc \in Waiting \/ client[c].pc \notin Waiting \/ client[c].keys = {}
      BY <1>0, <1>5, GiveUpEffect DEF SameClient, Leaves, Waiting
    <2> QED BY <1>0, <2>1, QueueKept
  <1>6. ASSUME NEW c \in Clients, Select(c) PROVE QueueInv'
    <2>1. /\ AloneClient(c) /\ tickets' = tickets /\ client'[c].keys = client[c].keys
          /\ client'[c].pc \in Waiting \/ client[c].pc \notin Waiting \/ client[c].keys = {}
      BY <1>0, <1>6, SelectEffect DEF SameClient, Leaves, Waiting
    <2> QED BY <1>0, <2>1, QueueKept
  <1>7. ASSUME NEW c \in Clients, Connect(c) PROVE QueueInv'
    <2>1. /\ AloneClient(c) /\ tickets' = tickets /\ client'[c].keys = client[c].keys
          /\ client'[c].pc \in Waiting \/ client[c].pc \notin Waiting \/ client[c].keys = {}
      BY <1>0, <1>7, ConnectEffect DEF SameClient, Leaves, Waiting
    <2> QED BY <1>0, <2>1, QueueKept
  <1>8. ASSUME NEW c \in Clients, Validated(c) PROVE QueueInv'
    <2>1. /\ AloneClient(c) /\ tickets' = tickets /\ client'[c].keys = client[c].keys
          /\ client'[c].pc \in Waiting \/ client[c].pc \notin Waiting \/ client[c].keys = {}
      BY <1>0, <1>8, ValidatedEffect DEF SameClient, Leaves, Waiting
    <2> QED BY <1>0, <2>1, QueueKept
  <1>9. ASSUME NEW c \in Clients, CheckFails(c) PROVE QueueInv'
    <2>1. /\ AloneClient(c) /\ tickets' = tickets /\ client'[c].keys = client[c].keys
          /\ client'[c].pc \in Waiting \/ client[c].pc \notin Waiting \/ client[c].keys = {}
      BY <1>0, <1>9, CheckFailsEffect DEF SameClient, Leaves, Waiting
    <2> QED BY <1>0, <2>1, QueueKept
  <1>10. ASSUME NEW c \in Clients, Recheck(c) PROVE QueueInv'
    <2>1. /\ AloneClient(c) /\ tickets' = tickets /\ client'[c].keys = client[c].keys
          /\ client'[c].pc \in Waiting \/ client[c].pc \notin Waiting \/ client[c].keys = {}
      BY <1>0, <1>10, RecheckEffect DEF SameClient, Leaves, Waiting
    <2> QED BY <1>0, <2>1, QueueKept
  <1>11. ASSUME NEW c \in Clients, Interrupt(c) PROVE QueueInv'
    <2>1. /\ AloneClient(c) /\ tickets' = tickets /\ client'[c].keys = client[c].keys
          /\ client'[c].pc \in Waiting \/ client[c].pc \notin Waiting \/ client[c].keys = {}
      BY <1>0, <1>11, InterruptEffect DEF SameClient, Leaves, Waiting
    <2> QED BY <1>0, <2>1, QueueKept
  <1>12. ASSUME NEW c \in Clients, Release(c) PROVE QueueInv'
    <2>1. /\ AloneClient(c) /\ tickets' = tickets /\ client'[c].keys = client[c].keys
          /\ client'[c].pc \in Waiting \/ client[c].pc \notin Waiting \/ client[c].keys = {}
      BY <1>0, <1>12, ReleaseEffect DEF SameClient, Leaves, Waiting
    <2> QED BY <1>0, <2>1, QueueKept
  <1>13. ASSUME NEW c \in Clients, LoseRelease(c) PROVE QueueInv'
    <2>1. /\ AloneClient(c) /\ tickets' = tickets /\ client'[c].keys = client[c].keys
          /\ client'[c].pc \in Waiting \/ client[c].pc \notin Waiting \/ client[c].keys = {}
      BY <1>0, <1>13, LoseReleaseEffect DEF SameClient, Leaves, Waiting
    <2> QED BY <1>0, <2>1, QueueKept
  <1>14. ASSUME NEW r \in Rotators, StartRotate(r) \/ RotatorStep(r) \/ AbandonRotation(r)
         PROVE  QueueInv'
    <2>1. tickets' = tickets /\ client' = client
      BY <1>0, <1>14, StartRotateEffect, WaitEffect, RotationFailsEffect, RevokeEffect,
         CutOverEffect DEF RotatorStep
    <2> QED BY <1>0, <2>1, QueueIdle
  <1>15. ASSUME NEW f \in Drifting, Drift(f) PROVE QueueInv'
    BY <1>0, <1>15, DriftEffect, QueueIdle DEF SameClient
  <1>16. CASE BeginClose \/ FinishClose \/ (\E p \in Pools : DisposalEnds(p)) \/ Drain
              \/ UNCHANGED vars
    <2>1. tickets' = tickets /\ client' = client
      BY <1>16 DEF BeginClose, FinishClose, DisposalEnds, Drain, vars
    <2> QED BY <1>0, <2>1, QueueIdle
  <1> QED BY <1>1, <1>2, <1>3, <1>4, <1>5, <1>6, <1>7, <1>8, <1>9, <1>10, <1>11, <1>12, <1>13,
       <1>14, <1>15, <1>16 DEF Next, ClientStep
-----------------------------------------------------------------------------
(* Verdicts. *)

\* Whether every check passes depends on the profile and the drift alone.
LEMMA SameChecks ==
    ASSUME profile' = profile, drift' = drift
    PROVE  AllPass' <=> AllPass
  BY DEF AllPass, Passes, Catalog, Checks, LastCheck

VerdictOf(c) ==
    /\ client[c].since <= changes
    /\ \/ client[c].pc = "validate" /\ client[c].check > LastCheck
       \/ client[c].pc = "recheck"
       => (client[c].since = changes => AllPass)

\* One request goes on while the surroundings stay.
LEMMA VerdictKept ==
    ASSUME VerdictInv, NEW c \in Clients, AloneClient(c), UNCHANGED <<profile, drift, changes>>,
           client'[c].since <= changes,
           (client'[c].pc = "validate" /\ client'[c].check > LastCheck) \/ client'[c].pc = "recheck"
             => (client'[c].since = changes => AllPass)
    PROVE  VerdictInv'
  <1>1. LastCheck' = LastCheck /\ (AllPass' <=> AllPass)  BY SameProfile, SameChecks
  <1>2. ASSUME NEW d \in Clients PROVE VerdictOf(d)'
    <2>1. CASE d = c  BY <1>1, <2>1 DEF VerdictOf
    <2>2. CASE d # c  BY <1>1, <2>2 DEF VerdictOf, VerdictInv, AloneClient
    <2> QED BY <2>1, <2>2
  <1> QED BY <1>2 DEF VerdictInv, VerdictOf

\* A step that moves no client and drifts nothing keeps every verdict.
LEMMA VerdictIdle ==
    ASSUME VerdictInv, UNCHANGED <<profile, drift, changes, client>>
    PROVE  VerdictInv'
  <1>1. LastCheck' = LastCheck /\ (AllPass' <=> AllPass)  BY SameProfile, SameChecks
  <1> QED BY <1>1 DEF VerdictInv

\* After a change of the surroundings no verdict is of that moment.
LEMMA VerdictVoid ==
    ASSUME BaseTypes, VerdictInv, changes' = changes + 1,
           \A c \in Clients : client'[c].since = client[c].since
    PROVE  VerdictInv'
  <1>1. \A c \in Clients : client[c].since \in Nat /\ changes \in Nat
    BY SizesAssumption DEF BaseTypes, ClientRecord
  <1>2. \A c \in Clients : client'[c].since <= changes' /\ client'[c].since # changes'
    BY <1>1 DEF VerdictInv
  <1> QED BY <1>2 DEF VerdictInv

\* A step keeps every verdict true to its moment.
LEMMA VerdictStep == AuthorityInv /\ [Next]_vars => VerdictInv'
  <1> SUFFICES ASSUME AuthorityInv, [Next]_vars PROVE VerdictInv'  OBVIOUS
  <1>0. BaseTypes /\ CheckBounds /\ Local /\ VerdictInv /\ LastCheck \in Nat
    BY LastCheckType DEF AuthorityInv, BaseTypes
  <1>a. changes \in Nat /\ 0 <= changes /\ \A c \in Clients : client[c].since <= changes
    BY <1>0, SizesAssumption DEF BaseTypes, VerdictInv
  <1>1. ASSUME NEW c \in Clients, NEW command \in BOOLEAN, NEW keys \in SUBSET Keys, Begin(c, command, keys)
        PROVE  VerdictInv'
    <2>1. AloneClient(c) /\ UNCHANGED <<profile, drift, changes>>  BY <1>0, <1>1, BeginEffect
    <2>2. client'[c].since <= changes /\ client'[c].pc \notin {"validate", "recheck"}
      BY <1>0, <1>a, <1>1, BeginEffect DEF Leaves
    <2> QED BY <1>0, <2>1, <2>2, VerdictKept
  <1>2. ASSUME NEW c \in Clients, Admit(c) \/ Enter(c) \/ Finish(c)
        PROVE  VerdictInv'
    <2>1. AloneClient(c) /\ UNCHANGED <<profile, drift, changes>>
      BY <1>0, <1>2, AdvanceEffect
    <2>2. client'[c].since <= changes /\ client'[c].pc \notin {"validate", "recheck"}
      BY <1>0, <1>a, <1>2, AdvanceEffect DEF Leaves
    <2> QED BY <1>0, <2>1, <2>2, VerdictKept
  <1>3. ASSUME NEW c \in Clients, GiveUp(c)
        PROVE  VerdictInv'
    <2>1. AloneClient(c) /\ UNCHANGED <<profile, drift, changes>>  BY <1>0, <1>3, GiveUpEffect
    <2>2. client'[c].since <= changes /\ client'[c].pc \notin {"validate", "recheck"}
      BY <1>0, <1>a, <1>3, GiveUpEffect DEF Leaves
    <2> QED BY <1>0, <2>1, <2>2, VerdictKept
  <1>4. ASSUME NEW c \in Clients, RemoveTicket(c)
        PROVE  VerdictInv'
    <2>1. AloneClient(c) /\ UNCHANGED <<profile, drift, changes>>
      BY <1>0, <1>4, RemoveTicketEffect
    <2>2. client'[c].since <= changes /\ client'[c].pc \notin {"validate", "recheck"}
      BY <1>0, <1>a, <1>4, RemoveTicketEffect DEF Leaves
    <2> QED BY <1>0, <2>1, <2>2, VerdictKept
  <1>5. ASSUME NEW c \in Clients, CheckFails(c)
        PROVE  VerdictInv'
    <2>1. AloneClient(c) /\ UNCHANGED <<profile, drift, changes>>
      BY <1>0, <1>5, CheckFailsEffect
    <2>2. client'[c].since <= changes /\ client'[c].pc \notin {"validate", "recheck"}
      BY <1>0, <1>a, <1>5, CheckFailsEffect DEF Leaves
    <2> QED BY <1>0, <2>1, <2>2, VerdictKept
  <1>6. ASSUME NEW c \in Clients, Recheck(c)
        PROVE  VerdictInv'
    <2>1. AloneClient(c) /\ UNCHANGED <<profile, drift, changes>>
      BY <1>0, <1>6, RecheckEffect
    <2>2. client'[c].since <= changes /\ client'[c].pc \notin {"validate", "recheck"}
      BY <1>0, <1>a, <1>6, RecheckEffect DEF Leaves
    <2> QED BY <1>0, <2>1, <2>2, VerdictKept
  <1>7. ASSUME NEW c \in Clients, Interrupt(c)
        PROVE  VerdictInv'
    <2>1. AloneClient(c) /\ UNCHANGED <<profile, drift, changes>>
      BY <1>0, <1>7, InterruptEffect
    <2>2. client'[c].since <= changes /\ client'[c].pc \notin {"validate", "recheck"}
      BY <1>0, <1>a, <1>7, InterruptEffect DEF Leaves
    <2> QED BY <1>0, <2>1, <2>2, VerdictKept
  <1>8. ASSUME NEW c \in Clients, Release(c)
        PROVE  VerdictInv'
    <2>1. AloneClient(c) /\ UNCHANGED <<profile, drift, changes>>
      BY <1>0, <1>8, ReleaseEffect
    <2>2. client'[c].since <= changes /\ client'[c].pc \notin {"validate", "recheck"}
      BY <1>0, <1>a, <1>8, ReleaseEffect DEF Leaves
    <2> QED BY <1>0, <2>1, <2>2, VerdictKept
  <1>9. ASSUME NEW c \in Clients, LoseRelease(c)
        PROVE  VerdictInv'
    <2>1. AloneClient(c) /\ UNCHANGED <<profile, drift, changes>>
      BY <1>0, <1>9, LoseReleaseEffect
    <2>2. client'[c].since <= changes /\ client'[c].pc \notin {"validate", "recheck"}
      BY <1>0, <1>a, <1>9, LoseReleaseEffect DEF Leaves
    <2> QED BY <1>0, <2>1, <2>2, VerdictKept
  <1>10. ASSUME NEW c \in Clients, Select(c) PROVE VerdictInv'
    <2>1. AloneClient(c) /\ UNCHANGED <<profile, drift, changes>> /\ client[c].check = 0
      BY <1>0, <1>10, SelectEffect DEF Local, LocalOf
    <2>2. client'[c].since <= changes /\ client'[c].pc # "recheck" /\ client'[c].check = 0
      BY <1>0, <1>a, <1>10, <2>1, SelectEffect DEF Leaves
    <2> QED BY <1>0, <2>1, <2>2, VerdictKept
  <1>11. ASSUME NEW c \in Clients, Connect(c) PROVE VerdictInv'
    <2>1. /\ AloneClient(c) /\ UNCHANGED <<profile, drift, changes>>
          /\ client'[c].pc = "validate" /\ client'[c].since = changes
          /\ client'[c].check = Reached(Catalog(drift), 1)
      BY <1>0, <1>11, ConnectEffect
    <2> DEFINE n == Reached(Catalog(drift), 1)
    <2>2. /\ n \in 1 .. LastCheck + 1
          /\ \A i \in 1 .. n - 1 : Passes(Catalog(drift), i)
      BY <1>0, ReachedFacts DEF BaseTypes
    <2> HIDE DEF n
    <2>3. n > LastCheck => AllPass
      <3>1. n > LastCheck => n - 1 = LastCheck  BY <1>0, <2>2
      <3> QED BY <2>2, <3>1 DEF AllPass
    <2>4. client'[c].check = n  BY <2>1 DEF n
    <2> QED BY <1>0, <1>a, <2>1, <2>3, <2>4, VerdictKept
  <1>12. ASSUME NEW c \in Clients, Validated(c) PROVE VerdictInv'
    <2>1. /\ AloneClient(c) /\ UNCHANGED <<profile, drift, changes>>
          /\ client[c].pc = "validate" /\ client[c].check > LastCheck
          /\ client'[c].since = client[c].since
      BY <1>0, <1>12, ValidatedEffect
    <2>2. client[c].since = changes => AllPass  BY <1>0, <2>1 DEF VerdictInv
    <2> QED BY <1>0, <1>a, <2>1, <2>2, VerdictKept
  <1>13. ASSUME NEW r \in Rotators, StartRotate(r) \/ RotatorStep(r) \/ AbandonRotation(r)
         PROVE  VerdictInv'
    <2>1. UNCHANGED <<profile, drift, changes, client>>
      BY <1>0, <1>13, StartRotateEffect, WaitEffect, RotationFailsEffect, RevokeEffect,
         CutOverEffect DEF RotatorStep
    <2> QED BY <1>0, <2>1, VerdictIdle
  <1>14. ASSUME NEW f \in Drifting, Drift(f) PROVE VerdictInv'
    BY <1>0, <1>14, DriftEffect, VerdictVoid
  <1>15. CASE Drain  BY <1>0, <1>15, VerdictVoid DEF Drain
  <1>16. CASE BeginClose \/ FinishClose \/ (\E p \in Pools : DisposalEnds(p)) \/ UNCHANGED vars
    <2>1. UNCHANGED <<profile, drift, changes, client>>
      BY <1>16 DEF BeginClose, FinishClose, DisposalEnds, vars
    <2> QED BY <1>0, <2>1, VerdictIdle
  <1> QED BY <1>1, <1>2, <1>3, <1>4, <1>5, <1>6, <1>7, <1>8, <1>9, <1>10, <1>11, <1>12, <1>13,
       <1>14, <1>15, <1>16 DEF Next, ClientStep

-----------------------------------------------------------------------------
(* The invariant, and what follows from it. *)

\* The invariant holds at the beginning.
LEMMA InitInv == Init => AuthorityInv
  <1> SUFFICES ASSUME Init PROVE AuthorityInv  OBVIOUS
  <1>0. PICK crowd \in Crowds :
          /\ client = [c \in Clients |->
                         [NewClient EXCEPT !.pc = IF c \in crowd THEN "idle" ELSE "ended"]]
          /\ rotator = [r \in Rotators |->
                         [pc |-> IF r \in crowd THEN "idle" ELSE "done",
                          pool |-> NoPool, selected |-> NoPool, check |-> 0]]
    BY DEF Init
  <1>1. \A c \in Clients :
          /\ client[c] \in ClientRecord
          /\ client[c].pc \in {"idle", "ended"} /\ client[c].pool = NoPool
          /\ client[c].check = 0 /\ client[c].since = 0 /\ ~ client[c].lost /\ client[c].keys = {}
    <2> SUFFICES ASSUME NEW c \in Clients
                 PROVE  /\ client[c] \in ClientRecord
                        /\ client[c].pc \in {"idle", "ended"} /\ client[c].pool = NoPool
                        /\ client[c].check = 0 /\ client[c].since = 0 /\ ~ client[c].lost
                        /\ client[c].keys = {}
      OBVIOUS
    <2>1. client[c] = [NewClient EXCEPT !.pc = IF c \in crowd THEN "idle" ELSE "ended"]
      BY <1>0
    <2>2. NewClient \in ClientRecord  BY DEF NewClient, ClientRecord, ClientStates
    <2> QED BY <2>1, <2>2 DEF NewClient, ClientRecord, ClientStates
  <1>2. \A r \in Rotators :
          /\ rotator[r] \in RotatorRecord
          /\ rotator[r].pc \in {"idle", "done"} /\ rotator[r].pool = NoPool
          /\ rotator[r].selected = NoPool /\ rotator[r].check = 0
    BY <1>0 DEF RotatorRecord, RotatorStates
  <1>3. BaseTypes  BY <1>0, <1>1, <1>2, PoolsAssumption, SizesAssumption DEF Init, BaseTypes
  <1>4. CheckBounds
    <2>1. 0 <= LastCheck + 1  BY <1>3, LastCheckType DEF BaseTypes
    <2> QED BY <1>1, <1>2, <2>1 DEF CheckBounds
  <1>5. Local  BY <1>1 DEF Local, LocalOf, Working
  <1>6. LockInv  BY <1>1, ClientsAssumption DEF Init, LockInv, Locking
  <1>7. \A c \in Clients, p \in Pools : ~ Holds(c, p) /\ ~ Using(c, p)
    BY <1>1, PoolsAssumption DEF Holds, Using
  <1>8. PoolInv
    <2>1. UseInv  BY <1>7, PoolsAssumption DEF Init, UseInv
    <2>2. LeaseInv
      <3>1. \A p \in Pools : Holders(p) = {}  BY <1>7 DEF Holders
      <3> QED BY <3>1, FS_EmptySet DEF Init, LeaseInv
    <2>3. AttendedInv  BY DEF Init, AttendedInv
    <2>4. ReplacementInv  BY <1>1, <1>2 DEF ReplacementInv, Replacing
    <2> QED BY <2>1, <2>2, <2>3, <2>4 DEF PoolInv
  <1>9. QueueInv  BY DEF Init, QueueInv
  <1>10. VerdictInv
    <2>1. changes = 0  BY DEF Init
    <2> QED BY <1>1, <2>1 DEF VerdictInv
  <1> QED BY <1>3, <1>4, <1>5, <1>6, <1>8, <1>9, <1>10 DEF AuthorityInv

\* Every step keeps the invariant.
LEMMA StepInv == AuthorityInv /\ [Next]_vars => AuthorityInv'
  BY TypesStep, BoundsStep, LocalStep, LockStep, PoolsStep, QueueStep, VerdictStep
     DEF AuthorityInv

\* What the invariant says of the pools and the queue.
LEMMA InvIsSound == AuthorityInv => AuthoritySound
  <1> SUFFICES ASSUME AuthorityInv PROVE AuthoritySound  OBVIOUS
  <1>0. BaseTypes /\ Local /\ UseInv /\ LeaseInv /\ AttendedInv /\ ReplacementInv /\ QueueInv
    BY DEF AuthorityInv, PoolInv
  <1>1. leases \in [Pools -> 0 .. Cardinality(Clients)]
    <2>1. ASSUME NEW p \in Pools PROVE leases[p] \in 0 .. Cardinality(Clients)
      <3>1. Holders(p) \in SUBSET Clients  BY DEF Holders
      <3>2. /\ Cardinality(Holders(p)) <= Cardinality(Clients)
            /\ Cardinality(Clients) \in Nat
        BY <3>1, ClientsAssumption, FS_Subset, FS_CardinalityType
      <3> QED BY <1>0, <3>2, LeasesCount
    <2> QED BY <1>0, <2>1 DEF BaseTypes
  <1>2. TypeOK  BY <1>0, <1>1 DEF TypeOK, BaseTypes, ClientRecord, RotatorRecord
  <1>3. PoolsSound
    BY <1>0, <1>2 DEF PoolsSound, UseInv, LeaseInv, Holders, AttendedInv, ReplacementInv
  <1>4. KeyedFIFO
    <2>1. tickets \in Seq(Clients) /\ Len(tickets) \in Nat  BY <1>0 DEF BaseTypes
    <2>2. \A i \in 1 .. Len(tickets) : client[tickets[i]].pc \notin {"idle", "ended"}
      <3>1. \A i \in 1 .. Len(tickets) : tickets[i] \in Clients  BY <2>1, ElementOfSeq
      <3> QED BY <1>0, <3>1 DEF QueueInv, Local, LocalOf
    <2>3. ASSUME NEW i \in 1 .. Len(tickets), NEW j \in 1 .. i - 1,
                 client[tickets[i]].keys \cap client[tickets[j]].keys # {}
          PROVE  client[tickets[i]].pc \in {"queue", "unticket"}
      <3>1. j \in 1 .. Len(tickets) /\ j < i  BY <2>1
      <3> QED BY <1>0, <2>3, <3>1 DEF QueueInv
    <2> QED BY <2>2, <2>3 DEF KeyedFIFO
  <1> QED BY <1>3, <1>4 DEF AuthoritySound

\* The pools of an authority and its queue of keyed mutations stay sound, however
\* many requests, rotations, changes of the catalog and pools there are.
THEOREM AuthorityStaysSound == Spec => []AuthoritySound
  <1>1. Init => AuthorityInv  BY InitInv
  <1>2. AuthorityInv /\ [Next]_vars => AuthorityInv'  BY StepInv
  <1>3. AuthorityInv => AuthoritySound  BY InvIsSound
  <1> QED BY <1>1, <1>2, <1>3, PTL DEF Spec

\* Only Recheck hands out a transaction.
LEMMA EntersByRecheck ==
    ASSUME AuthorityInv, [Next]_vars, NEW d \in Clients,
           client[d].pc # "enter", client'[d].pc = "enter"
    PROVE  Recheck(d)
  <1>0. BaseTypes /\ CheckBounds  BY DEF AuthorityInv
  <1>1. ASSUME NEW c \in Clients, NEW command \in BOOLEAN, NEW keys \in SUBSET Keys,
               Begin(c, command, keys) PROVE FALSE
    BY <1>0, <1>1, BeginEffect DEF AloneClient, Leaves
  <1>2. ASSUME NEW c \in Clients, Admit(c) \/ Enter(c) \/ Finish(c) PROVE FALSE
    BY <1>0, <1>2, AdvanceEffect DEF AloneClient, Leaves
  <1>3. ASSUME NEW c \in Clients, GiveUp(c) PROVE FALSE
    BY <1>0, <1>3, GiveUpEffect DEF AloneClient, Leaves
  <1>4. ASSUME NEW c \in Clients, RemoveTicket(c) PROVE FALSE
    BY <1>0, <1>4, RemoveTicketEffect DEF AloneClient, Leaves
  <1>5. ASSUME NEW c \in Clients, Select(c) PROVE FALSE
    BY <1>0, <1>5, SelectEffect DEF AloneClient, Leaves
  <1>6. ASSUME NEW c \in Clients, Connect(c) PROVE FALSE
    BY <1>0, <1>6, ConnectEffect DEF AloneClient, Leaves
  <1>7. ASSUME NEW c \in Clients, Validated(c) PROVE FALSE
    BY <1>0, <1>7, ValidatedEffect DEF AloneClient, Leaves
  <1>8. ASSUME NEW c \in Clients, CheckFails(c) PROVE FALSE
    BY <1>0, <1>8, CheckFailsEffect DEF AloneClient, Leaves
  <1>9. ASSUME NEW c \in Clients, Interrupt(c) PROVE FALSE
    BY <1>0, <1>9, InterruptEffect DEF AloneClient, Leaves
  <1>10. ASSUME NEW c \in Clients, Release(c) PROVE FALSE
    BY <1>0, <1>10, ReleaseEffect DEF AloneClient, Leaves
  <1>11. ASSUME NEW c \in Clients, LoseRelease(c) PROVE FALSE
    BY <1>0, <1>11, LoseReleaseEffect DEF AloneClient, Leaves
  <1>12. ASSUME NEW c \in Clients, Recheck(c) PROVE c = d
    BY <1>0, <1>12, RecheckEffect DEF AloneClient
  <1>13. ASSUME NEW r \in Rotators, StartRotate(r) \/ RotatorStep(r) \/ AbandonRotation(r)
         PROVE  FALSE
    BY <1>0, <1>13, StartRotateEffect, WaitEffect, RotationFailsEffect, RevokeEffect,
       CutOverEffect DEF RotatorStep
  <1>14. ASSUME NEW f \in Drifting, Drift(f) PROVE FALSE  BY <1>0, <1>14, DriftEffect
  <1>15. CASE BeginClose \/ FinishClose \/ (\E p \in Pools : DisposalEnds(p)) \/ Drain
              \/ UNCHANGED vars
    BY <1>15 DEF BeginClose, FinishClose, DisposalEnds, Drain, vars
  <1> QED BY <1>1, <1>2, <1>3, <1>4, <1>5, <1>6, <1>7, <1>8, <1>9, <1>10, <1>11, <1>12, <1>13,
       <1>14, <1>15 DEF Next, ClientStep

\* No step hands out a transaction otherwise.
LEMMA EntersStep == ASSUME AuthorityInv, [Next]_vars PROVE Enters
  <1> SUFFICES ASSUME NEW c \in Clients, client[c].pc # "enter", client'[c].pc = "enter"
               PROVE  /\ client[c].pool = active
                      /\ ~ Refusing
                      /\ Admissible(c)
                      /\ client[c].since = changes =>
                           \A k \in 1 .. LastCheck : Passes(Catalog(drift), k)
    BY DEF Enters
  <1>0. BaseTypes /\ Local /\ LockInv /\ VerdictInv  BY DEF AuthorityInv
  <1>1. Recheck(c)  BY EntersByRecheck
  <1>2. client[c].pc = "recheck" /\ StillCurrent(c)  BY <1>0, <1>1, RecheckEffect DEF Leaves
  <1>3. client[c].since = changes => AllPass  BY <1>0, <1>2 DEF VerdictInv
  <1>4. client[c].pool = active /\ ~ Refusing
    <2>1. CASE Publication  BY <1>2, <2>1 DEF StillCurrent
    <2>2. CASE ~ Publication
      <3>1. client[c].pool = active /\ client[c].pool \in Pools
        BY <1>0, <1>2, <2>2 DEF LockInv, Locking, Local, LocalOf, Working
      <3> QED BY <1>0, <2>2, <3>1, PoolsAssumption DEF LockInv, Refusing
    <2> QED BY <2>1, <2>2
  <1> QED BY <1>2, <1>3, <1>4 DEF StillCurrent, AllPass

\* A transaction is handed out on the pool that serves, to an active handler, and
\* on the verdict of its own validation: no step of any execution does otherwise.
THEOREM EntryIsCurrent == Spec => [][Enters]_vars
  <1>1. AuthorityInv /\ [Next]_vars => Enters  BY EntersStep
  <1>2. Init => AuthorityInv  BY InitInv
  <1>3. AuthorityInv /\ [Next]_vars => AuthorityInv'  BY StepInv
  <1> QED BY <1>1, <1>2, <1>3, PTL DEF Spec

-----------------------------------------------------------------------------
(* Migrations: what connects a deployer's task, child, session and pipe.   *)

ParentStates == {"idle", "waiting", "polled", "stopping", "joining", "cleanup", "done", "crashed"}
Results == {"none", "committed", "error", "exited", "lost", "cancelled", "unconfirmed",
            "interrupted"}
\* The outcomes that say nothing of the session
Unsettled == {"unconfirmed", "interrupted"}
ChildStates ==
    {"none", "spawned", "lock", "lock_acquired", "schema_applied", "ready_to_commit", "committed",
     "closing", "exited"}

\* Phases at which the child waits for an answer, under the lock
Phases == {"lock_acquired", "schema_applied", "ready_to_commit"}
Messages == Phases \cup {"backend", "committed", "error"}
Answers == {"continue", "commit", "abort"}

\* The types of what belongs to one deployer
DeployerTypes(d) ==
    /\ parent[d] = [pc |-> parent[d].pc, pid |-> parent[d].pid,
                    authorized |-> parent[d].authorized, result |-> parent[d].result]
    /\ parent[d].pc \in ParentStates /\ parent[d].result \in Results
    /\ child[d] = [pc |-> child[d].pc, staged |-> child[d].staged, durable |-> child[d].durable]
    /\ child[d].pc \in ChildStates
    /\ session[d] \in {"none", "open", "orphan", "waiting"}
    /\ up[d] \in Seq(Messages) /\ down[d] \in Seq(Answers)

\* The recorded history: what is applied, and a numbered release for each module
DbType ==
    /\ db = [applied |-> db.applied, inventory |-> db.inventory]
    /\ \A o \in DOMAIN db.inventory : db.inventory[o].version \in Nat

\* One task, process, session and pipe for each deployer
ParentTypes == DOMAIN parent = Deployers /\ parent = [d \in Deployers |-> parent[d]]
ChildTypes == DOMAIN child = Deployers /\ child = [d \in Deployers |-> child[d]]
SessionTypes == DOMAIN session = Deployers /\ session = [d \in Deployers |-> session[d]]
UpTypes == DOMAIN up = Deployers /\ up = [d \in Deployers |-> up[d]]
DownTypes == DOMAIN down = Deployers /\ down = [d \in Deployers |-> down[d]]

MigrationTypes ==
    /\ DbType /\ ParentTypes /\ ChildTypes /\ SessionTypes /\ UpTypes /\ DownTypes
    /\ mlock \in Deployers \cup {"none"}
    /\ runs \in 0 .. MaxRuns

\* Who is under the lock holds it, and the lock is that of a session.
SessionInv(d) ==
    /\ child[d].pc \in Phases => mlock = d
    /\ child[d].pc \in Phases \cup {"lock"} => session[d] = "open"
    /\ mlock = d => session[d] # "none"
    /\ session[d] \in {"orphan", "waiting"} => ~ Migrations!Alive(d)

\* What is staged under the lock extends the history that is recorded.
StagedInv(d) ==
    child[d].pc \in {"schema_applied", "ready_to_commit"} =>
      /\ child[d].staged = [applied |-> child[d].staged.applied,
                            inventory |-> child[d].staged.inventory]
      /\ \A o \in DOMAIN child[d].staged.inventory :
           child[d].staged.inventory[o].version \in Nat
      /\ \A o \in DOMAIN db.inventory :
           LET before == db.inventory[o]
               after == Migrations!Row(child[d].staged, o) IN
           before.format = 2 /\ after.format = 2 =>
             /\ before.ids \subseteq after.ids
             /\ before.manifest \subseteq after.manifest
             /\ before.version <= after.version

\* An answer is on its way to the child.
Replied(d) == Len(down[d]) > 0 /\ down[d][1] # "abort"

\* The messages to the parent: each phase is announced last, and once.
UpInv(d) ==
    /\ Len(up[d]) <= 3
    /\ child[d].pc \in {"none", "spawned", "committed"} => Len(up[d]) = 0
    /\ child[d].pc \in {"lock", "schema_applied", "ready_to_commit"} => Len(up[d]) <= 1
    /\ child[d].pc = "lock_acquired" => Len(up[d]) <= 2
    /\ \A i \in 1 .. Len(up[d]) :
         /\ child[d].pc = "lock" => up[d][i] \notin Phases
         /\ child[d].pc \in Phases => (up[d][i] \in Phases <=> i = Len(up[d]))
         /\ \A j \in 1 .. Len(up[d]) : up[d][i] \in Phases /\ up[d][j] \in Phases => i = j
         /\ up[d][i] = "committed" => child[d].pc \in {"closing", "exited"} /\ child[d].durable

\* The messages to the child: one answer at most, which leaves no phase unanswered, and one
\* abort at most, when the parent has stopped listening.
DownInv(d) ==
    /\ Len(down[d]) <= 2
    /\ Len(down[d]) = 2 => down[d][2] = "abort"
    /\ \A i \in 1 .. Len(down[d]) : down[d][i] = "abort" =>
         i = Len(down[d]) /\ parent[d].pc \in {"joining", "done", "crashed"}
    /\ Replied(d) =>
         /\ child[d].pc \notin {"none", "spawned", "lock", "committed"}
         /\ \A i \in 1 .. Len(up[d]) : up[d][i] \notin Phases
         /\ down[d][1] = "commit" => parent[d].authorized

\* What the parent knows
ParentInv(d) ==
    /\ d \in Commands => /\ parent[d].pc = "idle" /\ parent[d].result = "none"
                         /\ Len(up[d]) = 0 /\ Len(down[d]) = 0
    /\ child[d].pc = "committed" => child[d].durable
    /\ child[d].durable => parent[d].authorized \/ d \in Commands
    /\ parent[d].pc \in {"waiting", "polled"} => parent[d].result = "none"
    /\ parent[d].result = "cancelled" => ~ parent[d].authorized
    /\ parent[d].result = "committed" => child[d].pc \in {"closing", "exited"} /\ child[d].durable
    /\ parent[d].pc = "done" => ~ Migrations!Alive(d)
    /\ parent[d].pc = "done" /\ parent[d].pid
         /\ parent[d].result \in {"cancelled", "committed", "error", "lost"} => session[d] = "none"

\* The inductive invariant of the migrations
MigrationInv ==
    /\ MigrationTypes
    /\ \A d \in Deployers : DeployerTypes(d) /\ SessionInv(d) /\ StagedInv(d)
    /\ \A d \in Deployers : UpInv(d) /\ DownInv(d) /\ ParentInv(d)

-----------------------------------------------------------------------------
(* A step of one deployer leaves the others as they are.                    *)

Kept(d) ==
    /\ parent'[d] = parent[d] /\ child'[d] = child[d] /\ session'[d] = session[d]
    /\ up'[d] = up[d] /\ down'[d] = down[d] /\ (mlock' = d <=> mlock = d)

\* Only the holder of the lock changes the history.
Touches(e) ==
    /\ MigrationTypes'
    /\ \A d \in Deployers \ {e} : Kept(d)
    /\ db' = db \/ mlock = e

DeployerInv(d) ==
    DeployerTypes(d) /\ SessionInv(d) /\ StagedInv(d) /\ UpInv(d) /\ DownInv(d) /\ ParentInv(d)

\* The invariant of one deployer is not disturbed by a step of another.
LEMMA KeptInv ==
    ASSUME NEW d \in Deployers, Kept(d), DeployerInv(d), db' = db \/ mlock # d
    PROVE  DeployerInv(d)'
  <1>1. DeployerTypes(d)'  BY DEF Kept, DeployerInv, DeployerTypes
  <1>2. SessionInv(d)'
    BY DEF Kept, DeployerInv, SessionInv, Migrations!Alive, Migrations!None
  <1>3. StagedInv(d)'
    <2>1. CASE db' = db
      BY <2>1 DEF Kept, DeployerInv, StagedInv, Migrations!Row, Migrations!NoRow
    <2>2. CASE mlock # d  BY <2>2 DEF Kept, DeployerInv, StagedInv, SessionInv, Phases
    <2> QED BY <2>1, <2>2
  <1>4. UpInv(d)'  BY DEF Kept, DeployerInv, UpInv
  <1>5. DownInv(d)'  BY DEF Kept, DeployerInv, DownInv, Replied
  <1>6. ParentInv(d)'  BY DEF Kept, DeployerInv, ParentInv, Migrations!Alive, Migrations!None
  <1> QED BY <1>1, <1>2, <1>3, <1>4, <1>5, <1>6 DEF DeployerInv

LEMMA MigrationFrame ==
    ASSUME MigrationInv, NEW e \in Deployers, Touches(e), DeployerInv(e)'
    PROVE  MigrationInv'
  <1>1. ASSUME NEW d \in Deployers PROVE DeployerInv(d)'
    <2>1. CASE d = e  BY <2>1
    <2>2. CASE d # e
      <3>1. DeployerInv(d)  BY DEF MigrationInv, DeployerInv
      <3>2. Kept(d) /\ (db' = db \/ mlock # d)  BY <2>2 DEF Touches
      <3> QED BY <3>1, <3>2, KeptInv
    <2> QED BY <2>1, <2>2
  <1>2. MigrationTypes'  BY DEF Touches
  <1> QED BY <1>1, <1>2 DEF MigrationInv, DeployerInv

-----------------------------------------------------------------------------
(* The pipe.                                                                *)

LEMMA AppendFacts ==
    ASSUME NEW S, NEW s \in Seq(S), NEW m \in S
    PROVE  /\ Append(s, m) \in Seq(S) /\ Len(s) \in Nat /\ Len(Append(s, m)) = Len(s) + 1
           /\ \A i \in 1 .. Len(s) : Append(s, m)[i] = s[i]
           /\ Append(s, m)[Len(s) + 1] = m
  BY AppendProperties, LenProperties

LEMMA TailFacts ==
    ASSUME NEW S, NEW s \in Seq(S), s # <<>>
    PROVE  /\ Tail(s) \in Seq(S) /\ Len(s) \in Nat /\ Len(s) > 0 /\ Len(Tail(s)) = Len(s) - 1
           /\ \A i \in 1 .. Len(s) - 1 : Tail(s)[i] = s[i + 1]
           /\ Head(s) = s[1] /\ s[1] \in S
  <1>1. Len(s) \in Nat /\ Len(s) > 0  BY EmptySeq, LenProperties
  <1>2. Head(s) \in S /\ Tail(s) \in Seq(S) /\ Len(Tail(s)) = Len(s) - 1
    BY HeadTailProperties
  <1>3. Head(s) = s[1] /\ \A i \in 1 .. Len(s) - 1 : Tail(s)[i] = s[i + 1]
    BY <1>1, <1>2, HeadTailProperties
  <1> QED BY <1>1, <1>2, <1>3

-----------------------------------------------------------------------------
(* What the parts of a step change.                                         *)

LEMMA TypesOf ==
    ASSUME MigrationInv
    PROVE  /\ ChildTypes /\ ParentTypes /\ SessionTypes /\ UpTypes /\ DownTypes
           /\ DbType /\ mlock \in Deployers \cup {"none"} /\ runs \in 0 .. MaxRuns
           /\ \A d \in Deployers : DeployerInv(d)
  BY DEF MigrationInv, MigrationTypes, DeployerInv

LEMMA ChildEffect ==
    ASSUME ChildTypes, NEW e \in Deployers, DeployerTypes(e), NEW pc, Migrations!Child(e, pc)
    PROVE  /\ ChildTypes'
           /\ \A d \in Deployers \ {e} : child'[d] = child[d]
           /\ child'[e] = [pc |-> pc, staged |-> child[e].staged, durable |-> child[e].durable]
  BY DEF ChildTypes, DeployerTypes, Migrations!Child

LEMMA ParentEffect ==
    ASSUME ParentTypes, NEW e \in Deployers, DeployerTypes(e), NEW pc, Migrations!Parent(e, pc)
    PROVE  /\ ParentTypes'
           /\ \A d \in Deployers \ {e} : parent'[d] = parent[d]
           /\ parent'[e] = [pc |-> pc, pid |-> parent[e].pid,
                            authorized |-> parent[e].authorized, result |-> parent[e].result]
  BY DEF ParentTypes, DeployerTypes, Migrations!Parent

LEMMA SendEffect ==
    ASSUME UpTypes, NEW e \in Deployers, DeployerTypes(e), NEW m \in Messages, Migrations!Send(e, m)
    PROVE  /\ UpTypes'
           /\ \A d \in Deployers \ {e} : up'[d] = up[d]
           /\ up'[e] \in Seq(Messages) /\ Len(up[e]) \in Nat
           /\ e \in Commands => up' = up
           /\ e \notin Commands =>
                /\ Len(up'[e]) = Len(up[e]) + 1
                /\ \A i \in 1 .. Len(up[e]) : up'[e][i] = up[e][i]
                /\ up'[e][Len(up[e]) + 1] = m
           /\ Len(up'[e]) \in Nat /\ Len(up'[e]) <= Len(up[e]) + 1
           /\ \A i \in 1 .. Len(up'[e]) :
                up'[e][i] = m \/ (i \in 1 .. Len(up[e]) /\ up'[e][i] = up[e][i])
  <1>0. up[e] \in Seq(Messages)  BY DEF DeployerTypes
  <1>1. Len(up[e]) \in Nat  BY <1>0, LenProperties
  <1>2. CASE e \in Commands
    <2>1. up' = up  BY <1>2 DEF Migrations!Send
    <2>2. Len(up'[e]) = Len(up[e]) /\ \A i \in 1 .. Len(up'[e]) : up'[e][i] = up[e][i]
      BY <2>1
    <2>3. Len(up'[e]) \in Nat /\ Len(up'[e]) <= Len(up[e]) + 1  BY <1>1, <2>2
    <2>4. \A i \in 1 .. Len(up'[e]) :
            up'[e][i] = m \/ (i \in 1 .. Len(up[e]) /\ up'[e][i] = up[e][i])
      BY <2>2
    <2> QED BY <1>0, <1>1, <1>2, <2>1, <2>3, <2>4 DEF UpTypes
  <1>3. CASE e \notin Commands
    <2>1. /\ UpTypes' /\ up'[e] = Append(up[e], m)
          /\ \A d \in Deployers \ {e} : up'[d] = up[d]
      BY <1>3 DEF Migrations!Send, UpTypes
    <2>2. /\ Append(up[e], m) \in Seq(Messages) /\ Len(Append(up[e], m)) = Len(up[e]) + 1
          /\ \A i \in 1 .. Len(up[e]) : Append(up[e], m)[i] = up[e][i]
          /\ Append(up[e], m)[Len(up[e]) + 1] = m
      BY <1>0, AppendFacts
    <2>3. Len(up'[e]) \in Nat /\ Len(up'[e]) <= Len(up[e]) + 1  BY <1>1, <2>1, <2>2
    <2>4. ASSUME NEW i \in 1 .. Len(up'[e])
          PROVE  up'[e][i] = m \/ (i \in 1 .. Len(up[e]) /\ up'[e][i] = up[e][i])
      <3>1. i = Len(up[e]) + 1 \/ i \in 1 .. Len(up[e])  BY <1>1, <2>1, <2>2
      <3>2. CASE i = Len(up[e]) + 1  BY <2>1, <2>2, <3>2
      <3>3. CASE i \in 1 .. Len(up[e])  BY <2>1, <2>2, <3>3
      <3> QED BY <3>1, <3>2, <3>3
    <2> QED BY <1>1, <1>3, <2>1, <2>2, <2>3, <2>4
  <1> QED BY <1>2, <1>3

LEMMA EndSessionEffect ==
    ASSUME SessionTypes, NEW e \in Deployers, mlock \in Deployers \cup {"none"},
           Migrations!EndSession(e)
    PROVE  /\ SessionTypes'
           /\ \A d \in Deployers \ {e} : session'[d] = session[d] /\ (mlock' = d <=> mlock = d)
           /\ session'[e] = "none" /\ mlock' # e
           /\ mlock' \in Deployers \cup {"none"}
  BY DeployersAssumption DEF SessionTypes, Migrations!EndSession, Migrations!None

LEMMA KilledEffect ==
    ASSUME SessionTypes, ChildTypes, NEW e \in Deployers, DeployerTypes(e), Migrations!Killed(e)
    PROVE  /\ SessionTypes' /\ ChildTypes'
           /\ \A d \in Deployers \ {e} : session'[d] = session[d] /\ child'[d] = child[d]
           /\ session'[e] \in {"none", "orphan", "waiting"}
           /\ session'[e] = "none" <=> session[e] = "none"
           /\ child'[e] = [pc |-> "exited", staged |-> child[e].staged, durable |-> child[e].durable]
  <1>1. Migrations!Child(e, "exited")  BY DEF Migrations!Killed
  <1>2. /\ ChildTypes' /\ \A d \in Deployers \ {e} : child'[d] = child[d]
        /\ child'[e] = [pc |-> "exited", staged |-> child[e].staged, durable |-> child[e].durable]
    BY <1>1, ChildEffect
  <1>3. /\ SessionTypes' /\ \A d \in Deployers \ {e} : session'[d] = session[d]
        /\ session'[e] \in {"none", "orphan", "waiting"}
        /\ session'[e] = "none" <=> session[e] = "none"
    BY DEF Migrations!Killed, SessionTypes, Migrations!None
  <1> QED BY <1>2, <1>3

\* The first answer is taken from the pipe.
LEMMA AnsweredEffect ==
    ASSUME DownTypes, NEW e \in Deployers, DeployerTypes(e), DownInv(e),
           NEW phase, NEW answer \in Answers \ {"abort"}, Migrations!Answered(e, phase, answer)
    PROVE  /\ child[e].pc = phase
           /\ DownTypes' /\ \A d \in Deployers \ {e} : down'[d] = down[d]
           /\ down'[e] \in Seq(Answers)
           /\ \/ e \in Commands /\ down' = down
              \/ /\ Replied(e) /\ down[e][1] = answer
                 /\ \/ Len(down'[e]) = 0
                    \/ /\ Len(down'[e]) = 1 /\ down'[e][1] = "abort"
                       /\ Len(down[e]) = 2 /\ down[e][2] = "abort"
  <1>0. down[e] \in Seq(Answers) /\ child[e].pc = phase
    BY DEF DeployerTypes, Migrations!Answered
  <1>1. CASE e \in Commands /\ down' = down  BY <1>0, <1>1 DEF DownTypes
  <1>2. CASE down[e] # <<>> /\ Head(down[e]) = answer /\ down' = [down EXCEPT ![e] = Tail(@)]
    <2>1. /\ DownTypes' /\ down'[e] = Tail(down[e]) /\ \A d \in Deployers \ {e} : down'[d] = down[d]
      BY <1>2 DEF DownTypes
    <2>2. /\ Tail(down[e]) \in Seq(Answers) /\ Len(down[e]) \in Nat /\ Len(down[e]) > 0
          /\ Len(Tail(down[e])) = Len(down[e]) - 1 /\ Head(down[e]) = down[e][1]
          /\ \A i \in 1 .. Len(down[e]) - 1 : Tail(down[e])[i] = down[e][i + 1]
      BY <1>0, <1>2, TailFacts
    <2>3. Len(down[e]) <= 2 /\ (Len(down[e]) = 2 => down[e][2] = "abort")  BY DEF DownInv
    <2>4. Replied(e)  BY <1>2, <2>2 DEF Replied
    <2>5. \/ Len(Tail(down[e])) = 0
          \/ Len(Tail(down[e])) = 1 /\ Len(down[e]) = 2 /\ Tail(down[e])[1] = down[e][2]
      <3>0. PICK n \in Nat : n = Len(down[e])  BY <2>2
      <3>3. n > 0  BY <2>2, <3>0
      <3>4. n <= 2  BY <2>3, <3>0
      <3>1. n = 1 \/ n = 2  BY <3>3, <3>4
      <3>2. Len(down[e]) = 2 => Tail(down[e])[1] = down[e][1 + 1]  BY <2>2
      <3> QED BY <2>2, <3>0, <3>1, <3>2
    <2>6. down[e][1] = answer /\ down'[e] \in Seq(Answers)  BY <1>2, <2>1, <2>2
    <2>7. CASE Len(Tail(down[e])) = 0
      <3>1. Len(down'[e]) = 0  BY <2>1, <2>7
      <3> QED BY <1>0, <2>1, <2>4, <2>6, <3>1
    <2>8. CASE Len(Tail(down[e])) = 1 /\ Len(down[e]) = 2 /\ Tail(down[e])[1] = down[e][2]
      <3>1. down[e][2] = "abort"  BY <2>3, <2>8
      <3> QED BY <1>0, <2>1, <2>4, <2>6, <2>8, <3>1
    <2> QED BY <2>5, <2>7, <2>8
  <1> QED BY <1>1, <1>2 DEF Migrations!Answered

\* One more answer is put into it.
LEMMA ReplyEffect ==
    ASSUME DownTypes, NEW e \in Deployers, DeployerTypes(e), NEW answer \in Answers,
           down' = [down EXCEPT ![e] = Append(@, answer)]
    PROVE  /\ DownTypes' /\ \A d \in Deployers \ {e} : down'[d] = down[d]
           /\ down'[e] \in Seq(Answers) /\ Len(down[e]) \in Nat
           /\ Len(down'[e]) = Len(down[e]) + 1 /\ down'[e][Len(down[e]) + 1] = answer
           /\ \A i \in 1 .. Len(down[e]) : down'[e][i] = down[e][i]
  <1>0. down[e] \in Seq(Answers)  BY DEF DeployerTypes
  <1>1. /\ DownTypes' /\ down'[e] = Append(down[e], answer)
        /\ \A d \in Deployers \ {e} : down'[d] = down[d]
    BY DEF DownTypes
  <1>2. /\ Append(down[e], answer) \in Seq(Answers) /\ Len(down[e]) \in Nat
        /\ Len(Append(down[e], answer)) = Len(down[e]) + 1
        /\ \A i \in 1 .. Len(down[e]) : Append(down[e], answer)[i] = down[e][i]
        /\ Append(down[e], answer)[Len(down[e]) + 1] = answer
    BY <1>0, AppendFacts
  <1> QED BY <1>1, <1>2

-----------------------------------------------------------------------------
(* The child.                                                               *)

LEMMA ConnectKeeps ==
    ASSUME MigrationInv, NEW e \in Deployers, Migrations!Connect(e)
    PROVE  MigrationInv'
  <1> /\ DbType /\ ChildTypes /\ ParentTypes /\ SessionTypes /\ UpTypes /\ DownTypes
      /\ mlock \in Deployers \cup {"none"} /\ runs \in 0 .. MaxRuns
    BY TypesOf
  <1>1. /\ child[e].pc = "spawned" /\ Migrations!Child(e, "lock") /\ Migrations!Send(e, "backend")
        /\ session' = [session EXCEPT ![e] = "open"]
        /\ UNCHANGED <<db, mlock, parent, down, runs>>
    BY DEF Migrations!Connect
  <1>2. DeployerTypes(e) /\ SessionInv(e) /\ UpInv(e) /\ DownInv(e) /\ ParentInv(e)
    BY TypesOf DEF DeployerInv
  <1>3. /\ ChildTypes' /\ \A d \in Deployers \ {e} : child'[d] = child[d]
        /\ child'[e] = [pc |-> "lock", staged |-> child[e].staged, durable |-> child[e].durable]
    BY <1>1, <1>2, ChildEffect
  <1>4. /\ UpTypes' /\ \A d \in Deployers \ {e} : up'[d] = up[d]
        /\ up'[e] \in Seq(Messages) /\ Len(up[e]) \in Nat
        /\ e \in Commands => up' = up
        /\ Len(up'[e]) \in Nat /\ Len(up'[e]) <= Len(up[e]) + 1
        /\ \A i \in 1 .. Len(up'[e]) :
             up'[e][i] = "backend" \/ (i \in 1 .. Len(up[e]) /\ up'[e][i] = up[e][i])
    <2>1. "backend" \in Messages  BY DEF Messages
    <2> QED BY <1>1, <1>2, <2>1, SendEffect
  <1>5. SessionTypes' /\ session'[e] = "open" /\ \A d \in Deployers \ {e} : session'[d] = session[d]
    BY <1>1 DEF SessionTypes
  <1>6. Touches(e)
    BY <1>1, <1>3, <1>4, <1>5
       DEF Touches, Kept, MigrationTypes, DbType, ChildTypes, ParentTypes, SessionTypes,
           UpTypes, DownTypes
  <1>7. DeployerTypes(e)'  BY <1>1, <1>2, <1>3, <1>4, <1>5 DEF DeployerTypes, ChildStates
  <1>8. SessionInv(e)' /\ StagedInv(e)'  BY <1>3, <1>5 DEF SessionInv, StagedInv, Phases
  <1>9. UpInv(e)'
    <2>0. Len(up[e]) = 0  BY <1>1, <1>2 DEF UpInv
    <2>1. Len(up'[e]) \in Nat /\ Len(up'[e]) <= 1  BY <1>4, <2>0
    <2>2. \A i \in 1 .. Len(up'[e]) : up'[e][i] = "backend"  BY <1>4, <2>0
    <2> QED BY <1>3, <2>1, <2>2 DEF UpInv, Phases
  <1>10. DownInv(e)'  BY <1>1, <1>2 DEF DownInv, Replied
  <1>11. ParentInv(e)'
    BY <1>1, <1>2, <1>3, <1>4 DEF ParentInv, Migrations!Alive, Migrations!None
  <1> QED BY <1>6, <1>7, <1>8, <1>9, <1>10, <1>11, MigrationFrame DEF DeployerInv

\* An abort is all that is left when an answer has been taken.
LEMMA AbortLeft ==
    ASSUME NEW e \in Deployers, DownInv(e), ParentInv(e), parent'[e] = parent[e],
           \/ e \in Commands /\ down' = down
           \/ /\ Replied(e)
              /\ \/ Len(down'[e]) = 0
                 \/ /\ Len(down'[e]) = 1 /\ down'[e][1] = "abort"
                    /\ Len(down[e]) = 2 /\ down[e][2] = "abort"
    PROVE  DownInv(e)'
  <1>1. CASE e \in Commands /\ down' = down
    <2>1. Len(down'[e]) = 0  BY <1>1 DEF ParentInv
    <2> QED BY <2>1 DEF DownInv, Replied
  <1>2. CASE Len(down'[e]) = 0  BY <1>2 DEF DownInv, Replied
  <1>3. CASE Len(down'[e]) = 1 /\ down'[e][1] = "abort" /\ Len(down[e]) = 2 /\ down[e][2] = "abort"
    <2>1. parent[e].pc \in {"joining", "done", "crashed"}  BY <1>3 DEF DownInv
    <2> QED BY <1>3, <2>1 DEF DownInv, Replied
  <1> QED BY <1>1, <1>2, <1>3

\* A phase without an answer is the last message of the pipe.
LEMMA NothingPending ==
    ASSUME NEW e \in Deployers, DeployerTypes(e), UpInv(e), child[e].pc \in Phases,
           \A i \in 1 .. Len(up[e]) : up[e][i] \notin Phases
    PROVE  Len(up[e]) = 0
  <1>1. PICK n \in Nat : n = Len(up[e])  BY LenProperties DEF DeployerTypes
  <1>2. \A i \in 1 .. n : i # n  BY <1>1 DEF UpInv
  <1>3. n = 0  BY <1>2
  <1> QED BY <1>1, <1>3

\* The child announces a phase.
LEMMA Announced ==
    ASSUME UpTypes, NEW e \in Deployers, DeployerTypes(e), UpInv(e), ParentInv(e),
           NEW phase \in Phases, Migrations!Send(e, phase), child'[e].pc = phase,
           child[e].pc \in Phases \cup {"lock"},
           \A i \in 1 .. Len(up[e]) : up[e][i] \notin Phases,
           child[e].pc = "lock" => phase = "lock_acquired"
    PROVE  /\ UpTypes' /\ \A d \in Deployers \ {e} : up'[d] = up[d]
           /\ up'[e] \in Seq(Messages) /\ (e \in Commands => up' = up)
           /\ UpInv(e)'
  <1>1. /\ UpTypes' /\ \A d \in Deployers \ {e} : up'[d] = up[d]
        /\ up'[e] \in Seq(Messages) /\ Len(up[e]) \in Nat
        /\ e \in Commands => up' = up
        /\ e \notin Commands =>
             /\ Len(up'[e]) = Len(up[e]) + 1
             /\ \A i \in 1 .. Len(up[e]) : up'[e][i] = up[e][i]
             /\ up'[e][Len(up[e]) + 1] = phase
    <2>1. phase \in Messages  BY DEF Messages
    <2> QED BY <2>1, SendEffect
  <1>2. UpInv(e)'
    <2>1. CASE e \in Commands
      <3>1. Len(up'[e]) = 0  BY <1>1, <2>1 DEF ParentInv
      <3> QED BY <3>1 DEF UpInv, Phases
    <2>2. CASE e \notin Commands
      <3>0. PICK n \in Nat : n = Len(up[e])  BY <1>1
      <3>1. n <= 1 /\ (phase # "lock_acquired" => n = 0)
        <4>1. CASE child[e].pc = "lock"  BY <3>0, <4>1 DEF UpInv
        <4>2. CASE child[e].pc \in Phases  BY <3>0, <4>2, NothingPending
        <4> QED BY <4>1, <4>2
      <3>2. /\ Len(up'[e]) = n + 1 /\ up'[e][n + 1] = phase
            /\ \A i \in 1 .. n : up'[e][i] = up[e][i]
        BY <1>1, <2>2, <3>0
      <3>3. \A i \in 1 .. n : up'[e][i] \notin Phases /\ up'[e][i] # "committed"
        BY <3>0, <3>2 DEF UpInv, Phases
      <3>4. \A i \in 1 .. n + 1 : up'[e][i] \in Phases <=> i = n + 1  BY <3>2, <3>3
      <3>5. \A i \in 1 .. n + 1 : up'[e][i] # "committed"  BY <3>2, <3>3 DEF Phases
      <3>6. /\ n + 1 <= 3 /\ n + 1 <= 2 /\ (phase # "lock_acquired" => n + 1 <= 1)  BY <3>1
      <3> QED BY <3>2, <3>4, <3>5, <3>6 DEF UpInv, Phases
    <2> QED BY <2>1, <2>2
  <1> QED BY <1>1, <1>2

LEMMA AcquireLockKeeps ==
    ASSUME MigrationInv, NEW e \in Deployers, Migrations!AcquireLock(e)
    PROVE  MigrationInv'
  <1> /\ DbType /\ ChildTypes /\ ParentTypes /\ SessionTypes /\ UpTypes /\ DownTypes
      /\ mlock \in Deployers \cup {"none"} /\ runs \in 0 .. MaxRuns
    BY TypesOf
  <1>1. /\ child[e].pc = "lock" /\ mlock = "none" /\ mlock' = e
        /\ Migrations!Checkpoint(e, "lock_acquired")
        /\ UNCHANGED <<db, parent, session, down, runs>>
    BY DEF Migrations!AcquireLock, Migrations!LockFree, Migrations!None
  <1>2. DeployerTypes(e) /\ SessionInv(e) /\ UpInv(e) /\ DownInv(e) /\ ParentInv(e)
    BY TypesOf DEF DeployerInv
  <1>3. /\ ChildTypes' /\ \A d \in Deployers \ {e} : child'[d] = child[d]
        /\ child'[e] = [pc |-> "lock_acquired", staged |-> child[e].staged,
                        durable |-> child[e].durable]
    BY <1>1, <1>2, ChildEffect DEF Migrations!Checkpoint
  <1>4. /\ UpTypes' /\ \A d \in Deployers \ {e} : up'[d] = up[d]
        /\ up'[e] \in Seq(Messages) /\ (e \in Commands => up' = up)
        /\ UpInv(e)'
    <2>1. "lock_acquired" \in Phases /\ child[e].pc \in Phases \cup {"lock"}
      BY <1>1 DEF Phases
    <2>2. \A i \in 1 .. Len(up[e]) : up[e][i] \notin Phases  BY <1>1, <1>2 DEF UpInv
    <2>3. Migrations!Send(e, "lock_acquired") /\ child'[e].pc = "lock_acquired"
      BY <1>1, <1>3 DEF Migrations!Checkpoint
    <2> QED BY <1>2, <2>1, <2>2, <2>3, Announced
  <1>5. Touches(e)
    BY <1>1, <1>4, <1>3, DeployersAssumption
       DEF Touches, Kept, MigrationTypes, DbType, ChildTypes, ParentTypes, SessionTypes,
           UpTypes, DownTypes
  <1>6. DeployerTypes(e)'  BY <1>1, <1>2, <1>4, <1>3 DEF DeployerTypes, ChildStates
  <1>7. SessionInv(e)' /\ StagedInv(e)'
    BY <1>1, <1>2, <1>4, <1>3 DEF SessionInv, StagedInv, Phases
  <1>8. DownInv(e)'  BY <1>1, <1>2 DEF DownInv, Replied
  <1>9. ParentInv(e)'
    BY <1>1, <1>2, <1>4, <1>3 DEF ParentInv, Migrations!Alive, Migrations!None
  <1> QED BY <1>4, <1>5, <1>6, <1>7, <1>8, <1>9, MigrationFrame DEF DeployerInv

LEMMA ReadyToCommitKeeps ==
    ASSUME MigrationInv, NEW e \in Deployers, Migrations!ReadyToCommit(e)
    PROVE  MigrationInv'
  <1> /\ DbType /\ ChildTypes /\ ParentTypes /\ SessionTypes /\ UpTypes /\ DownTypes
      /\ mlock \in Deployers \cup {"none"} /\ runs \in 0 .. MaxRuns
    BY TypesOf
  <1>1. /\ Migrations!Answered(e, "schema_applied", "continue")
        /\ Migrations!Checkpoint(e, "ready_to_commit")
        /\ UNCHANGED <<db, mlock, parent, session, runs>>
    BY DEF Migrations!ReadyToCommit
  <1>2. DeployerTypes(e) /\ SessionInv(e) /\ StagedInv(e) /\ UpInv(e) /\ DownInv(e) /\ ParentInv(e)
    BY TypesOf DEF DeployerInv
  <1>3. /\ child[e].pc = "schema_applied" /\ DownTypes'
        /\ \A d \in Deployers \ {e} : down'[d] = down[d]
        /\ down'[e] \in Seq(Answers)
        /\ \/ e \in Commands /\ down' = down
           \/ /\ Replied(e) /\ down[e][1] = "continue"
              /\ \/ Len(down'[e]) = 0
                 \/ /\ Len(down'[e]) = 1 /\ down'[e][1] = "abort"
                    /\ Len(down[e]) = 2 /\ down[e][2] = "abort"
    <2>1. "continue" \in Answers \ {"abort"}  BY DEF Answers
    <2> QED BY <1>1, <1>2, <2>1, AnsweredEffect
  <1>4. /\ ChildTypes' /\ \A d \in Deployers \ {e} : child'[d] = child[d]
        /\ child'[e] = [pc |-> "ready_to_commit", staged |-> child[e].staged,
                        durable |-> child[e].durable]
    BY <1>1, <1>2, ChildEffect DEF Migrations!Checkpoint
  <1>5. /\ UpTypes' /\ \A d \in Deployers \ {e} : up'[d] = up[d]
        /\ up'[e] \in Seq(Messages) /\ (e \in Commands => up' = up)
        /\ UpInv(e)'
    <2>1. "ready_to_commit" \in Phases /\ child[e].pc \in Phases  BY <1>3 DEF Phases
    <2>2. \A i \in 1 .. Len(up[e]) : up[e][i] \notin Phases
      BY <1>2, <1>3 DEF DownInv, ParentInv
    <2>3. /\ Migrations!Send(e, "ready_to_commit") /\ child'[e].pc = "ready_to_commit"
          /\ child[e].pc # "lock"
      BY <1>1, <1>3, <1>4 DEF Migrations!Checkpoint
    <2> QED BY <1>2, <2>1, <2>2, <2>3, Announced
  <1>6. Touches(e)
    BY <1>1, <1>3, <1>4, <1>5
       DEF Touches, Kept, MigrationTypes, DbType, ChildTypes, ParentTypes, SessionTypes,
           UpTypes, DownTypes
  <1>7. DeployerTypes(e)'
    <2>1. /\ child'[e] = [pc |-> child'[e].pc, staged |-> child'[e].staged,
                         durable |-> child'[e].durable]
          /\ child'[e].pc \in ChildStates
      BY <1>4 DEF ChildStates
    <2>2. down'[e] \in Seq(Answers) /\ up'[e] \in Seq(Messages)  BY <1>3, <1>5
    <2> QED BY <1>1, <1>2, <2>1, <2>2 DEF DeployerTypes
  <1>8. /\ child'[e].pc = "ready_to_commit" /\ child'[e].staged = child[e].staged
        /\ (child'[e].durable <=> child[e].durable)
    BY <1>4
  <1>9. SessionInv(e)'
    BY <1>1, <1>2, <1>3, <1>8 DEF SessionInv, Phases, Migrations!Alive, Migrations!None
  <1>10. StagedInv(e)'  BY <1>1, <1>2, <1>3, <1>8 DEF StagedInv
  <1>11. DownInv(e)'
    <2>1. parent'[e] = parent[e]  BY <1>1
    <2> QED BY <1>2, <1>3, <2>1, AbortLeft
  <1>12. ParentInv(e)'
    <2>1. parent' = parent /\ session' = session /\ child[e].pc = "schema_applied"
      BY <1>1, <1>3
    <2>2. e \in Commands => up' = up /\ down' = down
      BY <1>2, <1>3, <1>5 DEF ParentInv, Replied
    <2> QED BY <1>2, <1>8, <2>1, <2>2 DEF ParentInv, Migrations!Alive, Migrations!None
  <1> QED BY <1>5, <1>6, <1>7, <1>9, <1>10, <1>11, <1>12, MigrationFrame DEF DeployerInv

\* The commit is answered: nothing else is in the pipe, and the parent has authorized it.
LEMMA CommitAnswered ==
    ASSUME MigrationInv, NEW e \in Deployers, Migrations!Answered(e, "ready_to_commit", "commit"),
           parent' = parent
    PROVE  /\ child[e].pc = "ready_to_commit" /\ mlock = e /\ Len(up[e]) = 0
           /\ parent[e].authorized \/ e \in Commands
           /\ parent[e].pc # "done"
           /\ DownTypes' /\ \A d \in Deployers \ {e} : down'[d] = down[d]
           /\ down'[e] \in Seq(Answers) /\ (e \in Commands => down' = down)
           /\ DownInv(e)'
  <1> /\ DbType /\ ChildTypes /\ ParentTypes /\ SessionTypes /\ UpTypes /\ DownTypes
      /\ mlock \in Deployers \cup {"none"} /\ runs \in 0 .. MaxRuns
    BY TypesOf
  <1>1. DeployerTypes(e) /\ SessionInv(e) /\ UpInv(e) /\ DownInv(e) /\ ParentInv(e)
    BY TypesOf DEF DeployerInv
  <1>2. /\ child[e].pc = "ready_to_commit" /\ DownTypes'
        /\ \A d \in Deployers \ {e} : down'[d] = down[d]
        /\ down'[e] \in Seq(Answers)
        /\ \/ e \in Commands /\ down' = down
           \/ /\ Replied(e) /\ down[e][1] = "commit"
              /\ \/ Len(down'[e]) = 0
                 \/ /\ Len(down'[e]) = 1 /\ down'[e][1] = "abort"
                    /\ Len(down[e]) = 2 /\ down[e][2] = "abort"
    <2>1. "commit" \in Answers \ {"abort"}  BY DEF Answers
    <2> QED BY <1>1, <2>1, AnsweredEffect
  <1>3. mlock = e /\ parent[e].pc # "done"
    BY <1>1, <1>2 DEF SessionInv, ParentInv, Phases, Migrations!Alive, Migrations!None
  <1>4. parent[e].authorized \/ e \in Commands  BY <1>1, <1>2 DEF DownInv
  <1>5. Len(up[e]) = 0
    <2>1. CASE e \in Commands  BY <1>1, <2>1 DEF ParentInv
    <2>2. CASE e \notin Commands
      <3>1. \A i \in 1 .. Len(up[e]) : up[e][i] \notin Phases  BY <1>1, <1>2, <2>2 DEF DownInv
      <3>2. child[e].pc \in Phases  BY <1>2 DEF Phases
      <3> QED BY <1>1, <3>1, <3>2, NothingPending
    <2> QED BY <2>1, <2>2
  <1>6. DownInv(e)'  BY <1>1, <1>2, AbortLeft
  <1>7. e \in Commands => down' = down  BY <1>1, <1>2 DEF ParentInv, Replied
  <1> QED BY <1>2, <1>3, <1>4, <1>5, <1>6, <1>7

LEMMA ChildCommitsKeeps ==
    ASSUME MigrationInv, NEW e \in Deployers, Migrations!ChildCommits(e)
    PROVE  MigrationInv'
  <1> /\ DbType /\ ChildTypes /\ ParentTypes /\ SessionTypes /\ UpTypes /\ DownTypes
      /\ mlock \in Deployers \cup {"none"} /\ runs \in 0 .. MaxRuns
    BY TypesOf
  <1>1. /\ Migrations!Answered(e, "ready_to_commit", "commit") /\ Migrations!EndSession(e)
        /\ child' = [child EXCEPT ![e].pc = "committed", ![e].durable = TRUE]
        /\ UNCHANGED <<parent, up, runs>>
    BY DEF Migrations!ChildCommits
  <1>2. DeployerTypes(e) /\ SessionInv(e) /\ UpInv(e) /\ DownInv(e) /\ ParentInv(e)
    BY TypesOf DEF DeployerInv
  <1>3. /\ child[e].pc = "ready_to_commit" /\ mlock = e /\ Len(up[e]) = 0
        /\ parent[e].authorized \/ e \in Commands
        /\ parent[e].pc # "done"
        /\ DownTypes' /\ \A d \in Deployers \ {e} : down'[d] = down[d]
        /\ down'[e] \in Seq(Answers) /\ (e \in Commands => down' = down)
        /\ DownInv(e)'
    BY <1>1, CommitAnswered
  <1>4. /\ ChildTypes' /\ \A d \in Deployers \ {e} : child'[d] = child[d]
        /\ child'[e] = [pc |-> "committed", staged |-> child[e].staged, durable |-> TRUE]
    BY <1>1, <1>2 DEF ChildTypes, DeployerTypes
  <1>5. /\ SessionTypes' /\ session'[e] = "none" /\ mlock' # e
        /\ \A d \in Deployers \ {e} : session'[d] = session[d] /\ (mlock' = d <=> mlock = d)
        /\ mlock' \in Deployers \cup {"none"}
    BY <1>1, EndSessionEffect
  <1>6. DbType'  BY <1>3, TypesOf DEF DeployerInv, StagedInv, DbType, Migrations!ChildCommits
  <1>7. Touches(e)
    BY <1>1, <1>3, <1>4, <1>5, <1>6
       DEF Touches, Kept, MigrationTypes, ChildTypes, ParentTypes, SessionTypes,
           UpTypes, DownTypes
  <1>8. DeployerTypes(e)'
    <2>1. /\ child'[e] = [pc |-> child'[e].pc, staged |-> child'[e].staged,
                         durable |-> child'[e].durable]
          /\ child'[e].pc \in ChildStates
      BY <1>4 DEF ChildStates
    <2> QED BY <1>1, <1>2, <1>3, <1>5, <2>1 DEF DeployerTypes
  <1>9. SessionInv(e)' /\ StagedInv(e)'  BY <1>4, <1>5 DEF SessionInv, StagedInv, Phases
  <1>10. UpInv(e)'  BY <1>1, <1>3, <1>4 DEF UpInv
  <1>11. ParentInv(e)'
    BY <1>1, <1>2, <1>3, <1>4, <1>5 DEF ParentInv, Migrations!Alive, Migrations!None
  <1> QED BY <1>3, <1>7, <1>8, <1>9, <1>10, <1>11, MigrationFrame DEF DeployerInv

\* An error, or the outcome, is the child's last message.
LEMMA LastWord ==
    ASSUME UpTypes, NEW e \in Deployers, DeployerTypes(e), UpInv(e), ParentInv(e),
           NEW m \in {"committed", "error"}, Migrations!Send(e, m), Len(up[e]) <= 2,
           child'[e].pc = "closing",
           m = "committed" => child'[e].durable,
           \A i \in 1 .. Len(up[e]) : up[e][i] # "committed"
    PROVE  /\ UpTypes' /\ \A d \in Deployers \ {e} : up'[d] = up[d]
           /\ up'[e] \in Seq(Messages) /\ (e \in Commands => up' = up)
           /\ \A i \in 1 .. Len(up'[e]) : up'[e][i] \in Phases =>
                 i \in 1 .. Len(up[e]) /\ up[e][i] \in Phases
           /\ UpInv(e)'
  <1>1. /\ UpTypes' /\ \A d \in Deployers \ {e} : up'[d] = up[d]
        /\ up'[e] \in Seq(Messages) /\ Len(up[e]) \in Nat
        /\ e \in Commands => up' = up
        /\ Len(up'[e]) \in Nat /\ Len(up'[e]) <= Len(up[e]) + 1
        /\ \A i \in 1 .. Len(up'[e]) :
             up'[e][i] = m \/ (i \in 1 .. Len(up[e]) /\ up'[e][i] = up[e][i])
    <2>1. m \in Messages  BY DEF Messages
    <2> QED BY <2>1, SendEffect
  <1>2. m \notin Phases  BY DEF Phases
  <1>3. \A i \in 1 .. Len(up'[e]) : up'[e][i] \in Phases =>
          i \in 1 .. Len(up[e]) /\ up[e][i] \in Phases
    BY <1>1, <1>2
  <1>4. \A i, j \in 1 .. Len(up'[e]) : up'[e][i] \in Phases /\ up'[e][j] \in Phases => i = j
    BY <1>1, <1>2, <1>3 DEF UpInv
  <1>5. \A i \in 1 .. Len(up'[e]) : up'[e][i] = "committed" => child'[e].durable  BY <1>1
  <1>6. Len(up'[e]) <= 3  BY <1>1
  <1>7. UpInv(e)'  BY <1>4, <1>5, <1>6 DEF UpInv, Phases
  <1> QED BY <1>1, <1>3, <1>7

LEMMA SendsOutcomeKeeps ==
    ASSUME MigrationInv, NEW e \in Deployers, Migrations!SendsOutcome(e)
    PROVE  MigrationInv'
  <1> /\ DbType /\ ChildTypes /\ ParentTypes /\ SessionTypes /\ UpTypes /\ DownTypes
      /\ mlock \in Deployers \cup {"none"} /\ runs \in 0 .. MaxRuns
    BY TypesOf
  <1>1. /\ child[e].pc = "committed" /\ Migrations!Send(e, "committed")
        /\ Migrations!Child(e, "closing")
        /\ UNCHANGED <<db, mlock, parent, session, down, runs>>
    BY DEF Migrations!SendsOutcome
  <1>2. DeployerTypes(e) /\ SessionInv(e) /\ UpInv(e) /\ DownInv(e) /\ ParentInv(e)
    BY TypesOf DEF DeployerInv
  <1>3. /\ ChildTypes' /\ \A d \in Deployers \ {e} : child'[d] = child[d]
        /\ child'[e] = [pc |-> "closing", staged |-> child[e].staged, durable |-> child[e].durable]
    BY <1>1, <1>2, ChildEffect
  <1>4. child[e].durable /\ Len(up[e]) = 0  BY <1>1, <1>2 DEF ParentInv, UpInv
  <1>5. /\ UpTypes' /\ \A d \in Deployers \ {e} : up'[d] = up[d]
        /\ up'[e] \in Seq(Messages) /\ (e \in Commands => up' = up)
        /\ UpInv(e)'
    <2>1. Len(up[e]) <= 2 /\ \A i \in 1 .. Len(up[e]) : up[e][i] # "committed"  BY <1>4
    <2>2. child'[e].pc = "closing" /\ child'[e].durable  BY <1>3, <1>4
    <2> QED BY <1>1, <1>2, <2>1, <2>2, LastWord
  <1>6. Touches(e)
    BY <1>1, <1>3, <1>5
       DEF Touches, Kept, MigrationTypes, DbType, ChildTypes, ParentTypes, SessionTypes,
           UpTypes, DownTypes
  <1>7. DeployerTypes(e)'  BY <1>1, <1>2, <1>3, <1>5 DEF DeployerTypes, ChildStates
  <1>8. SessionInv(e)' /\ StagedInv(e)'
    BY <1>1, <1>2, <1>3 DEF SessionInv, StagedInv, Phases, Migrations!Alive, Migrations!None
  <1>9. DownInv(e)'  BY <1>1, <1>2 DEF DownInv, Replied
  <1>10. ParentInv(e)'
    BY <1>1, <1>2, <1>3, <1>5 DEF ParentInv, Migrations!Alive, Migrations!None
  <1> QED BY <1>5, <1>6, <1>7, <1>8, <1>9, <1>10, MigrationFrame DEF DeployerInv

LEMMA ChildFailsKeeps ==
    ASSUME MigrationInv, NEW e \in Deployers, Migrations!ChildFails(e)
    PROVE  MigrationInv'
  <1> /\ DbType /\ ChildTypes /\ ParentTypes /\ SessionTypes /\ UpTypes /\ DownTypes
      /\ mlock \in Deployers \cup {"none"} /\ runs \in 0 .. MaxRuns
    BY TypesOf
  <1>1. /\ child[e].pc \in {"spawned", "lock", "lock_acquired", "schema_applied"}
        /\ Migrations!EndSession(e) /\ Migrations!Child(e, "closing") /\ Migrations!Send(e, "error")
        /\ UNCHANGED <<db, parent, down, runs>>
    BY DEF Migrations!ChildFails
  <1>2. DeployerTypes(e) /\ SessionInv(e) /\ UpInv(e) /\ DownInv(e) /\ ParentInv(e)
    BY TypesOf DEF DeployerInv
  <1>3. /\ ChildTypes' /\ \A d \in Deployers \ {e} : child'[d] = child[d]
        /\ child'[e] = [pc |-> "closing", staged |-> child[e].staged, durable |-> child[e].durable]
    BY <1>1, <1>2, ChildEffect
  <1>4. /\ UpTypes' /\ \A d \in Deployers \ {e} : up'[d] = up[d]
        /\ up'[e] \in Seq(Messages) /\ (e \in Commands => up' = up)
        /\ \A i \in 1 .. Len(up'[e]) : up'[e][i] \in Phases =>
              i \in 1 .. Len(up[e]) /\ up[e][i] \in Phases
        /\ UpInv(e)'
    <2>1. Len(up[e]) <= 2 /\ \A i \in 1 .. Len(up[e]) : up[e][i] # "committed"
      BY <1>1, <1>2 DEF UpInv
    <2>2. child'[e].pc = "closing"  BY <1>3
    <2> QED BY <1>1, <1>2, <2>1, <2>2, LastWord
  <1>5. /\ SessionTypes' /\ session'[e] = "none" /\ mlock' # e
        /\ \A d \in Deployers \ {e} : session'[d] = session[d] /\ (mlock' = d <=> mlock = d)
        /\ mlock' \in Deployers \cup {"none"}
    BY <1>1, EndSessionEffect
  <1>6. Touches(e)
    BY <1>1, <1>3, <1>4, <1>5
       DEF Touches, Kept, MigrationTypes, DbType, ChildTypes, ParentTypes, SessionTypes,
           UpTypes, DownTypes
  <1>7. DeployerTypes(e)'  BY <1>1, <1>2, <1>3, <1>4, <1>5 DEF DeployerTypes, ChildStates
  <1>8. SessionInv(e)' /\ StagedInv(e)'  BY <1>3, <1>5 DEF SessionInv, StagedInv, Phases
  <1>9. DownInv(e)'  BY <1>1, <1>2, <1>3, <1>4 DEF DownInv, Replied
  <1>10. ParentInv(e)'
    BY <1>1, <1>2, <1>3, <1>4, <1>5 DEF ParentInv, Migrations!Alive, Migrations!None
  <1> QED BY <1>4, <1>6, <1>7, <1>8, <1>9, <1>10, MigrationFrame DEF DeployerInv

LEMMA CommitFailsKeeps ==
    ASSUME MigrationInv, NEW e \in Deployers, Migrations!CommitFails(e)
    PROVE  MigrationInv'
  <1> /\ DbType /\ ChildTypes /\ ParentTypes /\ SessionTypes /\ UpTypes /\ DownTypes
      /\ mlock \in Deployers \cup {"none"} /\ runs \in 0 .. MaxRuns
    BY TypesOf
  <1>0. PICK durable \in BOOLEAN :
            /\ child' = [child EXCEPT ![e].pc = "closing", ![e].durable = durable]
            /\ db' = IF durable THEN child[e].staged ELSE db
    BY DEF Migrations!CommitFails
  <1>1. /\ Migrations!Answered(e, "ready_to_commit", "commit") /\ Migrations!EndSession(e)
        /\ Migrations!Send(e, "error")
        /\ UNCHANGED <<parent, runs>>
    BY DEF Migrations!CommitFails
  <1>2. DeployerTypes(e) /\ SessionInv(e) /\ UpInv(e) /\ DownInv(e) /\ ParentInv(e)
    BY TypesOf DEF DeployerInv
  <1>3. /\ child[e].pc = "ready_to_commit" /\ mlock = e /\ Len(up[e]) = 0
        /\ parent[e].authorized \/ e \in Commands
        /\ parent[e].pc # "done"
        /\ DownTypes' /\ \A d \in Deployers \ {e} : down'[d] = down[d]
        /\ down'[e] \in Seq(Answers) /\ (e \in Commands => down' = down)
        /\ DownInv(e)'
    BY <1>1, CommitAnswered
  <1>4. /\ ChildTypes' /\ \A d \in Deployers \ {e} : child'[d] = child[d]
        /\ child'[e] = [pc |-> "closing", staged |-> child[e].staged, durable |-> durable]
    BY <1>0, <1>2 DEF ChildTypes, DeployerTypes
  <1>5. /\ UpTypes' /\ \A d \in Deployers \ {e} : up'[d] = up[d]
        /\ up'[e] \in Seq(Messages) /\ (e \in Commands => up' = up)
        /\ UpInv(e)'
    <2>1. Len(up[e]) <= 2 /\ \A i \in 1 .. Len(up[e]) : up[e][i] # "committed"  BY <1>3
    <2>2. child'[e].pc = "closing"  BY <1>4
    <2> QED BY <1>1, <1>2, <2>1, <2>2, LastWord
  <1>6. /\ SessionTypes' /\ session'[e] = "none" /\ mlock' # e
        /\ \A d \in Deployers \ {e} : session'[d] = session[d] /\ (mlock' = d <=> mlock = d)
        /\ mlock' \in Deployers \cup {"none"}
    BY <1>1, EndSessionEffect
  <1>7. DbType'
    <2>1. CASE durable
      <3>1. db' = child[e].staged  BY <1>0, <2>1
      <3> QED BY <1>3, <3>1, TypesOf DEF DeployerInv, StagedInv, DbType
    <2>2. CASE ~ durable  BY <1>0, <2>2, TypesOf DEF DbType
    <2> QED BY <2>1, <2>2
  <1>8. Touches(e)
    BY <1>1, <1>3, <1>4, <1>5, <1>6, <1>7
       DEF Touches, Kept, MigrationTypes, ChildTypes, ParentTypes, SessionTypes,
           UpTypes, DownTypes
  <1>9. DeployerTypes(e)'
    <2>1. /\ child'[e] = [pc |-> child'[e].pc, staged |-> child'[e].staged,
                         durable |-> child'[e].durable]
          /\ child'[e].pc \in ChildStates
      BY <1>4 DEF ChildStates
    <2> QED BY <1>1, <1>2, <1>3, <1>5, <1>6, <2>1 DEF DeployerTypes
  <1>10. SessionInv(e)' /\ StagedInv(e)'  BY <1>4, <1>6 DEF SessionInv, StagedInv, Phases
  <1>11. ParentInv(e)'
    BY <1>1, <1>2, <1>3, <1>4, <1>5, <1>6 DEF ParentInv, Migrations!Alive, Migrations!None
  <1> QED BY <1>3, <1>5, <1>8, <1>9, <1>10, <1>11, MigrationFrame DEF DeployerInv

LEMMA ChildAbortsKeeps ==
    ASSUME MigrationInv, NEW e \in Deployers, Migrations!ChildAborts(e)
    PROVE  MigrationInv'
  <1> /\ DbType /\ ChildTypes /\ ParentTypes /\ SessionTypes /\ UpTypes /\ DownTypes
      /\ mlock \in Deployers \cup {"none"} /\ runs \in 0 .. MaxRuns
    BY TypesOf
  <1>1. /\ child[e].pc \in {"lock_acquired", "schema_applied", "ready_to_commit"}
        /\ Migrations!EndSession(e) /\ Migrations!Child(e, "closing")
        /\ UNCHANGED <<db, parent, up, down, runs>>
    BY DEF Migrations!ChildAborts
  <1>2. DeployerTypes(e) /\ SessionInv(e) /\ UpInv(e) /\ DownInv(e) /\ ParentInv(e)
    BY TypesOf DEF DeployerInv
  <1>3. /\ ChildTypes' /\ \A d \in Deployers \ {e} : child'[d] = child[d]
        /\ child'[e] = [pc |-> "closing", staged |-> child[e].staged, durable |-> child[e].durable]
    BY <1>1, <1>2, ChildEffect
  <1>4. /\ SessionTypes' /\ session'[e] = "none" /\ mlock' # e
        /\ \A d \in Deployers \ {e} : session'[d] = session[d] /\ (mlock' = d <=> mlock = d)
        /\ mlock' \in Deployers \cup {"none"}
    BY <1>1, EndSessionEffect
  <1>5. Touches(e)
    BY <1>1, <1>3, <1>4
       DEF Touches, Kept, MigrationTypes, DbType, ChildTypes, ParentTypes, SessionTypes,
           UpTypes, DownTypes
  <1>6. DeployerTypes(e)'  BY <1>1, <1>2, <1>3, <1>4 DEF DeployerTypes, ChildStates
  <1>7. SessionInv(e)' /\ StagedInv(e)'  BY <1>3, <1>4 DEF SessionInv, StagedInv, Phases
  <1>8. UpInv(e)'  BY <1>1, <1>2, <1>3 DEF UpInv, Phases
  <1>9. DownInv(e)'  BY <1>1, <1>2, <1>3 DEF DownInv, Replied
  <1>10. ParentInv(e)'
    BY <1>1, <1>2, <1>3, <1>4 DEF ParentInv, Migrations!Alive, Migrations!None
  <1> QED BY <1>5, <1>6, <1>7, <1>8, <1>9, <1>10, MigrationFrame DEF DeployerInv

LEMMA ChildExitsKeeps ==
    ASSUME MigrationInv, NEW e \in Deployers, Migrations!ChildExits(e)
    PROVE  MigrationInv'
  <1> /\ DbType /\ ChildTypes /\ ParentTypes /\ SessionTypes /\ UpTypes /\ DownTypes
      /\ mlock \in Deployers \cup {"none"} /\ runs \in 0 .. MaxRuns
    BY TypesOf
  <1>1. /\ child[e].pc = "closing" /\ Migrations!Child(e, "exited")
        /\ UNCHANGED <<db, mlock, parent, session, up, down, runs>>
    BY DEF Migrations!ChildExits
  <1>2. DeployerTypes(e) /\ SessionInv(e) /\ UpInv(e) /\ DownInv(e) /\ ParentInv(e)
    BY TypesOf DEF DeployerInv
  <1>3. /\ ChildTypes' /\ \A d \in Deployers \ {e} : child'[d] = child[d]
        /\ child'[e] = [pc |-> "exited", staged |-> child[e].staged, durable |-> child[e].durable]
    BY <1>1, <1>2, ChildEffect
  <1>4. Touches(e)
    BY <1>1, <1>3
       DEF Touches, Kept, MigrationTypes, DbType, ChildTypes, ParentTypes, SessionTypes,
           UpTypes, DownTypes
  <1>5. DeployerTypes(e)'  BY <1>1, <1>2, <1>3 DEF DeployerTypes, ChildStates
  <1>6. SessionInv(e)' /\ StagedInv(e)'
    BY <1>1, <1>2, <1>3 DEF SessionInv, StagedInv, Phases, Migrations!Alive, Migrations!None
  <1>7. UpInv(e)'  BY <1>1, <1>2, <1>3 DEF UpInv, Phases
  <1>8. DownInv(e)'  BY <1>1, <1>2, <1>3 DEF DownInv, Replied
  <1>9. ParentInv(e)'  BY <1>1, <1>2, <1>3 DEF ParentInv, Migrations!Alive, Migrations!None
  <1> QED BY <1>4, <1>5, <1>6, <1>7, <1>8, <1>9, MigrationFrame DEF DeployerInv

\* A process that is gone, in any state but at its end
LEMMA KilledKeeps ==
    ASSUME MigrationInv, NEW e \in Deployers, Migrations!Alive(e), Migrations!Killed(e),
           UNCHANGED <<db, mlock, parent, up, down, runs>>
    PROVE  MigrationInv'
  <1> /\ DbType /\ ChildTypes /\ ParentTypes /\ SessionTypes /\ UpTypes /\ DownTypes
      /\ mlock \in Deployers \cup {"none"} /\ runs \in 0 .. MaxRuns
    BY TypesOf
  <1>1. DeployerTypes(e) /\ SessionInv(e) /\ UpInv(e) /\ DownInv(e) /\ ParentInv(e)
    BY TypesOf DEF DeployerInv
  <1>2. /\ SessionTypes' /\ ChildTypes'
        /\ \A d \in Deployers \ {e} : session'[d] = session[d] /\ child'[d] = child[d]
        /\ session'[e] \in {"none", "orphan", "waiting"}
        /\ session'[e] = "none" <=> session[e] = "none"
        /\ child'[e] = [pc |-> "exited", staged |-> child[e].staged, durable |-> child[e].durable]
    BY <1>1, KilledEffect
  <1>3. Touches(e)
    BY <1>2
       DEF Touches, Kept, MigrationTypes, DbType, ChildTypes, ParentTypes, SessionTypes,
           UpTypes, DownTypes
  <1>4. DeployerTypes(e)'  BY <1>1, <1>2 DEF DeployerTypes, ChildStates
  <1>5. SessionInv(e)' /\ StagedInv(e)'
    BY <1>1, <1>2 DEF SessionInv, StagedInv, Phases, Migrations!Alive, Migrations!None
  <1>6. UpInv(e)'  BY <1>1, <1>2 DEF UpInv, Phases
  <1>7. DownInv(e)'  BY <1>1, <1>2 DEF DownInv, Replied
  <1>8. ParentInv(e)'  BY <1>1, <1>2 DEF ParentInv, Migrations!Alive, Migrations!None
  <1> QED BY <1>3, <1>4, <1>5, <1>6, <1>7, <1>8, MigrationFrame DEF DeployerInv

LEMMA CrashKeeps ==
    ASSUME MigrationInv, NEW e \in Deployers, Migrations!ChildCrashes(e) \/ Migrations!KillChild(e)
    PROVE  MigrationInv'
  BY KilledKeeps DEF Migrations!ChildCrashes, Migrations!KillChild

\* A session that has ended, of a process that is gone
LEMMA SessionEnds ==
    ASSUME MigrationInv, NEW e \in Deployers, ~ Migrations!Alive(e), Migrations!EndSession(e),
           UNCHANGED <<db, child, up, down, runs>>, ParentTypes',
           \A d \in Deployers \ {e} : parent'[d] = parent[d],
           \/ parent' = parent
           \/ /\ parent'[e] = [pc |-> "done", pid |-> parent[e].pid,
                               authorized |-> parent[e].authorized, result |-> parent'[e].result]
              /\ parent'[e].result \in {parent[e].result} \cup Unsettled
              /\ parent[e].pc \in {"joining", "cleanup"}
    PROVE  MigrationInv'
  <1> /\ DbType /\ ChildTypes /\ ParentTypes /\ SessionTypes /\ UpTypes /\ DownTypes
      /\ mlock \in Deployers \cup {"none"} /\ runs \in 0 .. MaxRuns
    BY TypesOf
  <1>1. DeployerTypes(e) /\ SessionInv(e) /\ UpInv(e) /\ DownInv(e) /\ ParentInv(e)
    BY TypesOf DEF DeployerInv
  <1>2. /\ SessionTypes' /\ session'[e] = "none" /\ mlock' # e
        /\ \A d \in Deployers \ {e} : session'[d] = session[d] /\ (mlock' = d <=> mlock = d)
        /\ mlock' \in Deployers \cup {"none"}
    BY EndSessionEffect
  <1>3. child[e].pc \in {"none", "exited"}  BY DEF Migrations!Alive, Migrations!None
  <1>4. Touches(e)
    BY <1>2
       DEF Touches, Kept, MigrationTypes, DbType, ChildTypes, ParentTypes, SessionTypes,
           UpTypes, DownTypes
  <1>5. DeployerTypes(e)'  BY <1>1, <1>2 DEF DeployerTypes, ParentStates, Results, Unsettled
  <1>6. SessionInv(e)' /\ StagedInv(e)'  BY <1>2, <1>3 DEF SessionInv, StagedInv, Phases
  <1>7. UpInv(e)'  BY <1>1 DEF UpInv
  <1>8. DownInv(e)'  BY <1>1 DEF DownInv, Replied
  <1>9. ParentInv(e)'
    BY <1>1, <1>2, <1>3 DEF ParentInv, Unsettled, Migrations!Alive, Migrations!None
  <1> QED BY <1>4, <1>5, <1>6, <1>7, <1>8, <1>9, MigrationFrame DEF DeployerInv

LEMMA ServerNoticesKeeps ==
    ASSUME MigrationInv, NEW e \in Deployers, Migrations!ServerNotices(e)
    PROVE  MigrationInv'
  <1>1. /\ Migrations!EndSession(e) /\ UNCHANGED <<db, parent, child, up, down, runs>>
        /\ session[e] \in {"orphan", "waiting"}
    BY DEF Migrations!ServerNotices
  <1>2. ~ Migrations!Alive(e)  BY <1>1, TypesOf DEF DeployerInv, SessionInv
  <1>3. ParentTypes' /\ \A d \in Deployers \ {e} : parent'[d] = parent[d]
    BY <1>1, TypesOf DEF ParentTypes
  <1> QED BY <1>1, <1>2, <1>3, SessionEnds

LEMMA CleanupKeeps ==
    ASSUME MigrationInv, NEW e \in Deployers, Migrations!Cleanup(e)
    PROVE  MigrationInv'
  <1>1. /\ parent[e].pc = "cleanup" /\ ~ Migrations!Alive(e) /\ Migrations!Parent(e, "done")
        /\ Migrations!EndSession(e) /\ UNCHANGED <<db, child, up, down, runs>>
    BY DEF Migrations!Cleanup
  <1>2. /\ ParentTypes' /\ \A d \in Deployers \ {e} : parent'[d] = parent[d]
        /\ parent'[e] = [pc |-> "done", pid |-> parent[e].pid,
                         authorized |-> parent[e].authorized, result |-> parent[e].result]
    BY <1>1, TypesOf, ParentEffect DEF DeployerInv
  <1>3. parent'[e].result = parent[e].result  BY <1>2
  <1> QED BY <1>1, <1>2, <1>3, SessionEnds

-----------------------------------------------------------------------------
(* The parent.                                                              *)

\* The parent moves on, or ends, without a word.
LEMMA ParentMoves ==
    ASSUME MigrationInv, NEW e \in Deployers, NEW pc \in ParentStates, NEW result \in Results,
           parent' = [parent EXCEPT ![e].pc = pc, ![e].result = result],
           UNCHANGED <<db, mlock, child, session, up, down, runs>>,
           parent[e].pc # "idle",
           parent[e].pc \in {"joining", "done", "crashed"} => pc \in {"joining", "done", "crashed"},
           pc \in {"waiting", "polled"} => result = "none",
           result \in {"cancelled", "committed"} => result = parent[e].result,
           pc = "done" => /\ ~ Migrations!Alive(e)
                          /\ ~ parent[e].pid \/ result \in {"exited"} \cup Unsettled
    PROVE  MigrationInv'
  <1> /\ DbType /\ ChildTypes /\ ParentTypes /\ SessionTypes /\ UpTypes /\ DownTypes
      /\ mlock \in Deployers \cup {"none"} /\ runs \in 0 .. MaxRuns
    BY TypesOf
  <1>1. DeployerTypes(e) /\ SessionInv(e) /\ UpInv(e) /\ DownInv(e) /\ ParentInv(e)
    BY TypesOf DEF DeployerInv
  <1>2. /\ ParentTypes' /\ \A d \in Deployers \ {e} : parent'[d] = parent[d]
        /\ parent'[e] = [pc |-> pc, pid |-> parent[e].pid,
                         authorized |-> parent[e].authorized, result |-> result]
    BY <1>1 DEF ParentTypes, DeployerTypes
  <1>3. Touches(e)
    BY <1>2
       DEF Touches, Kept, MigrationTypes, DbType, ChildTypes, ParentTypes, SessionTypes,
           UpTypes, DownTypes
  <1>4. DeployerTypes(e)'
    <2>1. parent'[e] = [pc |-> parent'[e].pc, pid |-> parent'[e].pid,
                       authorized |-> parent'[e].authorized, result |-> parent'[e].result]
      BY <1>2
    <2>2. parent'[e].pc = pc /\ parent'[e].result = result  BY <1>2
    <2>3. parent'[e].pc \in ParentStates /\ parent'[e].result \in Results  BY <2>2
    <2> QED BY <1>1, <2>1, <2>3 DEF DeployerTypes
  <1>5. SessionInv(e)'  BY <1>1 DEF SessionInv, Migrations!Alive, Migrations!None
  <1>6. StagedInv(e)'  BY TypesOf DEF DeployerInv, StagedInv, Migrations!Row, Migrations!NoRow
  <1>7. UpInv(e)'  BY <1>1 DEF UpInv
  <1>8. DownInv(e)'
    <2>1. \A i \in 1 .. Len(down[e]) : down[e][i] = "abort" =>
             i = Len(down[e]) /\ pc \in {"joining", "done", "crashed"}
      BY <1>1 DEF DownInv
    <2> QED BY <1>1, <1>2, <2>1 DEF DownInv, Replied
  <1>9. ParentInv(e)'  BY <1>1, <1>2 DEF ParentInv, Unsettled, Migrations!Alive, Migrations!None
  <1> QED BY <1>3, <1>4, <1>5, <1>6, <1>7, <1>8, <1>9, MigrationFrame DEF DeployerInv

\* Only the pc moves.
LEMMA ParentAdvances ==
    ASSUME MigrationInv, NEW e \in Deployers, NEW pc \in ParentStates, Migrations!Parent(e, pc),
           UNCHANGED <<db, mlock, child, session, up, down, runs>>,
           parent[e].pc # "idle",
           parent[e].pc \in {"joining", "done", "crashed"} => pc \in {"joining", "done", "crashed"},
           pc \in {"waiting", "polled"} => parent[e].pc \in {"waiting", "polled"},
           pc = "done" => ~ Migrations!Alive(e) /\ ~ parent[e].pid
    PROVE  MigrationInv'
  <1>1. DeployerTypes(e) /\ ParentInv(e) /\ ParentTypes  BY TypesOf DEF DeployerInv
  <1>2. parent' = [parent EXCEPT ![e].pc = pc, ![e].result = parent[e].result]
    BY <1>1 DEF Migrations!Parent, DeployerTypes, ParentTypes
  <1>3. PICK result \in Results : result = parent[e].result  BY <1>1 DEF DeployerTypes
  <1>4. parent' = [parent EXCEPT ![e].pc = pc, ![e].result = result]  BY <1>2, <1>3
  <1>5. pc \in {"waiting", "polled"} => result = "none"  BY <1>1, <1>3 DEF ParentInv
  <1> QED BY <1>3, <1>4, <1>5, ParentMoves

LEMMA WatchKeeps ==
    ASSUME MigrationInv, NEW e \in Deployers,
           Migrations!PollsEmpty(e) \/ Migrations!ChecksAlive(e) \/ Migrations!ReadsEnd(e)
             \/ Migrations!ParentCrashes(e)
    PROVE  MigrationInv'
  <1> USE DEF ParentStates, Results, Unsettled
  <1>1. CASE Migrations!PollsEmpty(e)  BY <1>1, ParentAdvances DEF Migrations!PollsEmpty
  <1>2. CASE Migrations!ChecksAlive(e)
    <2>1. CASE Migrations!Alive(e)  BY <1>2, <2>1, ParentAdvances DEF Migrations!ChecksAlive
    <2>2. CASE ~ Migrations!Alive(e)  BY <1>2, <2>2, ParentMoves DEF Migrations!ChecksAlive
    <2> QED BY <2>1, <2>2
  <1>3. CASE Migrations!ReadsEnd(e)  BY <1>3, ParentMoves DEF Migrations!ReadsEnd
  <1>4. CASE Migrations!ParentCrashes(e)  BY <1>4, ParentAdvances DEF Migrations!ParentCrashes
  <1> QED BY <1>1, <1>2, <1>3, <1>4

LEMMA ConfirmStoppedKeeps ==
    ASSUME MigrationInv, NEW e \in Deployers, Migrations!ConfirmStopped(e)
    PROVE  MigrationInv'
  <1> USE DEF ParentStates, Results
  <1>0. /\ parent[e].pc = "joining" /\ ~ Migrations!Alive(e) /\ Migrations!Parent(e, "done")
        /\ UNCHANGED <<db, child, up, down, runs>>
    BY DEF Migrations!ConfirmStopped
  <1>1. CASE parent[e].pid /\ Migrations!EndSession(e)
    <2>1. /\ ParentTypes' /\ \A d \in Deployers \ {e} : parent'[d] = parent[d]
          /\ parent'[e] = [pc |-> "done", pid |-> parent[e].pid,
                           authorized |-> parent[e].authorized, result |-> parent[e].result]
      BY <1>0, TypesOf, ParentEffect DEF DeployerInv
    <2>2. parent'[e].result = parent[e].result  BY <2>1
    <2> QED BY <1>0, <1>1, <2>1, <2>2, SessionEnds
  <1>2. CASE ~ parent[e].pid /\ UNCHANGED <<session, mlock>>  BY <1>0, <1>2, ParentAdvances
  <1> QED BY <1>1, <1>2 DEF Migrations!ConfirmStopped

\* The time is up, the server is not reached, or the task is cancelled in an await.
LEMMA LeavesUnconfirmedKeeps ==
    ASSUME MigrationInv, NEW e \in Deployers, NEW outcome \in Unsettled,
           Migrations!LeavesUnconfirmed(e, outcome)
    PROVE  MigrationInv'
  <1> USE DEF ParentStates, Results, Unsettled
  <1>0. /\ parent[e].pc = "joining" /\ ~ Migrations!Alive(e)
        /\ parent' = [parent EXCEPT ![e].pc = "done", ![e].result = outcome]
        /\ UNCHANGED <<db, child, up, down, runs>>
    BY DEF Migrations!LeavesUnconfirmed
  <1>1. CASE Migrations!EndSession(e)
    <2>1. DeployerTypes(e) /\ ParentTypes  BY TypesOf DEF DeployerInv
    <2>2. /\ ParentTypes' /\ \A d \in Deployers \ {e} : parent'[d] = parent[d]
          /\ parent'[e] = [pc |-> "done", pid |-> parent[e].pid,
                           authorized |-> parent[e].authorized, result |-> outcome]
      BY <1>0, <2>1 DEF ParentTypes, DeployerTypes
    <2>3. parent'[e].result = outcome  BY <2>2
    <2> QED BY <1>0, <1>1, <2>2, <2>3, SessionEnds
  <1>2. CASE UNCHANGED <<session, mlock>>  BY <1>0, <1>2, ParentMoves
  <1> QED BY <1>1, <1>2 DEF Migrations!LeavesUnconfirmed

LEMMA StartKeeps ==
    ASSUME MigrationInv, NEW e \in Deployers, Migrations!Start(e)
    PROVE  MigrationInv'
  <1> /\ DbType /\ ChildTypes /\ ParentTypes /\ SessionTypes /\ UpTypes /\ DownTypes
      /\ mlock \in Deployers \cup {"none"} /\ runs \in 0 .. MaxRuns
    BY TypesOf
  <1>1. /\ parent[e].pc \in {"idle", "done", "crashed"} /\ session[e] = "none"
        /\ runs < MaxRuns /\ runs' = runs + 1
        /\ up' = [up EXCEPT ![e] = <<>>] /\ down' = [down EXCEPT ![e] = <<>>]
        /\ parent' = IF e \in Commands THEN parent
                     ELSE [parent EXCEPT ![e] = [Migrations!IdleParent EXCEPT !.pc = "waiting"]]
        /\ child' = [child EXCEPT ![e] = [Migrations!IdleChild EXCEPT !.pc = "spawned"]]
        /\ UNCHANGED <<db, mlock, session>>
    BY DEF Migrations!Start, Migrations!None
  <1>2. DeployerTypes(e) /\ SessionInv(e) /\ UpInv(e) /\ DownInv(e) /\ ParentInv(e)
    BY TypesOf DEF DeployerInv
  <1>3. /\ ChildTypes' /\ \A d \in Deployers \ {e} : child'[d] = child[d]
        /\ child'[e] = [pc |-> "spawned", staged |-> "none", durable |-> FALSE]
    BY <1>1 DEF ChildTypes, Migrations!IdleChild, Migrations!None
  <1>4. /\ ParentTypes' /\ \A d \in Deployers \ {e} : parent'[d] = parent[d]
        /\ e \in Commands => parent'[e] = parent[e]
        /\ e \notin Commands =>
             parent'[e] = [pc |-> "waiting", pid |-> FALSE, authorized |-> FALSE, result |-> "none"]
    BY <1>1 DEF ParentTypes, Migrations!IdleParent, Migrations!None
  <1>5. /\ UpTypes' /\ DownTypes' /\ up'[e] = <<>> /\ down'[e] = <<>>
        /\ \A d \in Deployers \ {e} : up'[d] = up[d] /\ down'[d] = down[d]
    BY <1>1 DEF UpTypes, DownTypes
  <1>6. runs' \in 0 .. MaxRuns  BY <1>1, DeployersAssumption
  <1>7. Touches(e)
    BY <1>1, <1>3, <1>4, <1>5, <1>6
       DEF Touches, Kept, MigrationTypes, DbType, ChildTypes, ParentTypes, SessionTypes,
           UpTypes, DownTypes
  <1>8. DeployerTypes(e)'
    <2>1. child'[e] = [pc |-> child'[e].pc, staged |-> child'[e].staged,
                       durable |-> child'[e].durable]
          /\ child'[e].pc \in ChildStates
      BY <1>3 DEF ChildStates
    <2>2. /\ parent'[e] = [pc |-> parent'[e].pc, pid |-> parent'[e].pid,
                           authorized |-> parent'[e].authorized, result |-> parent'[e].result]
          /\ parent'[e].pc \in ParentStates /\ parent'[e].result \in Results
      <3>1. CASE e \in Commands  BY <1>2, <1>4, <3>1 DEF DeployerTypes
      <3>2. CASE e \notin Commands  BY <1>4, <3>2 DEF ParentStates, Results
      <3> QED BY <3>1, <3>2
    <2>3. up'[e] \in Seq(Messages) /\ down'[e] \in Seq(Answers)  BY <1>5
    <2> QED BY <1>1, <1>2, <2>1, <2>2, <2>3 DEF DeployerTypes
  <1>9. Len(up'[e]) = 0 /\ Len(down'[e]) = 0  BY <1>5
  <1>10. SessionInv(e)' /\ StagedInv(e)'
    BY <1>1, <1>2, <1>3 DEF SessionInv, StagedInv, Phases
  <1>11. UpInv(e)'  BY <1>3, <1>9 DEF UpInv
  <1>12. DownInv(e)'  BY <1>9 DEF DownInv, Replied
  <1>13. ParentInv(e)'
    <2>1. CASE e \in Commands
      BY <1>2, <1>3, <1>4, <1>9, <2>1 DEF ParentInv, Migrations!Alive, Migrations!None
    <2>2. CASE e \notin Commands
      BY <1>3, <1>4, <1>9, <2>2 DEF ParentInv, Migrations!Alive, Migrations!None
    <2> QED BY <2>1, <2>2
  <1> QED BY <1>7, <1>8, <1>10, <1>11, <1>12, <1>13, MigrationFrame DEF DeployerInv

LEMMA CancelKeeps ==
    ASSUME MigrationInv, NEW e \in Deployers, Migrations!Cancel(e)
    PROVE  MigrationInv'
  <1> /\ DbType /\ ChildTypes /\ ParentTypes /\ SessionTypes /\ UpTypes /\ DownTypes
      /\ mlock \in Deployers \cup {"none"} /\ runs \in 0 .. MaxRuns
    BY TypesOf
  <1>1. /\ parent[e].pc = "waiting" /\ ~ parent[e].authorized
        /\ up' = [up EXCEPT ![e] = <<>>]
        /\ UNCHANGED <<db, mlock, child, session, down, runs>>
    BY DEF Migrations!Cancel
  <1>2. DeployerTypes(e) /\ SessionInv(e) /\ UpInv(e) /\ DownInv(e) /\ ParentInv(e)
    BY TypesOf DEF DeployerInv
  <1>3. PICK pid : parent' = [parent EXCEPT ![e].pc = "stopping", ![e].result = "cancelled",
                                            ![e].pid = pid]
    <2> DEFINE told == parent[e].pid \/ \E i \in 1 .. Len(up[e]) : up[e][i] = "backend"
    <2>1. parent' = [parent EXCEPT ![e].pc = "stopping", ![e].result = "cancelled",
                                   ![e].pid = told]
      BY DEF Migrations!Cancel
    <2> QED BY <2>1
  <1>4. /\ ParentTypes' /\ \A d \in Deployers \ {e} : parent'[d] = parent[d]
        /\ parent'[e] = [pc |-> "stopping", pid |-> pid,
                         authorized |-> parent[e].authorized, result |-> "cancelled"]
    BY <1>2, <1>3 DEF ParentTypes, DeployerTypes
  <1>5. /\ UpTypes' /\ up'[e] = <<>> /\ \A d \in Deployers \ {e} : up'[d] = up[d]
    BY <1>1 DEF UpTypes
  <1>6. Touches(e)
    BY <1>1, <1>4, <1>5
       DEF Touches, Kept, MigrationTypes, DbType, ChildTypes, ParentTypes, SessionTypes,
           UpTypes, DownTypes
  <1>7. DeployerTypes(e)'
    <2>1. /\ parent'[e] = [pc |-> parent'[e].pc, pid |-> parent'[e].pid,
                          authorized |-> parent'[e].authorized, result |-> parent'[e].result]
          /\ parent'[e].pc \in ParentStates /\ parent'[e].result \in Results
      BY <1>4 DEF ParentStates, Results
    <2>2. up'[e] \in Seq(Messages)  BY <1>5
    <2> QED BY <1>1, <1>2, <2>1, <2>2 DEF DeployerTypes
  <1>8. SessionInv(e)'  BY <1>1, <1>2 DEF SessionInv, Migrations!Alive, Migrations!None
  <1>9. StagedInv(e)'
    BY <1>1, TypesOf DEF DeployerInv, StagedInv, Migrations!Row, Migrations!NoRow
  <1>10. Len(up'[e]) = 0  BY <1>5
  <1>11. UpInv(e)'  BY <1>1, <1>10 DEF UpInv
  <1>12. DownInv(e)'
    <2>1. \A i \in 1 .. Len(down[e]) : down[e][i] # "abort"  BY <1>1, <1>2 DEF DownInv
    <2> QED BY <1>1, <1>2, <1>4, <1>10, <2>1 DEF DownInv, Replied
  <1>13. ParentInv(e)'
    BY <1>1, <1>2, <1>4, <1>10 DEF ParentInv, Migrations!Alive, Migrations!None
  <1> QED BY <1>6, <1>7, <1>8, <1>9, <1>11, <1>12, <1>13, MigrationFrame DEF DeployerInv

LEMMA StopProcessKeeps ==
    ASSUME MigrationInv, NEW e \in Deployers, Migrations!StopProcess(e)
    PROVE  MigrationInv'
  <1> /\ DbType /\ ChildTypes /\ ParentTypes /\ SessionTypes /\ UpTypes /\ DownTypes
      /\ mlock \in Deployers \cup {"none"} /\ runs \in 0 .. MaxRuns
    BY TypesOf
  <1>1. /\ parent[e].pc = "stopping" /\ Migrations!Parent(e, "joining")
        /\ down' = IF Migrations!Alive(e) THEN [down EXCEPT ![e] = Append(@, "abort")] ELSE down
        /\ UNCHANGED <<db, mlock, child, session, up, runs>>
    BY DEF Migrations!StopProcess
  <1>2. DeployerTypes(e) /\ SessionInv(e) /\ UpInv(e) /\ DownInv(e) /\ ParentInv(e)
    BY TypesOf DEF DeployerInv
  <1>3. /\ ParentTypes' /\ \A d \in Deployers \ {e} : parent'[d] = parent[d]
        /\ parent'[e] = [pc |-> "joining", pid |-> parent[e].pid,
                         authorized |-> parent[e].authorized, result |-> parent[e].result]
    BY <1>1, <1>2, ParentEffect
  <1>4. /\ DownTypes' /\ \A d \in Deployers \ {e} : down'[d] = down[d]
        /\ down'[e] \in Seq(Answers)
        /\ \/ down' = down
           \/ /\ Len(down[e]) \in Nat /\ Len(down'[e]) = Len(down[e]) + 1
              /\ down'[e][Len(down[e]) + 1] = "abort"
              /\ \A i \in 1 .. Len(down[e]) : down'[e][i] = down[e][i]
    <2>1. CASE Migrations!Alive(e)
      <3>1. "abort" \in Answers  BY DEF Answers
      <3> QED BY <1>1, <1>2, <2>1, <3>1, ReplyEffect
    <2>2. CASE ~ Migrations!Alive(e)  BY <1>1, <1>2, <2>2 DEF DownTypes, DeployerTypes
    <2> QED BY <2>1, <2>2
  <1>5. Touches(e)
    BY <1>1, <1>3, <1>4
       DEF Touches, Kept, MigrationTypes, DbType, ChildTypes, ParentTypes, SessionTypes,
           UpTypes, DownTypes
  <1>6. DeployerTypes(e)'  BY <1>1, <1>2, <1>3, <1>4 DEF DeployerTypes, ParentStates
  <1>7. SessionInv(e)'  BY <1>1, <1>2 DEF SessionInv, Migrations!Alive, Migrations!None
  <1>8. StagedInv(e)'
    BY <1>1, TypesOf DEF DeployerInv, StagedInv, Migrations!Row, Migrations!NoRow
  <1>9. UpInv(e)'  BY <1>1, <1>2 DEF UpInv
  <1>10. DownInv(e)'
    <2>0. \A i \in 1 .. Len(down[e]) : down[e][i] # "abort"  BY <1>1, <1>2 DEF DownInv
    <2>1. CASE down' = down  BY <1>1, <1>2, <1>3, <2>0, <2>1 DEF DownInv, Replied
    <2>2. CASE /\ Len(down[e]) \in Nat /\ Len(down'[e]) = Len(down[e]) + 1
               /\ down'[e][Len(down[e]) + 1] = "abort"
               /\ \A i \in 1 .. Len(down[e]) : down'[e][i] = down[e][i]
      <3>1. PICK n \in Nat : n = Len(down[e])  BY <2>2
      <3>2. n <= 1
        <4>1. n <= 2 /\ n # 2  BY <1>2, <2>0, <3>1 DEF DownInv
        <4> QED BY <4>1
      <3>3. /\ Len(down'[e]) = n + 1 /\ down'[e][n + 1] = "abort"
            /\ \A i \in 1 .. n : down'[e][i] = down[e][i] /\ down[e][i] # "abort"
        BY <2>0, <2>2, <3>1
      <3>4. Len(down'[e]) <= 2 /\ (Len(down'[e]) = 2 => down'[e][2] = "abort")  BY <3>2, <3>3
      <3>5. \A i \in 1 .. Len(down'[e]) : down'[e][i] = "abort" => i = Len(down'[e])  BY <3>3
      <3>6. Replied(e)' => Replied(e) /\ down'[e][1] = down[e][1]
        <4>1. CASE n = 0  BY <3>3, <4>1 DEF Replied
        <4>2. CASE n = 1  BY <3>1, <3>3, <4>2 DEF Replied
        <4> QED BY <3>2, <4>1, <4>2
      <3> QED BY <1>1, <1>2, <1>3, <3>4, <3>5, <3>6 DEF DownInv
    <2> QED BY <1>4, <2>1, <2>2
  <1>11. ParentInv(e)'  BY <1>1, <1>2, <1>3 DEF ParentInv, Migrations!Alive, Migrations!None
  <1> QED BY <1>5, <1>6, <1>7, <1>8, <1>9, <1>10, <1>11, MigrationFrame DEF DeployerInv

\* The parent has taken the first message.
LEMMA TakenUp ==
    ASSUME UpTypes, NEW e \in Deployers, DeployerTypes(e), UpInv(e), up[e] # <<>>,
           up' = [up EXCEPT ![e] = Tail(@)], child' = child
    PROVE  /\ UpTypes' /\ \A d \in Deployers \ {e} : up'[d] = up[d]
           /\ up'[e] \in Seq(Messages)
           /\ Head(up[e]) = up[e][1] /\ up[e][1] \in Messages /\ 1 \in 1 .. Len(up[e])
           /\ \A i \in 1 .. Len(up'[e]) :
                i + 1 \in 1 .. Len(up[e]) /\ i + 1 # 1 /\ up'[e][i] = up[e][i + 1]
           /\ UpInv(e)'
  <1>1. up[e] \in Seq(Messages)  BY DEF DeployerTypes
  <1>2. /\ UpTypes' /\ up'[e] = Tail(up[e]) /\ \A d \in Deployers \ {e} : up'[d] = up[d]
    BY DEF UpTypes
  <1>3. /\ Tail(up[e]) \in Seq(Messages) /\ Len(up[e]) \in Nat /\ Len(up[e]) > 0
        /\ Len(Tail(up[e])) = Len(up[e]) - 1
        /\ \A i \in 1 .. Len(up[e]) - 1 : Tail(up[e])[i] = up[e][i + 1]
        /\ Head(up[e]) = up[e][1] /\ up[e][1] \in Messages
    BY <1>1, TailFacts
  <1>4. PICK n \in Nat : Len(up[e]) = n + 1
    <2>1. PICK k \in Nat : k = Len(up[e])  BY <1>3
    <2>2. k > 0  BY <1>3, <2>1
    <2>3. k - 1 \in Nat /\ k = (k - 1) + 1  BY <2>2
    <2> QED BY <2>1, <2>3
  <1>5. Len(up[e]) = n + 1 /\ Len(up'[e]) = n
    <2>1. Len(up'[e]) = (n + 1) - 1  BY <1>2, <1>3, <1>4
    <2> QED BY <1>4, <2>1
  <1>6. \A i \in 1 .. n : i + 1 \in 1 .. n + 1 /\ i + 1 # 1 /\ up'[e][i] = up[e][i + 1]
    BY <1>2, <1>3, <1>4, <1>5
  <1>7. UpInv(e)'
    <2>1. n + 1 <= 3 /\ n <= 3 /\ n <= 2  BY <1>5 DEF UpInv
    <2>2. child[e].pc \notin {"none", "spawned", "committed"}  BY <1>5 DEF UpInv
    <2>3. /\ child[e].pc \in {"lock", "schema_applied", "ready_to_commit"} => n <= 1
          /\ child[e].pc = "lock_acquired" => n <= 2
      BY <1>5 DEF UpInv
    <2>4. \A i \in 1 .. n : child[e].pc = "lock" => up'[e][i] \notin Phases
      BY <1>5, <1>6 DEF UpInv
    <2>5. ASSUME child[e].pc \in Phases, NEW i \in 1 .. n
          PROVE  up'[e][i] \in Phases <=> i = n
      <3>1. up[e][i + 1] \in Phases <=> i + 1 = n + 1  BY <1>5, <1>6, <2>5 DEF UpInv
      <3>2. up'[e][i] = up[e][i + 1]  BY <1>6
      <3>3. i + 1 = n + 1 <=> i = n  OBVIOUS
      <3> QED BY <3>1, <3>2, <3>3
    <2>6. ASSUME NEW i \in 1 .. n, NEW j \in 1 .. n, up'[e][i] \in Phases, up'[e][j] \in Phases
          PROVE  i = j
      <3>1. up[e][i + 1] \in Phases /\ up[e][j + 1] \in Phases  BY <1>6, <2>6
      <3>2. i + 1 = j + 1  BY <1>5, <1>6, <3>1 DEF UpInv
      <3> QED BY <3>2
    <2>7. \A i \in 1 .. n : up'[e][i] = "committed" =>
             child[e].pc \in {"closing", "exited"} /\ child[e].durable
      BY <1>5, <1>6 DEF UpInv
    <2> QED BY <1>5, <2>1, <2>2, <2>3, <2>4, <2>5, <2>6, <2>7 DEF UpInv
  <1> QED BY <1>2, <1>3, <1>5, <1>6, <1>7

LEMMA ReceiveKeeps ==
    ASSUME MigrationInv, NEW e \in Deployers, Migrations!Receive(e)
    PROVE  MigrationInv'
  <1> /\ DbType /\ ChildTypes /\ ParentTypes /\ SessionTypes /\ UpTypes /\ DownTypes
      /\ mlock \in Deployers \cup {"none"} /\ runs \in 0 .. MaxRuns
    BY TypesOf
  <1> DEFINE m == up[e][1]
  <1>1. DeployerTypes(e) /\ SessionInv(e) /\ UpInv(e) /\ DownInv(e) /\ ParentInv(e)
    BY TypesOf DEF DeployerInv
  <1>2. /\ parent[e].pc = "waiting" /\ up[e] # <<>> /\ up' = [up EXCEPT ![e] = Tail(@)]
        /\ UNCHANGED <<db, mlock, child, session, runs>>
    BY DEF Migrations!Receive
  <1>3. /\ UpTypes' /\ \A d \in Deployers \ {e} : up'[d] = up[d]
        /\ up'[e] \in Seq(Messages)
        /\ Head(up[e]) = m /\ m \in Messages /\ 1 \in 1 .. Len(up[e])
        /\ \A i \in 1 .. Len(up'[e]) :
             i + 1 \in 1 .. Len(up[e]) /\ i + 1 # 1 /\ up'[e][i] = up[e][i + 1]
        /\ UpInv(e)'
    BY <1>1, <1>2, TakenUp
  <1>4. /\ parent' = [parent EXCEPT ![e] =
             CASE m = "backend" -> [@ EXCEPT !.pid = TRUE]
               [] m = "ready_to_commit" -> [@ EXCEPT !.authorized = TRUE]
               [] m \in {"committed", "error"} -> [@ EXCEPT !.pc = "cleanup", !.result = m]
               [] OTHER -> @]
        /\ down' = [down EXCEPT ![e] =
             CASE m = "ready_to_commit" -> Append(@, "commit")
               [] m \in {"lock_acquired", "schema_applied"} -> Append(@, "continue")
               [] OTHER -> @]
    BY <1>3 DEF Migrations!Receive
  <1> HIDE DEF m
  <1>5. /\ e \notin Commands /\ parent[e].result = "none"
        /\ \A i \in 1 .. Len(down[e]) : down[e][i] # "abort"
    BY <1>1, <1>2 DEF ParentInv, DownInv
  <1>6. SessionInv(e)'  BY <1>1, <1>2 DEF SessionInv, Migrations!Alive, Migrations!None
  <1>7. StagedInv(e)'
    BY <1>2, TypesOf DEF DeployerInv, StagedInv, Migrations!Row, Migrations!NoRow
  <1>8. ParentTypes' /\ \A d \in Deployers \ {e} : parent'[d] = parent[d]
    BY <1>4 DEF ParentTypes
  <1>9. DownTypes' /\ \A d \in Deployers \ {e} : down'[d] = down[d]  BY <1>4 DEF DownTypes
  <1>10. Touches(e)
    BY <1>2, <1>3, <1>8, <1>9
       DEF Touches, Kept, MigrationTypes, DbType, ChildTypes, ParentTypes, SessionTypes,
           UpTypes, DownTypes
  <1>11. ASSUME m \in Phases
         PROVE  DeployerTypes(e)' /\ DownInv(e)' /\ ParentInv(e)'
    <2> DEFINE answer == IF m = "ready_to_commit" THEN "commit" ELSE "continue"
    <2>0. answer \in Answers /\ answer # "abort"  BY DEF Answers
    <2>1. down' = [down EXCEPT ![e] = Append(@, answer)]  BY <1>4, <1>11 DEF Phases
    <2>2. /\ parent'[e] = [pc |-> "waiting", pid |-> parent[e].pid,
                           authorized |-> parent'[e].authorized, result |-> "none"]
          /\ parent[e].authorized => parent'[e].authorized
          /\ m = "ready_to_commit" => parent'[e].authorized
      <3>1. CASE m = "ready_to_commit"
        <4>1. parent'[e] = [pc |-> "waiting", pid |-> parent[e].pid,
                            authorized |-> TRUE, result |-> "none"]
          BY <1>1, <1>2, <1>4, <1>5, <3>1 DEF ParentTypes, DeployerTypes
        <4> QED BY <4>1
      <3>2. CASE m # "ready_to_commit"
        <4>1. parent'[e] = parent[e]  BY <1>4, <1>11, <3>2 DEF ParentTypes, Phases
        <4> QED BY <1>1, <1>2, <1>5, <3>2, <4>1 DEF DeployerTypes
      <3> QED BY <3>1, <3>2
    <2>3. /\ down'[e] \in Seq(Answers) /\ Len(down[e]) \in Nat
          /\ Len(down'[e]) = Len(down[e]) + 1 /\ down'[e][Len(down[e]) + 1] = answer
      <3> HIDE DEF answer
      <3> QED BY <1>1, <2>0, <2>1, ReplyEffect
    <2>4. up[e][1] \in Phases  BY <1>11 DEF m
    <2>5. ~ Replied(e) /\ child[e].pc \notin {"none", "spawned", "lock", "committed"}
      <3>1. ~ Replied(e)  BY <1>1, <1>3, <2>4 DEF DownInv
      <3>2. child[e].pc # "lock"  BY <1>1, <1>3, <2>4 DEF UpInv
      <3>3. Len(up[e]) # 0  BY <1>3
      <3> QED BY <1>1, <3>1, <3>2, <3>3 DEF UpInv
    <2>6. Len(down[e]) = 0  BY <1>5, <2>3, <2>5 DEF Replied
    <2>7. Len(down'[e]) = 1 /\ down'[e][1] = answer  BY <2>3, <2>6
    <2>8. \A i \in 1 .. Len(up'[e]) : up'[e][i] \notin Phases  BY <1>1, <1>3, <2>4 DEF UpInv
    <2>9. DeployerTypes(e)'
      <3>1. /\ parent'[e] = [pc |-> parent'[e].pc, pid |-> parent'[e].pid,
                            authorized |-> parent'[e].authorized, result |-> parent'[e].result]
            /\ parent'[e].pc \in ParentStates /\ parent'[e].result \in Results
        BY <2>2 DEF ParentStates, Results
      <3> QED BY <1>1, <1>2, <1>3, <2>3, <3>1 DEF DeployerTypes
    <2>10. DownInv(e)'
      <3>1. down'[e][1] = "commit" => parent'[e].authorized  BY <2>2, <2>7
      <3>2. Len(down'[e]) = 1 /\ down'[e][1] # "abort"  BY <2>0, <2>7
      <3>3. \A i \in 1 .. Len(down'[e]) : down'[e][i] # "abort"  BY <3>2
      <3>4. child'[e].pc \notin {"none", "spawned", "lock", "committed"}  BY <1>2, <2>5
      <3> QED BY <2>8, <3>1, <3>2, <3>3, <3>4 DEF DownInv
    <2>11. ParentInv(e)'
      BY <1>1, <1>2, <1>5, <2>2 DEF ParentInv, Migrations!Alive, Migrations!None
    <2> QED BY <2>9, <2>10, <2>11
  <1>12. ASSUME m \notin Phases
         PROVE  DeployerTypes(e)' /\ DownInv(e)' /\ ParentInv(e)'
    <2>1. down' = down  BY <1>4, <1>12 DEF Phases, DownTypes
    <2>2. \A i \in 1 .. Len(up'[e]) : \E j \in 1 .. Len(up[e]) : up'[e][i] = up[e][j]  BY <1>3
    <2>3. CASE m = "backend"
      <3>1. parent'[e] = [pc |-> "waiting", pid |-> TRUE, authorized |-> parent[e].authorized,
                          result |-> "none"]
        BY <1>1, <1>2, <1>4, <1>5, <2>3 DEF ParentTypes, DeployerTypes
      <3>2. DeployerTypes(e)'
        <4>1. /\ parent'[e] = [pc |-> parent'[e].pc, pid |-> parent'[e].pid,
                              authorized |-> parent'[e].authorized, result |-> parent'[e].result]
              /\ parent'[e].pc \in ParentStates /\ parent'[e].result \in Results
          BY <3>1 DEF ParentStates, Results
        <4> QED BY <1>1, <1>2, <1>3, <2>1, <4>1 DEF DeployerTypes
      <3>3. DownInv(e)'  BY <1>1, <1>2, <1>5, <2>1, <2>2, <3>1 DEF DownInv, Replied
      <3>4. ParentInv(e)'
        BY <1>1, <1>2, <1>5, <3>1 DEF ParentInv, Migrations!Alive, Migrations!None
      <3> QED BY <3>2, <3>3, <3>4
    <2>4. CASE m \in {"committed", "error"}
      <3>1. parent'[e] = [pc |-> "cleanup", pid |-> parent[e].pid,
                          authorized |-> parent[e].authorized, result |-> m]
        BY <1>1, <1>2, <1>4, <2>4 DEF ParentTypes, DeployerTypes
      <3>2. DeployerTypes(e)'
        <4>1. parent'[e] = [pc |-> parent'[e].pc, pid |-> parent'[e].pid,
                            authorized |-> parent'[e].authorized, result |-> parent'[e].result]
          BY <3>1
        <4>2. parent'[e].pc \in ParentStates /\ parent'[e].result \in Results
          BY <2>4, <3>1 DEF ParentStates, Results
        <4> QED BY <1>1, <1>2, <1>3, <2>1, <4>1, <4>2 DEF DeployerTypes
      <3>3. DownInv(e)'  BY <1>1, <1>2, <1>5, <2>1, <2>2, <3>1 DEF DownInv, Replied
      <3>4. m = "committed" => child[e].pc \in {"closing", "exited"} /\ child[e].durable
        BY <1>1, <1>3 DEF UpInv, m
      <3>5. ParentInv(e)'
        BY <1>1, <1>2, <1>5, <2>4, <3>1, <3>4 DEF ParentInv, Migrations!Alive, Migrations!None
      <3> QED BY <3>2, <3>3, <3>5
    <2> QED BY <1>3, <1>12, <2>3, <2>4 DEF Messages
  <1> QED BY <1>3, <1>6, <1>7, <1>10, <1>11, <1>12, MigrationFrame DEF DeployerInv

-----------------------------------------------------------------------------
(* The history.                                                             *)

\* What a release stages on a history it accepts extends it.
LEMMA StagedExtends ==
    ASSUME DbType, NEW r, r.version \in Nat, NEW op, Migrations!InventoryAccepted(r, db),
           NEW staged,
           staged = Migrations!Persisted(r,
                      Migrations!Stored([db EXCEPT !.applied = Migrations!Applied(r, op, db)]))
    PROVE  /\ staged = [applied |-> staged.applied, inventory |-> staged.inventory]
           /\ \A o \in DOMAIN staged.inventory : staged.inventory[o].version \in Nat
           /\ \A o \in DOMAIN db.inventory :
                LET before == db.inventory[o]
                    after == Migrations!Row(staged, o) IN
                before.format = 2 /\ after.format = 2 =>
                  /\ before.ids \subseteq after.ids
                  /\ before.manifest \subseteq after.manifest
                  /\ before.version <= after.version
  <1> DEFINE applied == Migrations!Applied(r, op, db)
             moved == [applied |-> applied, inventory |-> db.inventory]
             migrated == Migrations!Stored(moved)
             owners == (Migrations!Owners(r) \ {Core}) \cup DOMAIN migrated.inventory
  <1>1. [db EXCEPT !.applied = applied] = moved
    <2> HIDE DEF applied
    <2> QED BY DEF DbType
  <1>2. staged = Migrations!Persisted(r, migrated)  BY <1>1
  <1> HIDE DEF applied
  <1>3. CASE InventoryAt \notin applied
    <2>1. migrated = [applied |-> applied, inventory |-> <<>>]  BY <1>3 DEF Migrations!Stored
    <2>2. staged = [applied |-> applied, inventory |-> <<>>]
      BY <1>2, <1>3, <2>1 DEF Migrations!Persisted
    <2>3. \A o : Migrations!Row(staged, o) = Migrations!NoRow  BY <2>2 DEF Migrations!Row
    <2>4. Migrations!NoRow.format # 2  BY DEF Migrations!NoRow
    <2>5. DOMAIN staged.inventory = {}  BY <2>2
    <2> QED BY <2>2, <2>3, <2>4, <2>5
  <1>4. CASE InventoryAt \in applied
    <2>1. /\ migrated = [applied |-> applied, inventory |-> migrated.inventory]
          /\ DOMAIN migrated.inventory = DOMAIN db.inventory
          /\ \A o \in DOMAIN migrated.inventory : migrated.inventory[o].version \in Nat
      <3>1. CASE GraphAt \in applied
        <4>1. migrated = moved  BY <1>4, <3>1 DEF Migrations!Stored
        <4> QED BY <4>1 DEF DbType
      <3>2. CASE GraphAt \notin applied
        <4> DEFINE Old(o) == [db.inventory[o] EXCEPT !.format = 1, !.manifest = {}]
        <4>1. migrated = [applied |-> applied, inventory |-> [o \in DOMAIN db.inventory |-> Old(o)]]
          BY <1>4, <3>2 DEF Migrations!Stored
        <4>2. ASSUME NEW o \in DOMAIN db.inventory PROVE Old(o).version \in Nat
          BY <4>2 DEF DbType
        <4> HIDE DEF Old
        <4> QED BY <4>1, <4>2
      <3> QED BY <3>1, <3>2
    <2> HIDE DEF migrated
    <2>2. /\ staged = [applied |-> applied, inventory |-> staged.inventory]
          /\ DOMAIN staged.inventory = owners
          /\ \A o \in owners : staged.inventory[o].version \in Nat
          /\ \A o \in owners : o \in Migrations!Owners(r) /\ staged.inventory[o].format = 2 =>
               staged.inventory[o] =
                 [format |-> 2, version |-> r.version,
                  ids |-> Migrations!Ids(Migrations!OwnedBy(r, o)),
                  manifest |-> Migrations!RevisionManifest(Migrations!OwnedBy(r, o))]
      <3> DEFINE Entry(o) ==
                   IF o \notin Migrations!Owners(r) THEN migrated.inventory[o]
                   ELSE LET graph == GraphAt \in applied
                            own == Migrations!OwnedBy(r, o) IN
                        [format |-> IF graph THEN 2 ELSE 1, version |-> r.version,
                         ids |-> Migrations!Ids(own),
                         manifest |-> IF graph THEN Migrations!RevisionManifest(own) ELSE {}]
      <3>0. staged = [applied |-> applied, inventory |-> [o \in owners |-> Entry(o)]]
        <4>1. PICK inv : inv = migrated.inventory  OBVIOUS
        <4>2. migrated = [applied |-> applied, inventory |-> inv]  BY <2>1, <4>1
        <4>3. Migrations!Persisted(r, [applied |-> applied, inventory |-> inv]) =
                [applied |-> applied, inventory |-> [o \in owners |-> Entry(o)]]
          BY <1>4, <4>1 DEF Migrations!Persisted
        <4> QED BY <1>2, <4>2, <4>3
      <3>1. /\ staged.applied = applied /\ DOMAIN staged.inventory = owners
            /\ staged = [applied |-> applied, inventory |-> staged.inventory]
        <4> HIDE DEF Entry
        <4> QED BY <3>0
      <3>2. ASSUME NEW o \in owners, o \in Migrations!Owners(r), staged.inventory[o].format = 2
            PROVE  staged.inventory[o] =
                     [format |-> 2, version |-> r.version,
                      ids |-> Migrations!Ids(Migrations!OwnedBy(r, o)),
                      manifest |-> Migrations!RevisionManifest(Migrations!OwnedBy(r, o))]
        <4>1. staged.inventory[o] =
                LET graph == GraphAt \in applied
                    own == Migrations!OwnedBy(r, o) IN
                [format |-> IF graph THEN 2 ELSE 1, version |-> r.version,
                 ids |-> Migrations!Ids(own),
                 manifest |-> IF graph THEN Migrations!RevisionManifest(own) ELSE {}]
          BY <3>0, <3>2
        <4>2. GraphAt \in applied  BY <3>2, <4>1
        <4> QED BY <4>1, <4>2
      <3>3. ASSUME NEW o \in owners PROVE staged.inventory[o].version \in Nat
        <4>1. Entry(o).version \in Nat
          <5>1. CASE o \in Migrations!Owners(r)  BY <5>1
          <5>2. CASE o \notin Migrations!Owners(r)  BY <2>1, <5>2
          <5> QED BY <5>1, <5>2
        <4> HIDE DEF Entry
        <4> QED BY <3>0, <4>1
      <3> QED BY <3>1, <3>2, <3>3
    <2>3. ASSUME NEW o \in DOMAIN db.inventory, db.inventory[o].format = 2,
                 Migrations!Row(staged, o).format = 2
          PROVE  /\ db.inventory[o].ids \subseteq Migrations!Row(staged, o).ids
                 /\ db.inventory[o].manifest \subseteq Migrations!Row(staged, o).manifest
                 /\ db.inventory[o].version <= Migrations!Row(staged, o).version
      <3>1. o \in Migrations!Owners(r) /\ Migrations!HistoryAccepted(r, o, db.inventory[o])
        BY DEF Migrations!InventoryAccepted
      <3>2. o \in owners  BY <2>1
      <3>3. Migrations!Row(staged, o) = staged.inventory[o]  BY <2>2, <3>2 DEF Migrations!Row
      <3>4. staged.inventory[o] =
              [format |-> 2, version |-> r.version,
               ids |-> Migrations!Ids(Migrations!OwnedBy(r, o)),
               manifest |-> Migrations!RevisionManifest(Migrations!OwnedBy(r, o))]
        BY <2>2, <2>3, <3>1, <3>2, <3>3
      <3> QED BY <3>1, <3>3, <3>4 DEF Migrations!HistoryAccepted
    <2>4. staged = [applied |-> staged.applied, inventory |-> staged.inventory]  BY <2>2
    <2> QED BY <2>2, <2>3, <2>4
  <1> QED BY <1>3, <1>4

LEMMA ApplySchemaKeeps ==
    ASSUME MigrationInv, NEW e \in Deployers, Migrations!ApplySchema(e)
    PROVE  MigrationInv'
  <1> /\ DbType /\ ChildTypes /\ ParentTypes /\ SessionTypes /\ UpTypes /\ DownTypes
      /\ mlock \in Deployers \cup {"none"} /\ runs \in 0 .. MaxRuns
    BY TypesOf
  <1>0. PICK r \in Migrations!Deployable, op \in Migrations!Operations :
          /\ Migrations!InventoryAccepted(r, db)
          /\ LET migrated == Migrations!Stored([db EXCEPT !.applied = Migrations!Applied(r, op, db)])
             IN child' = [child EXCEPT ![e].pc = "schema_applied",
                                       ![e].staged = Migrations!Persisted(r, migrated)]
    BY DEF Migrations!ApplySchema
  <1>1. /\ Migrations!Answered(e, "lock_acquired", "continue")
        /\ Migrations!Send(e, "schema_applied")
        /\ UNCHANGED <<db, mlock, parent, session, runs>>
    BY DEF Migrations!ApplySchema
  <1>2. DeployerTypes(e) /\ SessionInv(e) /\ UpInv(e) /\ DownInv(e) /\ ParentInv(e)
    BY TypesOf DEF DeployerInv
  <1> DEFINE staged == Migrations!Persisted(r,
                         Migrations!Stored([db EXCEPT !.applied = Migrations!Applied(r, op, db)]))
  <1>3. /\ staged = [applied |-> staged.applied, inventory |-> staged.inventory]
        /\ \A o \in DOMAIN staged.inventory : staged.inventory[o].version \in Nat
        /\ \A o \in DOMAIN db.inventory :
             LET before == db.inventory[o]
                 after == Migrations!Row(staged, o) IN
             before.format = 2 /\ after.format = 2 =>
               /\ before.ids \subseteq after.ids
               /\ before.manifest \subseteq after.manifest
               /\ before.version <= after.version
    <2>1. DbType /\ Migrations!InventoryAccepted(r, db) /\ r.version \in Nat
      BY <1>0, ReleasesAssumption DEF Migrations!Deployable
    <2> QED BY <2>1, StagedExtends
  <1>4. child' = [child EXCEPT ![e].pc = "schema_applied", ![e].staged = staged]  BY <1>0
  <1> HIDE DEF staged
  <1>5. /\ ChildTypes' /\ \A d \in Deployers \ {e} : child'[d] = child[d]
        /\ child'[e] = [pc |-> "schema_applied", staged |-> staged, durable |-> child[e].durable]
    BY <1>2, <1>4 DEF ChildTypes, DeployerTypes
  <1>6. /\ child[e].pc = "lock_acquired" /\ DownTypes'
        /\ \A d \in Deployers \ {e} : down'[d] = down[d]
        /\ down'[e] \in Seq(Answers)
        /\ \/ e \in Commands /\ down' = down
           \/ /\ Replied(e) /\ down[e][1] = "continue"
              /\ \/ Len(down'[e]) = 0
                 \/ /\ Len(down'[e]) = 1 /\ down'[e][1] = "abort"
                    /\ Len(down[e]) = 2 /\ down[e][2] = "abort"
    <2>1. "continue" \in Answers \ {"abort"}  BY DEF Answers
    <2> QED BY <1>1, <1>2, <2>1, AnsweredEffect
  <1>7. /\ UpTypes' /\ \A d \in Deployers \ {e} : up'[d] = up[d]
        /\ up'[e] \in Seq(Messages) /\ (e \in Commands => up' = up)
        /\ UpInv(e)'
    <2>1. "schema_applied" \in Phases /\ child[e].pc \in Phases  BY <1>6 DEF Phases
    <2>2. \A i \in 1 .. Len(up[e]) : up[e][i] \notin Phases
      BY <1>2, <1>6 DEF DownInv, ParentInv
    <2>3. child'[e].pc = "schema_applied" /\ child[e].pc # "lock"  BY <1>5, <1>6
    <2> QED BY <1>1, <1>2, <2>1, <2>2, <2>3, Announced
  <1>8. Touches(e)
    BY <1>1, <1>5, <1>6, <1>7
       DEF Touches, Kept, MigrationTypes, DbType, ChildTypes, ParentTypes, SessionTypes,
           UpTypes, DownTypes
  <1>9. DeployerTypes(e)'
    <2>1. /\ child'[e] = [pc |-> child'[e].pc, staged |-> child'[e].staged,
                         durable |-> child'[e].durable]
          /\ child'[e].pc \in ChildStates
      BY <1>5 DEF ChildStates
    <2> QED BY <1>1, <1>2, <1>6, <1>7, <2>1 DEF DeployerTypes
  <1>10. SessionInv(e)'
    BY <1>1, <1>2, <1>5, <1>6 DEF SessionInv, Phases, Migrations!Alive, Migrations!None
  <1>11. StagedInv(e)'
    <2>1. child'[e].staged = staged  BY <1>5
    <2> QED BY <1>1, <1>3, <2>1 DEF StagedInv
  <1>12. DownInv(e)'  BY <1>1, <1>2, <1>6, AbortLeft DEF ParentInv
  <1>13. ParentInv(e)'
    BY <1>1, <1>2, <1>5, <1>6, <1>7 DEF ParentInv, Migrations!Alive, Migrations!None
  <1> QED BY <1>7, <1>8, <1>9, <1>10, <1>11, <1>12, <1>13, MigrationFrame DEF DeployerInv

-----------------------------------------------------------------------------
(* The invariant of the migrations.                                         *)

LEMMA MigrationStart == Migrations!Init => MigrationInv
  <1> SUFFICES ASSUME Migrations!Init PROVE MigrationInv  OBVIOUS
  <1>1. DbType
    <2>1. CASE db = Migrations!Empty  BY <2>1 DEF Migrations!Empty, DbType
    <2>2. CASE \E r \in Installed :
                 db = Migrations!Persisted(r, [Migrations!Empty EXCEPT !.applied = Migrations!Ids(r.revisions)])
      <3>1. PICK r \in Installed :
              db = Migrations!Persisted(r, [Migrations!Empty EXCEPT !.applied = Migrations!Ids(r.revisions)])
        BY <2>2
      <3>2. PICK ids : ids = Migrations!Ids(r.revisions)  OBVIOUS
      <3>3. db = Migrations!Persisted(r, [applied |-> ids, inventory |-> <<>>])
        BY <3>1, <3>2 DEF Migrations!Empty
      <3>4. CASE InventoryAt \notin ids
        <4>1. db = [applied |-> ids, inventory |-> <<>>]
          BY <3>3, <3>4 DEF Migrations!Persisted
        <4> QED BY <4>1 DEF DbType
      <3>5. CASE InventoryAt \in ids
        <4> DEFINE owners == Migrations!Owners(r) \ {Core}
                   Entry(o) == LET graph == GraphAt \in ids
                                   own == Migrations!OwnedBy(r, o) IN
                               [format |-> IF graph THEN 2 ELSE 1, version |-> r.version,
                                ids |-> Migrations!Ids(own),
                                manifest |-> IF graph THEN Migrations!RevisionManifest(own) ELSE {}]
        <4>1. db = [applied |-> ids, inventory |-> [o \in owners |-> Entry(o)]]
          <5> DEFINE none == <<>>
          <5>1. db = [applied |-> ids, inventory |->
                       [o \in owners \cup DOMAIN none |->
                         IF o \notin Migrations!Owners(r) THEN none[o] ELSE Entry(o)]]
            BY <3>3, <3>5 DEF Migrations!Persisted
          <5>2. owners \cup DOMAIN none = owners  OBVIOUS
          <5> HIDE DEF none, Entry
          <5>3. [o \in owners \cup DOMAIN none |->
                  IF o \notin Migrations!Owners(r) THEN none[o] ELSE Entry(o)] =
                [o \in owners |-> Entry(o)]
            BY <5>2
          <5> QED BY <5>1, <5>3
        <4>2. \A o \in owners : Entry(o).version \in Nat  BY ReleasesAssumption
        <4> HIDE DEF Entry
        <4> QED BY <4>1, <4>2 DEF DbType
      <3> QED BY <3>4, <3>5
    <2> QED BY <2>1, <2>2 DEF Migrations!Init
  <1>2. /\ mlock = "none" /\ runs = 0
        /\ parent = [d \in Deployers |-> [pc |-> "idle", pid |-> FALSE, authorized |-> FALSE,
                                          result |-> "none"]]
        /\ child = [d \in Deployers |-> [pc |-> "none", staged |-> "none", durable |-> FALSE]]
        /\ session = [d \in Deployers |-> "none"]
        /\ up = [d \in Deployers |-> <<>>] /\ down = [d \in Deployers |-> <<>>]
    BY DEF Migrations!Init, Migrations!IdleParent, Migrations!IdleChild, Migrations!None
  <1>3. MigrationTypes
    BY <1>1, <1>2, DeployersAssumption
       DEF MigrationTypes, ChildTypes, ParentTypes, SessionTypes, UpTypes, DownTypes
  <1>4. ASSUME NEW d \in Deployers PROVE DeployerInv(d)
    <2>1. /\ parent[d] = [pc |-> "idle", pid |-> FALSE, authorized |-> FALSE, result |-> "none"]
          /\ child[d] = [pc |-> "none", staged |-> "none", durable |-> FALSE]
          /\ session[d] = "none" /\ up[d] = <<>> /\ down[d] = <<>>
      BY <1>2
    <2>2. Len(up[d]) = 0 /\ Len(down[d]) = 0  BY <2>1
    <2>3. DeployerTypes(d)
      <3>1. /\ parent[d] = [pc |-> parent[d].pc, pid |-> parent[d].pid,
                            authorized |-> parent[d].authorized, result |-> parent[d].result]
            /\ parent[d].pc \in ParentStates /\ parent[d].result \in Results
        BY <2>1 DEF ParentStates, Results
      <3>2. /\ child[d] = [pc |-> child[d].pc, staged |-> child[d].staged, durable |-> child[d].durable]
            /\ child[d].pc \in ChildStates
        BY <2>1 DEF ChildStates
      <3> QED BY <2>1, <3>1, <3>2 DEF DeployerTypes
    <2>4. SessionInv(d) /\ StagedInv(d)
      BY <1>2, <2>1, DeployersAssumption DEF SessionInv, StagedInv, Phases
    <2>5. UpInv(d)  BY <2>1, <2>2 DEF UpInv
    <2>6. DownInv(d)  BY <2>2 DEF DownInv, Replied
    <2>7. ParentInv(d)  BY <2>1, <2>2 DEF ParentInv, Migrations!Alive, Migrations!None
    <2> QED BY <2>3, <2>4, <2>5, <2>6, <2>7 DEF DeployerInv
  <1> QED BY <1>3, <1>4 DEF MigrationInv, DeployerInv

LEMMA MigrationSame == MigrationInv /\ UNCHANGED migrationVars => MigrationInv'
  <1> SUFFICES ASSUME MigrationInv, UNCHANGED migrationVars PROVE MigrationInv'  OBVIOUS
  <1>0. UNCHANGED <<db, mlock, parent, child, session, up, down, runs>>  BY DEF migrationVars
  <1>1. MigrationTypes'
    BY <1>0 DEF MigrationInv, MigrationTypes, DbType, ChildTypes, ParentTypes, SessionTypes,
               UpTypes, DownTypes
  <1>2. ASSUME NEW d \in Deployers PROVE DeployerInv(d)'  BY <1>0, TypesOf, KeptInv DEF Kept
  <1> QED BY <1>1, <1>2 DEF MigrationInv, DeployerInv

LEMMA MigrationStep == MigrationInv /\ Migrations!Next => MigrationInv'
  <1> SUFFICES ASSUME MigrationInv, Migrations!Next PROVE MigrationInv'  OBVIOUS
  <1>1. PICK e \in Deployers :
          \/ Migrations!Start(e) \/ Migrations!ChildStep(e) \/ Migrations!ChildFails(e)
          \/ Migrations!CommitFails(e) \/ Migrations!ChildCrashes(e)
          \/ Migrations!ServerNotices(e) \/ Migrations!ParentCrashes(e)
          \/ Migrations!ParentStep(e) \/ Migrations!PollsEmpty(e) \/ Migrations!Cancel(e)
          \/ Migrations!KillChild(e)
          \/ \E outcome \in Unsettled : Migrations!LeavesUnconfirmed(e, outcome)
    BY DEF Migrations!Next, Unsettled
  <1>2. CASE Migrations!ChildStep(e)
    BY <1>2, ConnectKeeps, AcquireLockKeeps, ApplySchemaKeeps, ReadyToCommitKeeps,
       ChildCommitsKeeps, SendsOutcomeKeeps, ChildAbortsKeeps, ChildExitsKeeps
       DEF Migrations!ChildStep
  <1>3. CASE Migrations!ParentStep(e)
    BY <1>3, ReceiveKeeps, WatchKeeps, StopProcessKeeps, ConfirmStoppedKeeps, CleanupKeeps
       DEF Migrations!ParentStep
  <1>4. CASE \/ Migrations!Start(e) \/ Migrations!ChildFails(e) \/ Migrations!CommitFails(e)
             \/ Migrations!ChildCrashes(e) \/ Migrations!ServerNotices(e)
             \/ Migrations!ParentCrashes(e) \/ Migrations!PollsEmpty(e)
             \/ Migrations!Cancel(e) \/ Migrations!KillChild(e)
    BY <1>4, StartKeeps, ChildFailsKeeps, CommitFailsKeeps, CrashKeeps, ServerNoticesKeeps,
       WatchKeeps, CancelKeeps
  <1>5. CASE \E outcome \in Unsettled : Migrations!LeavesUnconfirmed(e, outcome)
    BY <1>5, LeavesUnconfirmedKeeps
  <1> QED BY <1>1, <1>2, <1>3, <1>4, <1>5

LEMMA MigrationOutcome == MigrationInv => Migrations!OutcomeIsDurable
  <1> SUFFICES ASSUME MigrationInv PROVE Migrations!OutcomeIsDurable  OBVIOUS
  <1>1. Migrations!TypeOK
    <2>1. ASSUME NEW d \in Deployers
          PROVE  /\ parent[d].pc \in ParentStates /\ parent[d].result \in Results
                 /\ child[d].pc \in ChildStates
                 /\ session[d] \in {"none", "open", "orphan", "waiting"}
                 /\ Len(up[d]) <= 3 /\ Len(down[d]) <= 2
      BY TypesOf DEF DeployerInv, DeployerTypes, UpInv, DownInv
    <2> QED
      BY <2>1, TypesOf
         DEF Migrations!TypeOK, Migrations!None, ParentStates, Results, ChildStates
  <1>2. ASSUME NEW d \in Deployers
        PROVE  /\ parent[d].result = "cancelled" => ~ child[d].durable
               /\ parent[d].result = "committed" => child[d].durable
               /\ child[d].durable => parent[d].authorized \/ d \in Commands
               /\ parent[d].pc = "done" => ~ Migrations!Alive(d)
               /\ parent[d].pc = "done" /\ parent[d].pid
                  /\ parent[d].result \in {"cancelled", "committed", "error", "lost"} =>
                    session[d] = "none" /\ mlock # d
    BY TypesOf DEF DeployerInv, ParentInv, SessionInv
  <1> QED BY <1>1, <1>2 DEF Migrations!OutcomeIsDurable, Migrations!None

\* Only a commit changes what is recorded, and it records what was staged.
LEMMA HistoryStep ==
    ASSUME MigrationInv, Migrations!Next \/ UNCHANGED migrationVars
    PROVE  Migrations!HistoryGrows
  <1>1. CASE db' = db
    <2>2. ASSUME NEW o \in DOMAIN db.inventory PROVE Migrations!Row(db', o) = db.inventory[o]
      BY <1>1 DEF Migrations!Row
    <2> QED BY <2>2, TypesOf DEF Migrations!HistoryGrows, DbType
  <1>2. CASE db' # db
    <2>1. PICK e \in Deployers : Migrations!ChildCommits(e) \/ Migrations!CommitFails(e)
      BY <1>2 DEF Migrations!Next, Migrations!ChildStep, Migrations!ParentStep, migrationVars,
         Migrations!Start, Migrations!Connect, Migrations!AcquireLock, Migrations!ApplySchema,
         Migrations!ReadyToCommit, Migrations!SendsOutcome, Migrations!ChildFails,
         Migrations!ChildAborts, Migrations!ChildExits, Migrations!ChildCrashes,
         Migrations!ServerNotices, Migrations!Receive, Migrations!PollsEmpty,
         Migrations!ChecksAlive, Migrations!ReadsEnd, Migrations!Cancel, Migrations!StopProcess,
         Migrations!KillChild, Migrations!ConfirmStopped, Migrations!Cleanup,
         Migrations!LeavesUnconfirmed, Migrations!ParentCrashes
    <2>2. db' = child[e].staged /\ child[e].pc = "ready_to_commit"
      BY <1>2, <2>1 DEF Migrations!ChildCommits, Migrations!CommitFails, Migrations!Answered
    <2>3. StagedInv(e)  BY TypesOf DEF DeployerInv
    <2> QED BY <2>2, <2>3 DEF StagedInv, Migrations!HistoryGrows
  <1> QED BY <1>1, <1>2

-----------------------------------------------------------------------------
(* The two scenes.                                                          *)

SceneInv ==
    /\ scene \in {"protected", "migrations"}
    /\ scene = "protected" => AuthorityInv
    /\ scene = "migrations" => MigrationInv

LEMMA SceneStart == MCInit => SceneInv
  BY InitInv, MigrationStart DEF MCInit, SceneInv

LEMMA SceneStep == SceneInv /\ [MCNext]_allVars => SceneInv'
  <1> SUFFICES ASSUME SceneInv, [MCNext]_allVars PROVE SceneInv'  OBVIOUS
  <1>1. CASE scene = "protected"
    <2>1. scene' = scene /\ [Next]_vars  BY <1>1 DEF MCNext, allVars
    <2>2. AuthorityInv'  BY <1>1, <2>1, StepInv DEF SceneInv
    <2> QED BY <1>1, <2>1, <2>2 DEF SceneInv
  <1>2. CASE scene = "migrations"
    <2>1. scene' = scene /\ (Migrations!Next \/ UNCHANGED migrationVars)
      BY <1>2 DEF MCNext, allVars
    <2>2. MigrationInv'  BY <1>2, <2>1, MigrationStep, MigrationSame DEF SceneInv
    <2> QED BY <1>2, <2>1, <2>2 DEF SceneInv
  <1> QED BY <1>1, <1>2 DEF SceneInv

\* Whatever crashes, is cancelled or is lost, and however the two processes, the pipe, the
\* session and the server interleave: what the caller of a migration is told is what the
\* database did, unless it is told nothing of it: the confirmation of the session's end fails
\* or is itself cancelled (_execute_async, _process_entry, _wait_backend_stopped).
THEOREM OutcomeStaysDurable == MCSpec => []OutcomeIsDurable
  <1>1. SceneInv => OutcomeIsDurable  BY MigrationOutcome DEF SceneInv, OutcomeIsDurable
  <1> QED BY <1>1, SceneStart, SceneStep, PTL DEF MCSpec

\* No migration rewrites recorded history, and no transaction is handed out on an old verdict.
THEOREM CheckedStaysCurrent == MCSpec => CheckedIsCurrent
  <1>1. SceneInv /\ [MCNext]_allVars =>
          [/\ scene = "protected" => Enters
           /\ scene = "migrations" => Migrations!HistoryGrows]_allVars
    <2> SUFFICES ASSUME SceneInv, [MCNext]_allVars
                 PROVE  /\ scene = "protected" => Enters
                        /\ scene = "migrations" => Migrations!HistoryGrows
      OBVIOUS
    <2>1. ASSUME scene = "protected" PROVE Enters
      <3>1. [Next]_vars  BY <2>1 DEF MCNext, allVars
      <3> QED BY <2>1, <3>1, EntersStep DEF SceneInv
    <2>2. ASSUME scene = "migrations" PROVE Migrations!HistoryGrows
      <3>1. Migrations!Next \/ UNCHANGED migrationVars  BY <2>2 DEF MCNext, allVars
      <3> QED BY <2>2, <3>1, HistoryStep DEF SceneInv
    <2> QED BY <2>1, <2>2
  <1> QED BY <1>1, SceneStart, SceneStep, PTL DEF MCSpec, CheckedIsCurrent
=============================================================================
