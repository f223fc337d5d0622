----------------------------- MODULE AuditTrail -----------------------------
(***************************************************************************)
(* One tenant's audit log (audit/module.py).  Commands append evidence in  *)
(* their own transaction, possibly several times; the consumer of          *)
(* committed policy decisions appends one record per event, and may run    *)
(* twice at once when an event is redelivered.  An append takes the        *)
(* tenant's advisory lock until its transaction ends, chains to the latest *)
(* record by time and moves its own time past it when the clock is not.    *)
(* A checksum covers the record and its predecessor's checksum, so it is   *)
(* represented by the record's id.                                         *)
(***************************************************************************)
EXTENDS Integers, FiniteSets, FiniteSetsExt

CONSTANTS
    Sessions,           \* database sessions: commands and deliveries
    Events,             \* committed policy decisions awaiting projection
    MaxTime,            \* bound: clock readings
    MaxAppends,         \* bound: appends of a transaction
    MaxRows,            \* bound: records
    Limit               \* rows of a page of the query

VARIABLES
    log,                \* committed records
    tx,                 \* session -> its transaction and uncommitted records
    reader              \* a caller paging through the query

vars == <<log, tx, reader>>

Manual == "none"
Idle == [pc |-> "idle"]
NoReader == [pc |-> "idle"]

\* The chain's order: time, then id.
Before(a, b) == a.at < b.at \/ (a.at = b.at /\ a.id < b.id)
Last(rows) == CHOOSE r \in rows : \A o \in rows \ {r} : Before(o, r)

Init ==
    /\ log = {}
    /\ tx = [s \in Sessions |-> Idle]
    /\ reader = NoReader

\* A handler-command or manual append, or the delivery of an event, in a new transaction.
Begin(s) ==
    /\ tx[s].pc = "idle" /\ Cardinality(log) < MaxRows
    /\ \E source \in Events \cup {Manual} :
           tx' = [tx EXCEPT ![s] = [pc |-> "open", source |-> source, staged |-> {}, locked |-> FALSE]]
    /\ UNCHANGED <<log, reader>>

Staged == UNION {tx[s].staged : s \in {o \in Sessions : tx[o].pc = "open"}}
Visible(s) == log \cup tx[s].staged

LockFree(s) == \A o \in Sessions \ {s} : tx[o].pc = "open" => ~tx[o].locked

Existing(s) == {r \in Visible(s) : tx[s].source # Manual /\ r.source = tx[s].source}

\* Mutant of OccurredAt: the clock's reading is stored as it is.
ClockOnly(prior, now) == now
OccurredAt(prior, now) == IF prior # {} /\ now <= Last(prior).at THEN Last(prior).at + 1 ELSE now

\* Every append of a transaction reads after the lock; the uniqueness of a source's
\* projection is the index's too.
Append(s) ==
    LET prior == Visible(s) IN
    /\ tx[s].pc = "open" /\ LockFree(s)
    /\ Existing(s) = {} /\ Cardinality(tx[s].staged) < MaxAppends
    /\ Cardinality(log \cup Staged) < MaxRows
    /\ \E now \in 0..MaxTime :
           tx' = [tx EXCEPT ![s].locked = TRUE, ![s].staged = @ \cup
              {[id |-> Min((1..MaxRows) \ {r.id : r \in log \cup Staged}),
                at |-> OccurredAt(prior, now),
                previous |-> IF prior = {} THEN 0 ELSE Last(prior).id,
                source |-> tx[s].source]}]
    /\ UNCHANGED <<log, reader>>

UniqueSource(s) == \A r \in tx[s].staged : r.source # Manual =>
                       ~ \E o \in log : o.source = r.source
Recorded(s) == tx[s].staged # {} \/ Existing(s) # {}

Commit(s) ==
    /\ tx[s].pc = "open" /\ Recorded(s) /\ UniqueSource(s)
    /\ log' = log \cup tx[s].staged
    /\ tx' = [tx EXCEPT ![s] = Idle]
    /\ UNCHANGED reader

\* Refused, failed or crashed: the command's change and its evidence go together.
Rollback(s) ==
    /\ tx[s].pc = "open"
    /\ tx' = [tx EXCEPT ![s] = Idle]
    /\ UNCHANGED <<log, reader>>

\* The query's pages: newest first, by offset.
StartQuery ==
    /\ reader = NoReader
    /\ reader' = [pc |-> "open", offset |-> 0, owed |-> {r.id : r \in log}, seen |-> {}]
    /\ UNCHANGED <<log, tx>>

QueryPage ==
    LET rank(r) == Cardinality({o \in log : Before(r, o)})
        page == {r \in log : rank(r) >= reader.offset /\ rank(r) < reader.offset + Limit} IN
    /\ reader.pc = "open"
    /\ reader' = [reader EXCEPT !.offset = @ + Limit, !.seen = @ \cup {r.id : r \in page},
                                !.pc = IF page = {} THEN "done" ELSE "open"]
    /\ UNCHANGED <<log, tx>>

Next ==
    \/ \E s \in Sessions : Begin(s) \/ Append(s) \/ Commit(s) \/ Rollback(s)
    \/ StartQuery \/ QueryPage

Spec == Init /\ [][Next]_vars

-----------------------------------------------------------------------------
\* What _verify_integrity reports: records whose stored predecessor is not the one before.
Tampered ==
    {r \in log : LET earlier == {o \in log : Before(o, r)} IN
        r.previous # (IF earlier = {} THEN 0 ELSE Last(earlier).id)}

\* Whatever commands and deliveries interleave, roll back or repeat, and however the clock
\* moves, verification finds the chain intact, an event is projected once, and a reader
\* paging through the query sees every record that existed when it began.
TrailSound ==
    /\ \A r \in log : r.id \in 1..MaxRows /\ r.previous \in 0..MaxRows
    /\ Tampered = {}
    /\ \A e \in Events : Cardinality({r \in log : r.source = e}) <= 1
    /\ reader.pc = "done" => reader.owed \subseteq reader.seen
=============================================================================
