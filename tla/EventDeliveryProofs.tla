------------------------- MODULE EventDeliveryProofs -------------------------
(***************************************************************************)
(* Proofs about EventDelivery, for any number of workers, events and       *)
(* subscribers and any bounds.                                             *)
(***************************************************************************)
EXTENDS EventDelivery, FiniteSetTheorems, TLAPS

-----------------------------------------------------------------------------
(* Type correctness.                                                       *)

\* What Append does to a stream: one more message, the others as they were.
LEMMA AppendFacts ==
    ASSUME stream \in Seq(Message), NEW x \in Message
    PROVE  /\ Append(stream, x) \in Seq(Message)
           /\ Len(Append(stream, x)) = Len(stream) + 1
           /\ Len(stream) \in Nat
           /\ \A m \in 1..Len(stream) : Append(stream, x)[m] = stream[m]
           /\ Append(stream, x)[Len(stream) + 1] = x
  OBVIOUS

\* Ending a delivery keeps the types of the callback's variables.
LEMMA EndDeliveryType ==
    ASSUME DeliveryTypeOK, NEW w \in Workers, EndDelivery(w)
    PROVE  DeliveryTypeOK'
  BY SetsAssumption, BoundsAssumption DEF DeliveryTypeOK, EndDelivery

\* Ending a batch keeps the types of the publisher's variables.
LEMMA EndBatchType ==
    ASSUME PublisherTypeOK, NEW w \in Workers, EndBatch(w), faults' \in 0..MaxFaults
    PROVE  PublisherTypeOK'
  BY DEF PublisherTypeOK, EndBatch

\* Ending a delivery keeps the control state of every delivery.
LEMMA EndDeliveryControl ==
    ASSUME DeliveryTypeOK, DeliveryControl, NEW w \in Workers, EndDelivery(w),
           Len(stream) \in Nat, Len(stream') = Len(stream),
           \A v \in Workers : status'[v] # status[v] => v = w \/ status'[v] # "down"
    PROVE  DeliveryControl'
  BY DEF DeliveryTypeOK, DeliveryControl, EndDelivery

\* Steps that leave the callback alone keep its types and control state.
LEMMA DeliverySame ==
    ASSUME DeliveryTypeOK, DeliveryControl, UNCHANGED delivery,
           Len(stream) \in Nat, Len(stream') \in Nat, Len(stream') >= Len(stream),
           \A v \in Workers : status'[v] # status[v] => status'[v] # "down"
    PROVE  DeliveryTypeOK' /\ DeliveryControl'
  BY DEF DeliveryTypeOK, DeliveryControl, delivery

\* What the type invariant gives about the stream.
LEMMA StreamLength == TypeOK => Len(stream) \in Nat /\ stream \in Seq(Message)
  BY DEF TypeOK, BrokerTypeOK

\* A running delivery is about a message of the stream.
LEMMA CurrentMessage ==
    ASSUME TypeOK, NEW w \in Workers, step[w] # "idle"
    PROVE  /\ msg[w] \in 1..Len(stream)
           /\ stream[msg[w]] \in Message
           /\ EventOf(w) \in Events
  <1>1. msg[w] \in 1..Len(stream)  BY StreamLength DEF TypeOK, DeliveryControl
  <1>2. stream[msg[w]] \in Message  BY <1>1, StreamLength
  <1> QED BY <1>1, <1>2 DEF EventOf, Message

\* Accepting a message keeps the broker's types.
LEMMA AcceptType ==
    ASSUME BrokerTypeOK, MaxStream \in Nat, UNCHANGED <<acked, terminated>>,
           NEW e \in Events, NEW k \in {"genuine", "forged"}, Accept(e, k)
    PROVE  BrokerTypeOK' /\ Len(stream') = Len(stream) + 1
  <1> DEFINE x == [event |-> e, kind |-> k]
  <1>1. x \in Message  BY DEF Message
  <1>2. stream' = Append(stream, x)  BY DEF Accept
  <1> HIDE DEF x
  <1> QED BY <1>1, <1>2, AppendFacts DEF BrokerTypeOK, Accept

\* Committing a receipt keeps the database's types.
LEMMA CommitType ==
    ASSUME DatabaseTypeOK, NEW w \in Workers, sub[w] \in Subscribers, EventOf(w) \in Events,
           Commit(w), UNCHANGED <<outbox, obligations, authority>>
    PROVE  DatabaseTypeOK'
  <1> DEFINE p == <<sub[w], EventOf(w)>>
  <1>1. p \in Subscribers \X Events  OBVIOUS
  <1>2. inbox' = inbox \cup {p} /\ applied' = [applied EXCEPT ![p] = @ + 1]  BY DEF Commit
  <1> HIDE DEF p
  <1> QED BY <1>1, <1>2 DEF DatabaseTypeOK

\* The command, operator and foreign-publisher steps keep the types.
LEMMA EnvironmentTypes ==
    ASSUME TypeOK, (\E e \in Events : CommitCommand(e) \/ Forge(e)) \/ Rotate \/ Disable
    PROVE  TypeOK'
  <1>0. Len(stream) \in Nat /\ stream \in Seq(Message)  BY StreamLength
  <1> USE SetsAssumption, BoundsAssumption DEF TypeOK
  <1>1. ASSUME NEW e \in Events, CommitCommand(e) PROVE TypeOK'
    <2>1. DatabaseTypeOK'
      BY <1>1, <1>0 DEF CommitCommand, database, DatabaseTypeOK, BrokerTypeOK, DeliveryTypeOK, DeliveryControl, ProcessTypeOK, Message
    <2>2. BrokerTypeOK' /\ Len(stream') = Len(stream)
      BY <1>1, <1>0 DEF CommitCommand, broker, BrokerTypeOK, DeliveryControl
    <2>3. ProcessTypeOK'  BY <1>1 DEF CommitCommand, process, ProcessTypeOK, DatabaseTypeOK
    <2>4. DeliveryTypeOK' /\ DeliveryControl'
      BY <1>1, <1>0, <2>2, DeliverySame DEF CommitCommand, process, ProcessTypeOK
    <2>5. PublisherTypeOK'  BY <1>1 DEF CommitCommand, publisher, PublisherTypeOK
    <2> QED BY <2>1, <2>2, <2>3, <2>4, <2>5
  <1>2. ASSUME NEW e \in Events, Forge(e) PROVE TypeOK'
    <2>1. DatabaseTypeOK'
      BY <1>2, <1>0 DEF Forge, Accept, Faulty, database, DatabaseTypeOK, BrokerTypeOK, DeliveryTypeOK, DeliveryControl, ProcessTypeOK, Message
    <2>2. BrokerTypeOK'
      BY <1>2, <1>0, AppendFacts DEF Forge, Accept, Faulty, BrokerTypeOK, Message, PublisherTypeOK
    <2>3. ProcessTypeOK'
      BY <1>2 DEF Forge, Accept, Faulty, process, ProcessTypeOK, DatabaseTypeOK
    <2>4. DeliveryTypeOK' /\ DeliveryControl'
      <3>1. Len(stream') \in Nat /\ Len(stream') >= Len(stream)
        BY <1>2, <1>0, <2>2, AppendFacts DEF Forge, Accept, Faulty, Message, PublisherTypeOK
      <3> QED BY <1>2, <1>0, <2>2, <3>1, DeliverySame DEF Forge, process
    <2>5. PublisherTypeOK'  BY <1>2 DEF Forge, Faulty, publisher, PublisherTypeOK
    <2> QED BY <2>1, <2>2, <2>3, <2>4, <2>5
  <1>3. ASSUME Rotate PROVE TypeOK'
    <2>1. DatabaseTypeOK'
      BY <1>3, <1>0 DEF Rotate, database, DatabaseTypeOK, BrokerTypeOK, DeliveryTypeOK, DeliveryControl, ProcessTypeOK, Message
    <2>2. BrokerTypeOK' /\ Len(stream') = Len(stream)
      BY <1>3, <1>0 DEF Rotate, broker, BrokerTypeOK, DeliveryControl
    <2>3. ProcessTypeOK'  BY <1>3 DEF Rotate, process, ProcessTypeOK, DatabaseTypeOK
    <2>4. DeliveryTypeOK' /\ DeliveryControl'
      BY <1>3, <1>0, <2>2, DeliverySame DEF Rotate, process, ProcessTypeOK
    <2>5. PublisherTypeOK'  BY <1>3 DEF Rotate, publisher, PublisherTypeOK
    <2> QED BY <2>1, <2>2, <2>3, <2>4, <2>5
  <1>4. ASSUME Disable PROVE TypeOK'
    <2>1. DatabaseTypeOK'
      BY <1>4, <1>0 DEF Disable, Faulty, database, DatabaseTypeOK, BrokerTypeOK, DeliveryTypeOK, DeliveryControl, ProcessTypeOK, Message
    <2>2. BrokerTypeOK' /\ Len(stream') = Len(stream)
      BY <1>4, <1>0 DEF Disable, Faulty, broker, BrokerTypeOK, DeliveryControl
    <2>3. ProcessTypeOK'  BY <1>4 DEF Disable, Faulty, process, ProcessTypeOK, DatabaseTypeOK
    <2>4. DeliveryTypeOK' /\ DeliveryControl'
      BY <1>4, <1>0, <2>2, DeliverySame DEF Disable, process, ProcessTypeOK
    <2>5. PublisherTypeOK'  BY <1>4 DEF Disable, Faulty, publisher, PublisherTypeOK
    <2> QED BY <2>1, <2>2, <2>3, <2>4, <2>5
  <1> QED BY <1>1, <1>2, <1>3, <1>4

\* The process and module steps keep the types.
LEMMA OperatorTypes ==
    ASSUME TypeOK, NEW w \in Workers, Operator(w)
    PROVE  TypeOK'
  <1>0. Len(stream) \in Nat /\ stream \in Seq(Message)  BY StreamLength
  <1> USE SetsAssumption, BoundsAssumption DEF TypeOK
  <1>1. ASSUME Start(w) PROVE TypeOK'
    <2>1. DatabaseTypeOK'
      BY <1>1, <1>0 DEF Start, Synchronize, database, DatabaseTypeOK, BrokerTypeOK, DeliveryTypeOK, DeliveryControl, ProcessTypeOK, Message
    <2>2. BrokerTypeOK' /\ Len(stream') = Len(stream)
      BY <1>1, <1>0 DEF Start, Synchronize, broker, BrokerTypeOK, DeliveryControl
    <2>3. ProcessTypeOK'
      BY <1>1 DEF Start, Synchronize, process, ProcessTypeOK, DatabaseTypeOK
    <2>4. DeliveryTypeOK' /\ DeliveryControl'
      BY <1>1, <1>0, <2>2, DeliverySame DEF Start, process, ProcessTypeOK
    <2>5. PublisherTypeOK'  BY <1>1 DEF Start, publisher, PublisherTypeOK
    <2> QED BY <2>1, <2>2, <2>3, <2>4, <2>5
  <1>2. ASSUME Deploy(w) PROVE TypeOK'
    <2>1. DatabaseTypeOK'
      BY <1>2, <1>0 DEF Deploy, database, DatabaseTypeOK, BrokerTypeOK, DeliveryTypeOK, DeliveryControl, ProcessTypeOK, Message
    <2>2. BrokerTypeOK' /\ Len(stream') = Len(stream)
      BY <1>2, <1>0 DEF Deploy, broker, BrokerTypeOK, DeliveryControl
    <2>3. ProcessTypeOK'  BY <1>2 DEF Deploy, process, ProcessTypeOK, DatabaseTypeOK
    <2>4. DeliveryTypeOK' /\ DeliveryControl'
      BY <1>2, <1>0, <2>2, DeliverySame DEF Deploy, process, ProcessTypeOK
    <2>5. PublisherTypeOK'  BY <1>2 DEF Deploy, publisher, PublisherTypeOK
    <2> QED BY <2>1, <2>2, <2>3, <2>4, <2>5
  <1>3. ASSUME NEW s \in Subscribers, CloseHandler(w, s) PROVE TypeOK'
    <2>1. DatabaseTypeOK'
      BY <1>3, <1>0 DEF CloseHandler, Faulty, database, DatabaseTypeOK, BrokerTypeOK, DeliveryTypeOK, DeliveryControl, ProcessTypeOK, Message
    <2>2. BrokerTypeOK' /\ Len(stream') = Len(stream)
      BY <1>3, <1>0 DEF CloseHandler, Faulty, broker, BrokerTypeOK, DeliveryControl
    <2>3. ProcessTypeOK'
      BY <1>3 DEF CloseHandler, Faulty, process, ProcessTypeOK, DatabaseTypeOK
    <2>4. DeliveryTypeOK' /\ DeliveryControl'
      BY <1>3, <1>0, <2>2, DeliverySame DEF CloseHandler, process, ProcessTypeOK
    <2>5. PublisherTypeOK'  BY <1>3 DEF CloseHandler, Faulty, publisher, PublisherTypeOK
    <2> QED BY <2>1, <2>2, <2>3, <2>4, <2>5
  <1>4. ASSUME NEW s \in Subscribers, RemoveHandler(w, s) PROVE TypeOK'
    <2>1. DatabaseTypeOK'
      BY <1>4, <1>0 DEF RemoveHandler, database, DatabaseTypeOK, BrokerTypeOK, DeliveryTypeOK, DeliveryControl, ProcessTypeOK, Message
    <2>2. BrokerTypeOK' /\ Len(stream') = Len(stream)
      BY <1>4, <1>0 DEF RemoveHandler, broker, BrokerTypeOK, DeliveryControl
    <2>3. ProcessTypeOK'  BY <1>4 DEF RemoveHandler, process, ProcessTypeOK, DatabaseTypeOK
    <2>4. DeliveryTypeOK' /\ DeliveryControl'
      BY <1>4, <1>0, <2>2, DeliverySame DEF RemoveHandler, process, ProcessTypeOK
    <2>5. PublisherTypeOK'  BY <1>4 DEF RemoveHandler, publisher, PublisherTypeOK
    <2> QED BY <2>1, <2>2, <2>3, <2>4, <2>5
  <1>5. ASSUME NEW s \in Subscribers, EnableHandler(w, s) PROVE TypeOK'
    <2>1. DatabaseTypeOK'
      BY <1>5, <1>0 DEF EnableHandler, database, DatabaseTypeOK, BrokerTypeOK, DeliveryTypeOK, DeliveryControl, ProcessTypeOK, Message
    <2>2. BrokerTypeOK' /\ Len(stream') = Len(stream)
      BY <1>5, <1>0 DEF EnableHandler, broker, BrokerTypeOK, DeliveryControl
    <2>3. ProcessTypeOK'  BY <1>5 DEF EnableHandler, process, ProcessTypeOK, DatabaseTypeOK
    <2>4. DeliveryTypeOK' /\ DeliveryControl'
      BY <1>5, <1>0, <2>2, DeliverySame DEF EnableHandler, process, ProcessTypeOK
    <2>5. PublisherTypeOK'  BY <1>5 DEF EnableHandler, publisher, PublisherTypeOK
    <2> QED BY <2>1, <2>2, <2>3, <2>4, <2>5
  <1> QED BY <1>1, <1>2, <1>3, <1>4, <1>5 DEF Operator

\* The publisher steps keep the types.
LEMMA PublisherTypes ==
    ASSUME TypeOK, NEW w \in Workers,
           PublisherStep(w) \/ PublishFails(w) \/ AbortCycle(w)
    PROVE  TypeOK'
  <1>0. Len(stream) \in Nat /\ stream \in Seq(Message)  BY StreamLength
  <1> USE SetsAssumption, BoundsAssumption DEF TypeOK
  <1>1. ASSUME PublisherSync(w) PROVE TypeOK'
    <2>1. DatabaseTypeOK'
      BY <1>1, <1>0 DEF PublisherSync, Synchronize, database, DatabaseTypeOK, BrokerTypeOK, DeliveryTypeOK, DeliveryControl, ProcessTypeOK, Message
    <2>2. BrokerTypeOK' /\ Len(stream') = Len(stream)
      BY <1>1, <1>0 DEF PublisherSync, Synchronize, broker, BrokerTypeOK, DeliveryControl
    <2>3. ProcessTypeOK'
      BY <1>1 DEF PublisherSync, Synchronize, process, ProcessTypeOK, DatabaseTypeOK
    <2>4. DeliveryTypeOK' /\ DeliveryControl'
      BY <1>1, <1>0, <2>2, DeliverySame DEF PublisherSync, process, ProcessTypeOK
    <2>5. PublisherTypeOK'
      BY <1>1 DEF PublisherSync, Synchronize, PublisherTypeOK, DatabaseTypeOK
    <2> QED BY <2>1, <2>2, <2>3, <2>4, <2>5
  <1>2. ASSUME BeginBatch(w) PROVE TypeOK'
    <2>1. DatabaseTypeOK'
      BY <1>2, <1>0 DEF BeginBatch, Batch, database, DatabaseTypeOK, BrokerTypeOK, DeliveryTypeOK, DeliveryControl, ProcessTypeOK, Message
    <2>2. BrokerTypeOK' /\ Len(stream') = Len(stream)
      BY <1>2, <1>0 DEF BeginBatch, Batch, broker, BrokerTypeOK, DeliveryControl
    <2>3. ProcessTypeOK'
      BY <1>2 DEF BeginBatch, Batch, process, ProcessTypeOK, DatabaseTypeOK
    <2>4. DeliveryTypeOK' /\ DeliveryControl'
      BY <1>2, <1>0, <2>2, DeliverySame DEF BeginBatch, process, ProcessTypeOK
    <2>5. PublisherTypeOK'  BY <1>2 DEF BeginBatch, Batch, PublisherTypeOK, DatabaseTypeOK
    <2> QED BY <2>1, <2>2, <2>3, <2>4, <2>5
  <1>3. ASSUME Publish(w) PROVE TypeOK'
    <2>1. DatabaseTypeOK'
      BY <1>3, <1>0 DEF Publish, Accept, database, DatabaseTypeOK, BrokerTypeOK, DeliveryTypeOK, DeliveryControl, ProcessTypeOK, Message
    <2>2. BrokerTypeOK'
      <3>1. PICK e \in unsent[w] : Accept(e, "genuine") \/ UNCHANGED stream
        BY <1>3 DEF Publish
      <3>2. e \in Events  BY DEF PublisherTypeOK
      <3>3. CASE Accept(e, "genuine")  BY <1>3, <3>2, <3>3, AcceptType DEF Publish
      <3>4. CASE UNCHANGED stream  BY <1>3, <3>4 DEF Publish, BrokerTypeOK
      <3> QED BY <3>1, <3>3, <3>4
    <2>3. ProcessTypeOK'  BY <1>3 DEF Publish, Accept, process, ProcessTypeOK, DatabaseTypeOK
    <2>4. DeliveryTypeOK' /\ DeliveryControl'
      <3>1. Len(stream') \in Nat /\ Len(stream') >= Len(stream)
        BY <1>3, <1>0, <2>2, AppendFacts DEF Publish, Accept, Message, PublisherTypeOK
      <3> QED BY <1>3, <1>0, <2>2, <3>1, DeliverySame DEF Publish, process
    <2>5. PublisherTypeOK'  BY <1>3 DEF Publish, Accept, PublisherTypeOK, DatabaseTypeOK
    <2> QED BY <2>1, <2>2, <2>3, <2>4, <2>5
  <1>4. ASSUME PublishFails(w) PROVE TypeOK'
    <2>1. DatabaseTypeOK'
      BY <1>4, <1>0 DEF PublishFails, Accept, Faulty, database, DatabaseTypeOK, BrokerTypeOK, DeliveryTypeOK, DeliveryControl, ProcessTypeOK, Message
    <2>2. BrokerTypeOK'
      <3>1. PICK e \in unsent[w] : Accept(e, "genuine") \/ UNCHANGED stream
        BY <1>4 DEF PublishFails
      <3>2. e \in Events  BY DEF PublisherTypeOK
      <3>3. CASE Accept(e, "genuine")  BY <1>4, <3>2, <3>3, AcceptType DEF PublishFails
      <3>4. CASE UNCHANGED stream  BY <1>4, <3>4 DEF PublishFails, BrokerTypeOK
      <3> QED BY <3>1, <3>3, <3>4
    <2>3. ProcessTypeOK'
      BY <1>4 DEF PublishFails, Accept, Faulty, process, ProcessTypeOK, DatabaseTypeOK
    <2>4. DeliveryTypeOK' /\ DeliveryControl'
      <3>1. Len(stream') \in Nat /\ Len(stream') >= Len(stream)
        BY <1>4, <1>0, <2>2, AppendFacts DEF PublishFails, Accept, Faulty, Message, PublisherTypeOK
      <3> QED BY <1>4, <1>0, <2>2, <3>1, DeliverySame DEF PublishFails, process
    <2>5. PublisherTypeOK'
      BY <1>4 DEF PublishFails, Accept, Faulty, PublisherTypeOK, DatabaseTypeOK
    <2> QED BY <2>1, <2>2, <2>3, <2>4, <2>5
  <1>5. ASSUME CommitBatch(w) PROVE TypeOK'
    <2>1. DatabaseTypeOK'
      BY <1>5, <1>0 DEF CommitBatch, database, DatabaseTypeOK, BrokerTypeOK, DeliveryTypeOK, DeliveryControl, ProcessTypeOK, Message
    <2>2. BrokerTypeOK' /\ Len(stream') = Len(stream)
      BY <1>5, <1>0 DEF CommitBatch, broker, BrokerTypeOK, DeliveryControl
    <2>3. ProcessTypeOK'  BY <1>5 DEF CommitBatch, process, ProcessTypeOK, DatabaseTypeOK
    <2>4. DeliveryTypeOK' /\ DeliveryControl'
      BY <1>5, <1>0, <2>2, DeliverySame DEF CommitBatch, process, ProcessTypeOK
    <2>5. PublisherTypeOK'  BY <1>5, EndBatchType DEF CommitBatch, Faulty, PublisherTypeOK
    <2> QED BY <2>1, <2>2, <2>3, <2>4, <2>5
  <1>6. ASSUME AbortCycle(w) PROVE TypeOK'
    <2>1. DatabaseTypeOK'
      BY <1>6, <1>0 DEF AbortCycle, Faulty, database, DatabaseTypeOK, BrokerTypeOK, DeliveryTypeOK, DeliveryControl, ProcessTypeOK, Message
    <2>2. BrokerTypeOK' /\ Len(stream') = Len(stream)
      BY <1>6, <1>0 DEF AbortCycle, Faulty, broker, BrokerTypeOK, DeliveryControl
    <2>3. ProcessTypeOK'
      BY <1>6 DEF AbortCycle, Faulty, process, ProcessTypeOK, DatabaseTypeOK
    <2>4. DeliveryTypeOK' /\ DeliveryControl'
      BY <1>6, <1>0, <2>2, DeliverySame DEF AbortCycle, process, ProcessTypeOK
    <2>5. PublisherTypeOK'  BY <1>6, EndBatchType DEF AbortCycle, Faulty, PublisherTypeOK
    <2> QED BY <2>1, <2>2, <2>3, <2>4, <2>5
  <1>7. ASSUME PublisherDenied(w) PROVE TypeOK'
    <2>1. DatabaseTypeOK'
      BY <1>7, <1>0 DEF PublisherDenied, Quarantine, database, DatabaseTypeOK, BrokerTypeOK, DeliveryTypeOK, DeliveryControl, ProcessTypeOK, Message
    <2>2. BrokerTypeOK' /\ Len(stream') = Len(stream)
      BY <1>7, <1>0 DEF PublisherDenied, Quarantine, broker, BrokerTypeOK, DeliveryControl
    <2>3. ProcessTypeOK'
      BY <1>7 DEF PublisherDenied, Quarantine, process, ProcessTypeOK, DatabaseTypeOK
    <2>4. DeliveryTypeOK' /\ DeliveryControl'
      BY <1>7, <1>0, <2>2, DeliverySame DEF PublisherDenied, process, ProcessTypeOK, Quarantine
    <2>5. PublisherTypeOK'  BY <1>7, EndBatchType DEF PublisherDenied, Faulty, PublisherTypeOK
    <2> QED BY <2>1, <2>2, <2>3, <2>4, <2>5
  <1> QED BY <1>1, <1>2, <1>3, <1>4, <1>5, <1>6, <1>7 DEF PublisherStep

\* The delivery steps keep the types.
LEMMA DeliveryTypes ==
    ASSUME TypeOK, NEW w \in Workers,
           \/ DeliveryStep(w) \/ \E m \in Positions : Receive(w, m)
           \/ SyncCommitFails(w) \/ CommitUnconfirmed(w) \/ DeliveryFails(w) \/ Crash(w)
    PROVE  TypeOK'
  <1>0. Len(stream) \in Nat /\ stream \in Seq(Message)  BY StreamLength
  <1> USE SetsAssumption, BoundsAssumption DEF TypeOK
  <1>1. ASSUME NEW m \in Positions, Receive(w, m) PROVE TypeOK'
    <2>1. DatabaseTypeOK'
      BY <1>1, <1>0 DEF Receive, Pending, Verified, Positions, database, DatabaseTypeOK, BrokerTypeOK, DeliveryTypeOK, DeliveryControl, ProcessTypeOK, Message
    <2>2. BrokerTypeOK' /\ Len(stream') = Len(stream)
      BY <1>1, <1>0 DEF Receive, Pending, Verified, Positions, broker, BrokerTypeOK, DeliveryControl
    <2>3. ProcessTypeOK'
      BY <1>1 DEF Receive, Pending, Verified, Positions, process, ProcessTypeOK, DatabaseTypeOK
    <2>4. DeliveryTypeOK' /\ DeliveryControl'
      BY <1>1, <1>0, <2>2 DEF Receive, Pending, Verified, Positions, process, DeliveryTypeOK, DeliveryControl, ProcessTypeOK, BrokerTypeOK, DatabaseTypeOK
    <2>5. PublisherTypeOK'  BY <1>1 DEF Receive, publisher, PublisherTypeOK
    <2> QED BY <2>1, <2>2, <2>3, <2>4, <2>5
  <1>2. ASSUME VerifySource(w) PROVE TypeOK'
    <2>1. DatabaseTypeOK'
      BY <1>2, <1>0 DEF VerifySource, database, DatabaseTypeOK, BrokerTypeOK, DeliveryTypeOK, DeliveryControl, ProcessTypeOK, Message
    <2>2. BrokerTypeOK' /\ Len(stream') = Len(stream)
      BY <1>2, <1>0 DEF VerifySource, broker, BrokerTypeOK, DeliveryControl
    <2>3. ProcessTypeOK'  BY <1>2 DEF VerifySource, process, ProcessTypeOK, DatabaseTypeOK
    <2>4. DeliveryTypeOK' /\ DeliveryControl'
      BY <1>2, <1>0, <2>2 DEF VerifySource, process, DeliveryTypeOK, DeliveryControl, ProcessTypeOK, BrokerTypeOK, DatabaseTypeOK
    <2>5. PublisherTypeOK'  BY <1>2 DEF VerifySource, publisher, PublisherTypeOK
    <2> QED BY <2>1, <2>2, <2>3, <2>4, <2>5
  <1>3. ASSUME RejectSource(w) PROVE TypeOK'
    <2>1. DatabaseTypeOK'
      BY <1>3, <1>0 DEF RejectSource, database, DatabaseTypeOK, BrokerTypeOK, DeliveryTypeOK, DeliveryControl, ProcessTypeOK, Message
    <2>2. BrokerTypeOK' /\ Len(stream') = Len(stream)
      BY <1>3, <1>0, CurrentMessage DEF RejectSource, BrokerTypeOK
    <2>3. ProcessTypeOK'  BY <1>3 DEF RejectSource, process, ProcessTypeOK, DatabaseTypeOK
    <2>4. DeliveryTypeOK' /\ DeliveryControl'
      BY <1>3, <1>0, <2>2, EndDeliveryType, EndDeliveryControl DEF RejectSource, process, ProcessTypeOK
    <2>5. PublisherTypeOK'  BY <1>3 DEF RejectSource, publisher, PublisherTypeOK
    <2> QED BY <2>1, <2>2, <2>3, <2>4, <2>5
  <1>4. ASSUME UnknownType(w) PROVE TypeOK'
    <2>1. DatabaseTypeOK'
      BY <1>4, <1>0 DEF UnknownType, database, DatabaseTypeOK, BrokerTypeOK, DeliveryTypeOK, DeliveryControl, ProcessTypeOK, Message
    <2>2. BrokerTypeOK' /\ Len(stream') = Len(stream)
      BY <1>4, <1>0 DEF UnknownType, broker, BrokerTypeOK, DeliveryControl
    <2>3. ProcessTypeOK'  BY <1>4 DEF UnknownType, process, ProcessTypeOK, DatabaseTypeOK
    <2>4. DeliveryTypeOK' /\ DeliveryControl'
      BY <1>4, <1>0, <2>2, EndDeliveryType, EndDeliveryControl DEF UnknownType, process, ProcessTypeOK
    <2>5. PublisherTypeOK'  BY <1>4 DEF UnknownType, publisher, PublisherTypeOK
    <2> QED BY <2>1, <2>2, <2>3, <2>4, <2>5
  <1>5. ASSUME SyncDelivery(w) PROVE TypeOK'
    <2>1. DatabaseTypeOK'
      BY <1>5, <1>0 DEF SyncDelivery, Synchronize, database, DatabaseTypeOK, BrokerTypeOK, DeliveryTypeOK, DeliveryControl, ProcessTypeOK, Message
    <2>2. BrokerTypeOK' /\ Len(stream') = Len(stream)
      BY <1>5, <1>0 DEF SyncDelivery, Synchronize, broker, BrokerTypeOK, DeliveryControl
    <2>3. ProcessTypeOK'
      BY <1>5 DEF SyncDelivery, Synchronize, process, ProcessTypeOK, DatabaseTypeOK
    <2>4. DeliveryTypeOK' /\ DeliveryControl'
      BY <1>5, <1>0, <2>2 DEF SyncDelivery, Synchronize, process, DeliveryTypeOK, DeliveryControl, ProcessTypeOK, BrokerTypeOK, DatabaseTypeOK
    <2>5. PublisherTypeOK'  BY <1>5 DEF SyncDelivery, publisher, PublisherTypeOK
    <2> QED BY <2>1, <2>2, <2>3, <2>4, <2>5
  <1>6. ASSUME SyncCommitFails(w) PROVE TypeOK'
    <2>1. DatabaseTypeOK'  BY <1>6 DEF SyncCommitFails, SynchronizeUncommitted, DatabaseTypeOK
    <2>2. BrokerTypeOK' /\ Len(stream') = Len(stream)
      BY <1>6, <1>0 DEF SyncCommitFails, SynchronizeUncommitted, broker, BrokerTypeOK, DeliveryControl
    <2>3. ProcessTypeOK'
      BY <1>6 DEF SyncCommitFails, SynchronizeUncommitted, process, ProcessTypeOK, DatabaseTypeOK
    <2>4. DeliveryTypeOK' /\ DeliveryControl'
      BY <1>6, <1>0, <2>2, EndDeliveryType, EndDeliveryControl DEF SyncCommitFails, process, ProcessTypeOK
    <2>5. PublisherTypeOK'  BY <1>6 DEF SyncCommitFails, Faulty, publisher, PublisherTypeOK
    <2> QED BY <2>1, <2>2, <2>3, <2>4, <2>5
  <1>7. ASSUME AdmitDelivery(w) PROVE TypeOK'
    <2>1. DatabaseTypeOK'
      BY <1>7, <1>0 DEF AdmitDelivery, database, DatabaseTypeOK, BrokerTypeOK, DeliveryTypeOK, DeliveryControl, ProcessTypeOK, Message
    <2>2. BrokerTypeOK' /\ Len(stream') = Len(stream)
      BY <1>7, <1>0 DEF AdmitDelivery, broker, BrokerTypeOK, DeliveryControl
    <2>3. ProcessTypeOK'  BY <1>7 DEF AdmitDelivery, process, ProcessTypeOK, DatabaseTypeOK
    <2>4. DeliveryTypeOK' /\ DeliveryControl'
      BY <1>7, <1>0, <2>2 DEF AdmitDelivery, process, DeliveryTypeOK, DeliveryControl, ProcessTypeOK, BrokerTypeOK, DatabaseTypeOK
    <2>5. PublisherTypeOK'  BY <1>7 DEF AdmitDelivery, publisher, PublisherTypeOK
    <2> QED BY <2>1, <2>2, <2>3, <2>4, <2>5
  <1>8. ASSUME Unavailable(w) PROVE TypeOK'
    <2>1. DatabaseTypeOK'
      BY <1>8, <1>0 DEF Unavailable, database, DatabaseTypeOK, BrokerTypeOK, DeliveryTypeOK, DeliveryControl, ProcessTypeOK, Message
    <2>2. BrokerTypeOK' /\ Len(stream') = Len(stream)
      BY <1>8, <1>0 DEF Unavailable, broker, BrokerTypeOK, DeliveryControl
    <2>3. ProcessTypeOK'  BY <1>8 DEF Unavailable, process, ProcessTypeOK, DatabaseTypeOK
    <2>4. DeliveryTypeOK' /\ DeliveryControl'
      BY <1>8, <1>0, <2>2, EndDeliveryType, EndDeliveryControl DEF Unavailable, process, ProcessTypeOK
    <2>5. PublisherTypeOK'  BY <1>8 DEF Unavailable, publisher, PublisherTypeOK
    <2> QED BY <2>1, <2>2, <2>3, <2>4, <2>5
  <1>9. ASSUME BindSubscriber(w) PROVE TypeOK'
    <2>1. DatabaseTypeOK'
      BY <1>9, <1>0 DEF BindSubscriber, Admitted, Lowest, Verified, database, DatabaseTypeOK, BrokerTypeOK, DeliveryTypeOK, DeliveryControl, ProcessTypeOK, Message
    <2>2. BrokerTypeOK' /\ Len(stream') = Len(stream)
      BY <1>9, <1>0 DEF BindSubscriber, Admitted, Lowest, Verified, broker, BrokerTypeOK, DeliveryControl
    <2>3. ProcessTypeOK'
      BY <1>9 DEF BindSubscriber, Admitted, Lowest, Verified, process, ProcessTypeOK, DatabaseTypeOK
    <2>4. DeliveryTypeOK' /\ DeliveryControl'
      BY <1>9, <1>0, <2>2 DEF BindSubscriber, Admitted, Lowest, Verified, process, DeliveryTypeOK, DeliveryControl, ProcessTypeOK, BrokerTypeOK, DatabaseTypeOK
    <2>5. PublisherTypeOK'  BY <1>9 DEF BindSubscriber, publisher, PublisherTypeOK
    <2> QED BY <2>1, <2>2, <2>3, <2>4, <2>5
  <1>10. ASSUME DeliveryDenied(w) PROVE TypeOK'
    <2>1. DatabaseTypeOK'
      BY <1>10, <1>0 DEF DeliveryDenied, Quarantine, database, DatabaseTypeOK, BrokerTypeOK, DeliveryTypeOK, DeliveryControl, ProcessTypeOK, Message
    <2>2. BrokerTypeOK' /\ Len(stream') = Len(stream)
      BY <1>10, <1>0 DEF DeliveryDenied, Quarantine, broker, BrokerTypeOK, DeliveryControl
    <2>3. ProcessTypeOK'
      BY <1>10 DEF DeliveryDenied, Quarantine, process, ProcessTypeOK, DatabaseTypeOK
    <2>4. DeliveryTypeOK' /\ DeliveryControl'
      BY <1>10, <1>0, <2>2, EndDeliveryType, EndDeliveryControl DEF DeliveryDenied, process, ProcessTypeOK, Quarantine
    <2>5. PublisherTypeOK'  BY <1>10 DEF DeliveryDenied, publisher, PublisherTypeOK
    <2> QED BY <2>1, <2>2, <2>3, <2>4, <2>5
  <1>11. ASSUME Claim(w) PROVE TypeOK'
    <2>1. DatabaseTypeOK'
      BY <1>11, <1>0 DEF Claim, database, DatabaseTypeOK, BrokerTypeOK, DeliveryTypeOK, DeliveryControl, ProcessTypeOK, Message
    <2>2. BrokerTypeOK' /\ Len(stream') = Len(stream)
      BY <1>11, <1>0 DEF Claim, broker, BrokerTypeOK, DeliveryControl
    <2>3. ProcessTypeOK'  BY <1>11 DEF Claim, process, ProcessTypeOK, DatabaseTypeOK
    <2>4. DeliveryTypeOK' /\ DeliveryControl'
      BY <1>11, <1>0, <2>2 DEF Claim, process, DeliveryTypeOK, DeliveryControl, ProcessTypeOK, BrokerTypeOK, DatabaseTypeOK
    <2>5. PublisherTypeOK'  BY <1>11 DEF Claim, publisher, PublisherTypeOK
    <2> QED BY <2>1, <2>2, <2>3, <2>4, <2>5
  <1>12. ASSUME AlreadyClaimed(w) PROVE TypeOK'
    <2>1. DatabaseTypeOK'
      BY <1>12, <1>0 DEF AlreadyClaimed, Served, database, DatabaseTypeOK, BrokerTypeOK, DeliveryTypeOK, DeliveryControl, ProcessTypeOK, Message
    <2>2. BrokerTypeOK' /\ Len(stream') = Len(stream)
      BY <1>12, <1>0 DEF AlreadyClaimed, Served, broker, BrokerTypeOK, DeliveryControl
    <2>3. ProcessTypeOK'
      BY <1>12 DEF AlreadyClaimed, Served, process, ProcessTypeOK, DatabaseTypeOK
    <2>4. DeliveryTypeOK' /\ DeliveryControl'
      BY <1>12, <1>0, <2>2 DEF AlreadyClaimed, Served, process, DeliveryTypeOK, DeliveryControl, ProcessTypeOK, BrokerTypeOK, DatabaseTypeOK
    <2>5. PublisherTypeOK'  BY <1>12 DEF AlreadyClaimed, publisher, PublisherTypeOK
    <2> QED BY <2>1, <2>2, <2>3, <2>4, <2>5
  <1>13. ASSUME Handle(w) PROVE TypeOK'
    <2>1. DatabaseTypeOK'
      BY <1>13, <1>0 DEF Handle, database, DatabaseTypeOK, BrokerTypeOK, DeliveryTypeOK, DeliveryControl, ProcessTypeOK, Message
    <2>2. BrokerTypeOK' /\ Len(stream') = Len(stream)
      BY <1>13, <1>0 DEF Handle, broker, BrokerTypeOK, DeliveryControl
    <2>3. ProcessTypeOK'  BY <1>13 DEF Handle, process, ProcessTypeOK, DatabaseTypeOK
    <2>4. DeliveryTypeOK' /\ DeliveryControl'
      BY <1>13, <1>0, <2>2 DEF Handle, process, DeliveryTypeOK, DeliveryControl, ProcessTypeOK, BrokerTypeOK, DatabaseTypeOK
    <2>5. PublisherTypeOK'  BY <1>13 DEF Handle, publisher, PublisherTypeOK
    <2> QED BY <2>1, <2>2, <2>3, <2>4, <2>5
  <1>14. ASSUME CommitSubscriber(w) PROVE TypeOK'
    <2>1. DatabaseTypeOK'
      BY <1>14, CurrentMessage, CommitType DEF CommitSubscriber, DeliveryControl, DeliveryTypeOK
    <2>2. BrokerTypeOK' /\ Len(stream') = Len(stream)
      BY <1>14, <1>0 DEF CommitSubscriber, Served, Commit, EventOf, broker, BrokerTypeOK, DeliveryControl
    <2>3. ProcessTypeOK'
      BY <1>14 DEF CommitSubscriber, Served, Commit, EventOf, process, ProcessTypeOK, DatabaseTypeOK
    <2>4. DeliveryTypeOK' /\ DeliveryControl'
      BY <1>14, <1>0, <2>2 DEF CommitSubscriber, Served, Commit, EventOf, process, DeliveryTypeOK, DeliveryControl, ProcessTypeOK, BrokerTypeOK, DatabaseTypeOK
    <2>5. PublisherTypeOK'  BY <1>14 DEF CommitSubscriber, publisher, PublisherTypeOK
    <2> QED BY <2>1, <2>2, <2>3, <2>4, <2>5
  <1>15. ASSUME CommitUnconfirmed(w) PROVE TypeOK'
    <2>1. DatabaseTypeOK'
      BY <1>15, CurrentMessage, CommitType DEF CommitUnconfirmed, DeliveryControl, DeliveryTypeOK
    <2>2. BrokerTypeOK' /\ Len(stream') = Len(stream)
      BY <1>15, <1>0 DEF CommitUnconfirmed, Commit, EventOf, Faulty, broker, BrokerTypeOK, DeliveryControl
    <2>3. ProcessTypeOK'
      BY <1>15 DEF CommitUnconfirmed, Commit, EventOf, Faulty, process, ProcessTypeOK, DatabaseTypeOK
    <2>4. DeliveryTypeOK' /\ DeliveryControl'
      BY <1>15, <1>0, <2>2, EndDeliveryType, EndDeliveryControl DEF CommitUnconfirmed, process, ProcessTypeOK
    <2>5. PublisherTypeOK'  BY <1>15 DEF CommitUnconfirmed, Faulty, publisher, PublisherTypeOK
    <2> QED BY <2>1, <2>2, <2>3, <2>4, <2>5
  <1>16. ASSUME Ack(w) PROVE TypeOK'
    <2>1. DatabaseTypeOK'
      BY <1>16, <1>0 DEF Ack, database, DatabaseTypeOK, BrokerTypeOK, DeliveryTypeOK, DeliveryControl, ProcessTypeOK, Message
    <2>2. BrokerTypeOK' /\ Len(stream') = Len(stream)
      BY <1>16, <1>0, CurrentMessage DEF Ack, BrokerTypeOK
    <2>3. ProcessTypeOK'  BY <1>16 DEF Ack, process, ProcessTypeOK, DatabaseTypeOK
    <2>4. DeliveryTypeOK' /\ DeliveryControl'
      BY <1>16, <1>0, <2>2, EndDeliveryType, EndDeliveryControl DEF Ack, process, ProcessTypeOK
    <2>5. PublisherTypeOK'  BY <1>16 DEF Ack, publisher, PublisherTypeOK
    <2> QED BY <2>1, <2>2, <2>3, <2>4, <2>5
  <1>17. ASSUME DeliveryFails(w) PROVE TypeOK'
    <2>1. DatabaseTypeOK'
      BY <1>17, <1>0 DEF DeliveryFails, Faulty, database, DatabaseTypeOK, BrokerTypeOK, DeliveryTypeOK, DeliveryControl, ProcessTypeOK, Message
    <2>2. BrokerTypeOK' /\ Len(stream') = Len(stream)
      BY <1>17, <1>0 DEF DeliveryFails, Faulty, broker, BrokerTypeOK, DeliveryControl
    <2>3. ProcessTypeOK'
      BY <1>17 DEF DeliveryFails, Faulty, process, ProcessTypeOK, DatabaseTypeOK
    <2>4. DeliveryTypeOK' /\ DeliveryControl'
      BY <1>17, <1>0, <2>2, EndDeliveryType, EndDeliveryControl DEF DeliveryFails, process, ProcessTypeOK
    <2>5. PublisherTypeOK'  BY <1>17 DEF DeliveryFails, Faulty, publisher, PublisherTypeOK
    <2> QED BY <2>1, <2>2, <2>3, <2>4, <2>5
  <1>18. ASSUME Crash(w) PROVE TypeOK'
    <2>1. DatabaseTypeOK'
      BY <1>18, <1>0 DEF Crash, Faulty, database, DatabaseTypeOK, BrokerTypeOK, DeliveryTypeOK, DeliveryControl, ProcessTypeOK, Message
    <2>2. BrokerTypeOK' /\ Len(stream') = Len(stream)
      BY <1>18, <1>0 DEF Crash, Faulty, broker, BrokerTypeOK, DeliveryControl
    <2>3. ProcessTypeOK'  BY <1>18 DEF Crash, Faulty, process, ProcessTypeOK, DatabaseTypeOK
    <2>4. DeliveryTypeOK' /\ DeliveryControl'
      BY <1>18, <1>0, <2>2, EndDeliveryType, EndDeliveryControl DEF Crash, process, ProcessTypeOK
    <2>5. PublisherTypeOK'  BY <1>18, EndBatchType DEF Crash, Faulty, PublisherTypeOK
    <2> QED BY <2>1, <2>2, <2>3, <2>4, <2>5
  <1> QED
    BY <1>1, <1>2, <1>3, <1>4, <1>5, <1>6, <1>7, <1>8, <1>9, <1>10, <1>11, <1>12, <1>13, <1>14, <1>15, <1>16, <1>17, <1>18 DEF DeliveryStep

\* One step keeps the type invariant.
LEMMA TypeStep == TypeOK /\ [Next]_vars => TypeOK'
  <1> SUFFICES ASSUME TypeOK, [Next]_vars PROVE TypeOK'  OBVIOUS
  <1>1. CASE UNCHANGED vars
    BY <1>1 DEF vars, database, broker, process, delivery, publisher, TypeOK, DatabaseTypeOK,
                BrokerTypeOK, ProcessTypeOK, DeliveryTypeOK, PublisherTypeOK, DeliveryControl
  <1>2. CASE (\E e \in Events : CommitCommand(e) \/ Forge(e)) \/ Rotate \/ Disable
    BY <1>2, EnvironmentTypes
  <1>3. CASE \E w \in Workers : Operator(w)  BY <1>3, OperatorTypes
  <1>4. CASE \E w \in Workers : PublisherStep(w) \/ PublishFails(w) \/ AbortCycle(w)
    BY <1>4, PublisherTypes
  <1>5. CASE \E w \in Workers :
               \/ DeliveryStep(w) \/ \E m \in Positions : Receive(w, m)
               \/ SyncCommitFails(w) \/ CommitUnconfirmed(w) \/ DeliveryFails(w) \/ Crash(w)
    BY <1>5, DeliveryTypes
  <1> QED BY <1>1, <1>2, <1>3, <1>4, <1>5 DEF Next, Failure

\* The initial state has the types.
LEMMA TypeInit == Init => TypeOK
  BY SetsAssumption, BoundsAssumption
  DEF Init, TypeOK, DatabaseTypeOK, BrokerTypeOK, ProcessTypeOK, DeliveryTypeOK,
      PublisherTypeOK, DeliveryControl, Message

\* For any number of workers, events and subscribers, the state of delivery
\* stays well typed, and every delivery callback is inside at most one
\* subscriber's unit of work (EventWorker._consume_delivery, consume).
THEOREM TypeCorrect == Spec => []TypeOK
  BY TypeInit, TypeStep, PTL DEF Spec

-----------------------------------------------------------------------------
(* Exactly-once effects.  EffectsMatchReceipts is not inductive: that a    *)
(* commit finds no receipt needs the claim it holds to be exclusive, and   *)
(* that an effect has a committed source needs the verification made at    *)
(* the start of the delivery to be still true.                             *)

Claiming(w) == step[w] \in {"handle", "commit"}

SourceInv ==
    \A w \in Workers : step[w] \notin {"idle", "source"} => outbox[EventOf(w)] # "none"

ClaimInv == \A w \in Workers : Claiming(w) => <<sub[w], EventOf(w)>> \notin inbox

ExclusiveInv ==
    \A v, w \in Workers :
        v # w /\ Claiming(v) /\ Claiming(w) => sub[v] # sub[w] \/ EventOf(v) # EventOf(w)

EffectsInv == SourceInv /\ ClaimInv /\ ExclusiveInv /\ EffectsMatchReceipts

\* What a step may do to a delivery without touching receipts and effects.
Quiet(v) ==
    \/ step'[v] \in {"idle", "source"}
    \/ step[v] # "idle" /\ step'[v] = step[v] /\ sub'[v] = sub[v] /\ EventOf(v)' = EventOf(v)
    \/ Claiming(v) /\ Claiming(v)' /\ sub'[v] = sub[v] /\ EventOf(v)' = EventOf(v)
    \/ /\ step[v] # "idle" /\ step'[v] \in {"sync", "admit", "bind", "claim"}
       /\ EventOf(v)' = EventOf(v)
       /\ outbox[EventOf(v)] # "none"

Grows == \A e \in Events : outbox[e] # "none" => outbox'[e] # "none"

\* Quiet steps keep the invariant.
LEMMA QuietStep ==
    ASSUME TypeOK, TypeOK', EffectsInv, Grows, UNCHANGED <<inbox, applied>>,
           \A v \in Workers : Quiet(v)
    PROVE  EffectsInv'
  <1>1. SourceInv'
    <2> SUFFICES ASSUME NEW v \in Workers, step'[v] \notin {"idle", "source"}
                 PROVE  outbox'[EventOf(v)'] # "none"
      BY DEF SourceInv
    <2>1. step[v] # "idle" /\ EventOf(v)' = EventOf(v) /\ outbox[EventOf(v)] # "none"
      BY DEF Quiet, EffectsInv, SourceInv, Claiming
    <2>2. EventOf(v) \in Events  BY <2>1, CurrentMessage
    <2> QED BY <2>1, <2>2 DEF Grows
  <1>2. ClaimInv' /\ ExclusiveInv'  BY DEF EffectsInv, ClaimInv, ExclusiveInv, Quiet, Claiming
  <1>3. EffectsMatchReceipts'  BY DEF EffectsInv, EffectsMatchReceipts
  <1> QED BY <1>1, <1>2, <1>3 DEF EffectsInv

\* The stream is only ever appended to.
StreamKept == \A m \in 1..Len(stream) : stream'[m] = stream[m]

\* Accepting a message keeps the earlier ones.
LEMMA AcceptKeeps ==
    ASSUME BrokerTypeOK, NEW e \in Events, NEW k \in {"genuine", "forged"}, Accept(e, k)
    PROVE  StreamKept
  <1> DEFINE x == [event |-> e, kind |-> k]
  <1>1. x \in Message  BY DEF Message
  <1>2. stream' = Append(stream, x)  BY DEF Accept
  <1> HIDE DEF x
  <1> QED BY <1>1, <1>2, AppendFacts DEF BrokerTypeOK, StreamKept

\* A delivery that a step does not touch is quiet.
LEMMA UntouchedQuiet ==
    ASSUME TypeOK, StreamKept, NEW v \in Workers,
           step'[v] = step[v], msg'[v] = msg[v], sub'[v] = sub[v]
    PROVE  Quiet(v)
  <1>1. CASE step[v] = "idle"  BY <1>1 DEF Quiet
  <1>2. CASE step[v] # "idle"
    <2>1. EventOf(v)' = EventOf(v)  BY <1>2, CurrentMessage DEF EventOf, StreamKept
    <2> QED BY <1>2, <2>1 DEF Quiet
  <1> QED BY <1>1, <1>2

\* The steps that do not touch any delivery keep the effects invariant.
LEMMA UntouchedEffects ==
    ASSUME TypeOK, TypeOK', EffectsInv, StreamKept, Grows, UNCHANGED <<step, msg, sub, inbox, applied>>
    PROVE  EffectsInv'
  <1>1. \A v \in Workers : Quiet(v)  BY UntouchedQuiet
  <1> QED BY <1>1, QuietStep

\* A step of one delivery that leaves it quiet keeps the effects invariant.
LEMMA OwnEffects ==
    ASSUME TypeOK, TypeOK', EffectsInv, NEW w \in Workers, Quiet(w), UNCHANGED <<stream, outbox, inbox, applied>>,
           \A v \in Workers \ {w} : step'[v] = step[v] /\ msg'[v] = msg[v] /\ sub'[v] = sub[v]
    PROVE  EffectsInv'
  <1>1. StreamKept /\ Grows  BY DEF StreamKept, Grows
  <1>2. \A v \in Workers \ {w} : Quiet(v)  BY <1>1, UntouchedQuiet
  <1>3. \A v \in Workers : Quiet(v)  BY <1>2
  <1> QED BY <1>1, <1>3, QuietStep

\* Committing the receipt of a claim keeps the effects invariant, whatever
\* the delivery goes on with.
LEMMA CommitEffects ==
    ASSUME TypeOK, TypeOK', EffectsInv, NEW w \in Workers, step[w] = "commit", Commit(w),
           UNCHANGED <<stream, outbox>>, step'[w] \in {"idle", "bind"},
           step'[w] = "bind" => msg'[w] = msg[w],
           \A v \in Workers \ {w} : step'[v] = step[v] /\ msg'[v] = msg[v] /\ sub'[v] = sub[v]
    PROVE  EffectsInv'
  <1> DEFINE p == <<sub[w], EventOf(w)>>
  <1>1. p \in Subscribers \X Events /\ p \notin inbox
    BY CurrentMessage DEF EffectsInv, ClaimInv, Claiming, TypeOK, DeliveryControl, DeliveryTypeOK
  <1>2. inbox' = inbox \cup {p} /\ applied' = [applied EXCEPT ![p] = @ + 1]  BY DEF Commit
  <1>3. \A v \in Workers \ {w} : EventOf(v)' = EventOf(v)  BY DEF EventOf
  <1>4. SourceInv'  BY <1>3 DEF EffectsInv, SourceInv, EventOf
  <1>5. ClaimInv'
    <2> SUFFICES ASSUME NEW v \in Workers \ {w}, Claiming(v)
                 PROVE  <<sub[v], EventOf(v)>> \notin inbox \cup {p}
      BY <1>2, <1>3 DEF ClaimInv, Claiming
    <2>1. sub[v] # sub[w] \/ EventOf(v) # EventOf(w)
      BY DEF EffectsInv, ExclusiveInv, Claiming
    <2> QED BY <2>1 DEF EffectsInv, ClaimInv
  <1>6. ExclusiveInv'  BY <1>3 DEF EffectsInv, ExclusiveInv, Claiming
  <1>7. EffectsMatchReceipts'
    <2> HIDE DEF p
    <2> QED BY <1>1, <1>2 DEF EffectsInv, EffectsMatchReceipts, TypeOK, DatabaseTypeOK
  <1> QED BY <1>4, <1>5, <1>6, <1>7 DEF EffectsInv

\* Claiming keeps the effects invariant: the insert waits for, or sees, every
\* other claim of the same receipt.
LEMMA ClaimEffects ==
    ASSUME TypeOK, EffectsInv, NEW w \in Workers, Claim(w)
    PROVE  EffectsInv'
  <1>1. \A v \in Workers : EventOf(v)' = EventOf(v) /\ sub'[v] = sub[v]
    BY DEF Claim, EventOf, broker
  <1>2. /\ UNCHANGED <<outbox, inbox, applied>>
        /\ step[w] = "claim" /\ step'[w] = "handle"
        /\ \A v \in Workers \ {w} : step'[v] = step[v]
        /\ <<sub[w], EventOf(w)>> \notin inbox
    BY DEF Claim, database, TypeOK, DeliveryTypeOK
  <1>3. \A v \in Workers \ {w} : Claiming(v) => sub[v] # sub[w] \/ EventOf(v) # EventOf(w)
    BY DEF Claim, ClaimedElsewhere, Claiming
  <1>4. SourceInv'  BY <1>1, <1>2 DEF EffectsInv, SourceInv
  <1>5. ClaimInv'  BY <1>1, <1>2 DEF EffectsInv, ClaimInv, Claiming
  <1>6. ExclusiveInv'
    <2> SUFFICES ASSUME NEW v \in Workers, NEW u \in Workers, v # u, Claiming(v)', Claiming(u)'
                 PROVE  sub[v] # sub[u] \/ EventOf(v) # EventOf(u)
      BY <1>1 DEF ExclusiveInv
    <2>1. CASE v = w  BY <2>1, <1>2, <1>3 DEF Claiming
    <2>2. CASE u = w  BY <2>2, <1>2, <1>3 DEF Claiming
    <2>3. CASE v # w /\ u # w  BY <2>3, <1>2 DEF EffectsInv, ExclusiveInv, Claiming
    <2> QED BY <2>1, <2>2, <2>3
  <1>7. EffectsMatchReceipts'  BY <1>2 DEF EffectsInv, EffectsMatchReceipts
  <1> QED BY <1>4, <1>5, <1>6, <1>7 DEF EffectsInv

\* One step keeps the effects invariant.
LEMMA EffectsStep ==
    ASSUME TypeOK, TypeOK', EffectsInv, [Next]_vars
    PROVE  EffectsInv'
  <1> USE DEF database, broker, process, delivery, publisher
  <1>1. CASE UNCHANGED vars
    <2>1. StreamKept /\ Grows  BY <1>1 DEF vars, StreamKept, Grows
    <2> QED BY <1>1, <2>1, UntouchedEffects DEF vars
  <1>2. ASSUME NEW e \in Events, CommitCommand(e) PROVE EffectsInv'
    <2>1. StreamKept /\ Grows
      BY <1>2 DEF CommitCommand, StreamKept, Grows, TypeOK, DatabaseTypeOK
    <2> QED BY <1>2, <2>1, UntouchedEffects DEF CommitCommand
  <1>3. ASSUME NEW e \in Events, Forge(e) PROVE EffectsInv'
    <2>1. StreamKept /\ Grows  BY <1>3, AcceptKeeps DEF Forge, Grows, TypeOK
    <2> QED BY <1>3, <2>1, UntouchedEffects DEF Forge
  <1>4. CASE Rotate \/ Disable
    <2>1. StreamKept /\ Grows  BY <1>4 DEF Rotate, Disable, StreamKept, Grows
    <2> QED BY <1>4, <2>1, UntouchedEffects DEF Rotate, Disable
  <1>5. ASSUME NEW w \in Workers, Operator(w) PROVE EffectsInv'
    <2>1. StreamKept /\ Grows /\ UNCHANGED <<step, msg, sub, inbox, applied>>
      BY <1>5 DEF Operator, Start, Deploy, CloseHandler, RemoveHandler, EnableHandler, StreamKept, Grows
    <2> QED BY <2>1, UntouchedEffects
  <1>6. ASSUME NEW w \in Workers,
                PublisherSync(w) \/ BeginBatch(w) \/ AbortCycle(w) \/ PublisherDenied(w)
         PROVE EffectsInv'
    <2>1. StreamKept /\ Grows /\ UNCHANGED <<step, msg, sub, inbox, applied>>
      BY <1>6 DEF PublisherSync, BeginBatch, AbortCycle, PublisherDenied, StreamKept, Grows
    <2> QED BY <2>1, UntouchedEffects
  <1>7. ASSUME NEW w \in Workers, CommitBatch(w) PROVE EffectsInv'
    <2>1. StreamKept /\ Grows  BY <1>7 DEF CommitBatch, StreamKept, Grows
    <2> QED BY <1>7, <2>1, UntouchedEffects DEF CommitBatch
  <1>8. ASSUME NEW w \in Workers, Publish(w) \/ PublishFails(w) PROVE EffectsInv'
    <2>1. PICK e \in unsent[w] : Accept(e, "genuine") \/ UNCHANGED stream
      BY <1>8 DEF Publish, PublishFails
    <2>2. e \in Events  BY DEF TypeOK, PublisherTypeOK
    <2>3. StreamKept  BY <2>1, <2>2, AcceptKeeps DEF StreamKept, TypeOK
    <2>4. Grows /\ UNCHANGED <<step, msg, sub, inbox, applied>>
      BY <1>8 DEF Publish, PublishFails, Grows
    <2> QED BY <2>3, <2>4, UntouchedEffects
  <1>9. ASSUME NEW w \in Workers,
                \/ RejectSource(w) \/ UnknownType(w) \/ SyncCommitFails(w) \/ Unavailable(w)
                \/ DeliveryDenied(w) \/ Ack(w) \/ DeliveryFails(w) \/ Crash(w)
         PROVE EffectsInv'
    <2>1. EndDelivery(w) /\ UNCHANGED <<stream, outbox, inbox, applied>>
      BY <1>9 DEF RejectSource, UnknownType, SyncCommitFails, Unavailable, DeliveryDenied, Ack,
                    DeliveryFails, Crash
    <2>2. step'[w] = "idle" /\ \A v \in Workers \ {w} :
             step'[v] = step[v] /\ msg'[v] = msg[v] /\ sub'[v] = sub[v]
      BY <2>1 DEF EndDelivery, TypeOK, DeliveryTypeOK
    <2> QED BY <2>1, <2>2, OwnEffects DEF Quiet
  <1>10. ASSUME NEW w \in Workers, NEW m \in Positions, Receive(w, m) PROVE EffectsInv'
    <2>1. \A v \in Workers \ {w} : step'[v] = step[v] /\ msg'[v] = msg[v] /\ sub'[v] = sub[v]
      BY <1>10 DEF Receive, TypeOK, DeliveryTypeOK
    <2>2. Quiet(w) /\ UNCHANGED <<stream, outbox, inbox, applied>>
      BY <1>10 DEF Receive, Quiet, Claiming, EventOf, EffectsInv, SourceInv, TypeOK, DeliveryTypeOK
    <2> QED BY <2>1, <2>2, OwnEffects
  <1>11. ASSUME NEW w \in Workers, VerifySource(w) PROVE EffectsInv'
    <2>1. \A v \in Workers \ {w} : step'[v] = step[v] /\ msg'[v] = msg[v] /\ sub'[v] = sub[v]
      BY <1>11 DEF VerifySource, SourceMatches, TypeOK, DeliveryTypeOK
    <2>2. Quiet(w) /\ UNCHANGED <<stream, outbox, inbox, applied>>
      BY <1>11 DEF VerifySource, SourceMatches, Quiet, Claiming, EventOf, EffectsInv, SourceInv, TypeOK, DeliveryTypeOK
    <2> QED BY <2>1, <2>2, OwnEffects
  <1>12. ASSUME NEW w \in Workers, SyncDelivery(w) PROVE EffectsInv'
    <2>1. \A v \in Workers \ {w} : step'[v] = step[v] /\ msg'[v] = msg[v] /\ sub'[v] = sub[v]
      BY <1>12 DEF SyncDelivery, TypeOK, DeliveryTypeOK
    <2>2. Quiet(w) /\ UNCHANGED <<stream, outbox, inbox, applied>>
      BY <1>12 DEF SyncDelivery, Quiet, Claiming, EventOf, EffectsInv, SourceInv, TypeOK, DeliveryTypeOK
    <2> QED BY <2>1, <2>2, OwnEffects
  <1>13. ASSUME NEW w \in Workers, AdmitDelivery(w) PROVE EffectsInv'
    <2>1. \A v \in Workers \ {w} : step'[v] = step[v] /\ msg'[v] = msg[v] /\ sub'[v] = sub[v]
      BY <1>13 DEF AdmitDelivery, TypeOK, DeliveryTypeOK
    <2>2. Quiet(w) /\ UNCHANGED <<stream, outbox, inbox, applied>>
      BY <1>13 DEF AdmitDelivery, Quiet, Claiming, EventOf, EffectsInv, SourceInv, TypeOK, DeliveryTypeOK
    <2> QED BY <2>1, <2>2, OwnEffects
  <1>14. ASSUME NEW w \in Workers, BindSubscriber(w) PROVE EffectsInv'
    <2>1. \A v \in Workers \ {w} : step'[v] = step[v] /\ msg'[v] = msg[v] /\ sub'[v] = sub[v]
      BY <1>14 DEF BindSubscriber, TypeOK, DeliveryTypeOK
    <2>2. Quiet(w) /\ UNCHANGED <<stream, outbox, inbox, applied>>
      BY <1>14 DEF BindSubscriber, Quiet, Claiming, EventOf, EffectsInv, SourceInv, TypeOK, DeliveryTypeOK
    <2> QED BY <2>1, <2>2, OwnEffects
  <1>15. ASSUME NEW w \in Workers, AlreadyClaimed(w) PROVE EffectsInv'
    <2>1. \A v \in Workers \ {w} : step'[v] = step[v] /\ msg'[v] = msg[v] /\ sub'[v] = sub[v]
      BY <1>15 DEF AlreadyClaimed, Served, TypeOK, DeliveryTypeOK
    <2>2. Quiet(w) /\ UNCHANGED <<stream, outbox, inbox, applied>>
      BY <1>15 DEF AlreadyClaimed, Served, Quiet, Claiming, EventOf, EffectsInv, SourceInv, TypeOK, DeliveryTypeOK
    <2> QED BY <2>1, <2>2, OwnEffects
  <1>16. ASSUME NEW w \in Workers, Handle(w) PROVE EffectsInv'
    <2>1. \A v \in Workers \ {w} : step'[v] = step[v] /\ msg'[v] = msg[v] /\ sub'[v] = sub[v]
      BY <1>16 DEF Handle, TypeOK, DeliveryTypeOK
    <2>2. Quiet(w) /\ UNCHANGED <<stream, outbox, inbox, applied>>
      BY <1>16 DEF Handle, Quiet, Claiming, EventOf, EffectsInv, SourceInv, TypeOK, DeliveryTypeOK
    <2> QED BY <2>1, <2>2, OwnEffects
  <1>17. ASSUME NEW w \in Workers, Claim(w) PROVE EffectsInv'  BY <1>17, ClaimEffects
  <1>18. ASSUME NEW w \in Workers, CommitSubscriber(w) PROVE EffectsInv'
    <2>1. step'[w] = "bind" /\ msg' = msg /\ UNCHANGED <<stream, outbox>>
      BY <1>18 DEF CommitSubscriber, Served, TypeOK, DeliveryTypeOK
    <2>2. \A v \in Workers \ {w} : step'[v] = step[v] /\ msg'[v] = msg[v] /\ sub'[v] = sub[v]
      BY <1>18 DEF CommitSubscriber, Served, TypeOK, DeliveryTypeOK
    <2> QED BY <1>18, <2>1, <2>2, CommitEffects DEF CommitSubscriber
  <1>19. ASSUME NEW w \in Workers, CommitUnconfirmed(w) PROVE EffectsInv'
    <2>1. step'[w] = "idle" /\ UNCHANGED <<stream, outbox>>
      BY <1>19 DEF CommitUnconfirmed, EndDelivery, TypeOK, DeliveryTypeOK
    <2>2. \A v \in Workers \ {w} : step'[v] = step[v] /\ msg'[v] = msg[v] /\ sub'[v] = sub[v]
      BY <1>19 DEF CommitUnconfirmed, EndDelivery, TypeOK, DeliveryTypeOK
    <2> QED BY <1>19, <2>1, <2>2, CommitEffects DEF CommitUnconfirmed
  <1> QED
    BY <1>1, <1>2, <1>3, <1>4, <1>5, <1>6, <1>7, <1>8, <1>9, <1>10, <1>11, <1>12, <1>13, <1>14, <1>15, <1>16, <1>17, <1>18, <1>19
    DEF Next, PublisherStep, DeliveryStep, Failure

\* The initial state satisfies the effects invariant.
LEMMA EffectsInit == Init => EffectsInv
  BY DEF Init, EffectsInv, SourceInv, ClaimInv, ExclusiveInv, EffectsMatchReceipts, Claiming

\* However often an event is published and delivered, to however many
\* workers at a time, a subscriber's effect happens exactly when its receipt
\* is committed, and once (DurableEventConsumer.consume).
THEOREM EffectsExactlyOnce == Spec => []EffectsMatchReceipts
  <1>1. Init => TypeOK /\ EffectsInv  BY TypeInit, EffectsInit
  <1>2. TypeOK /\ EffectsInv /\ [Next]_vars => TypeOK' /\ EffectsInv'
    BY TypeStep, EffectsStep
  <1>3. EffectsInv => EffectsMatchReceipts  BY DEF EffectsInv
  <1> QED BY <1>1, <1>2, <1>3, PTL DEF Spec

-----------------------------------------------------------------------------
(* The outbox and the stream.  What a publisher holds in its batch has     *)
(* been committed, what it has marked is in the stream.                    *)

InStream(e) == \E m \in 1..Len(stream) : stream[m] = [event |-> e, kind |-> "genuine"]

BatchInv == \A w \in Workers : \A e \in unsent[w] \cup sent[w] : outbox[e] # "none"

SentInv == \A w \in Workers : \A e \in sent[w] : InStream(e)

GenuineInv ==
    \A m \in 1..Len(stream) : stream[m].kind = "genuine" => outbox[stream[m].event] # "none"

PublishInv == BatchInv /\ SentInv /\ GenuineInv /\ PublishedWasAccepted /\ OnlyUnusableTerminated

\* Messages already in the stream stay in it.
LEMMA InStreamKept ==
    ASSUME StreamKept, Len(stream) \in Nat, Len(stream') \in Nat, Len(stream') >= Len(stream),
           NEW e, InStream(e)
    PROVE  InStream(e)'
  BY DEF StreamKept, InStream

\* Steps that leave the stream alone, commit no batch and enlarge no batch
\* keep the invariant.
LEMMA CalmPublish ==
    ASSUME TypeOK, PublishInv, UNCHANGED stream, Grows, terminated' = terminated,
           \A w \in Workers : unsent'[w] \subseteq unsent[w] /\ sent'[w] \subseteq sent[w],
           \A e \in Events : outbox'[e] = "published" => outbox[e] = "published" \/ InStream(e)
    PROVE  PublishInv'
  <1>1. BatchInv'  BY DEF PublishInv, BatchInv, Grows, TypeOK, PublisherTypeOK
  <1>2. SentInv' /\ PublishedWasAccepted'
    BY DEF PublishInv, SentInv, PublishedWasAccepted, InStream
  <1>3. GenuineInv'
    <2> SUFFICES ASSUME NEW m \in 1..Len(stream), stream[m].kind = "genuine"
                 PROVE  outbox'[stream[m].event] # "none"
      BY DEF GenuineInv
    <2>0. stream[m] \in Message  BY StreamLength
    <2>1. stream[m].event \in Events  BY <2>0 DEF Message
    <2> QED BY <2>1 DEF PublishInv, GenuineInv, Grows
  <1>4. OnlyUnusableTerminated'  BY DEF PublishInv, OnlyUnusableTerminated
  <1> QED BY <1>1, <1>2, <1>3, <1>4 DEF PublishInv

\* The broker accepts a message: forged, or of a committed event.
LEMMA AcceptPublish ==
    ASSUME TypeOK, PublishInv, NEW e \in Events, NEW k \in {"genuine", "forged"},
           Accept(e, k), k = "genuine" => outbox[e] # "none",
           UNCHANGED <<outbox, acked, terminated>>,
           \A w \in Workers : /\ unsent'[w] \subseteq unsent[w]
                              /\ sent'[w] \subseteq sent[w] \cup (IF k = "genuine" THEN {e} ELSE {}),
           \A w \in Workers : \A f \in sent'[w] : outbox[f] # "none"
    PROVE  PublishInv'
  <1> DEFINE x == [event |-> e, kind |-> k]
  <1>1. x \in Message /\ stream' = Append(stream, x) /\ Len(stream) \in Nat /\ stream \in Seq(Message)
    BY StreamLength DEF Message, Accept
  <1>2. StreamKept /\ Len(stream') = Len(stream) + 1 /\ stream'[Len(stream) + 1] = x
    <2> HIDE DEF x
    <2> QED BY <1>1, AppendFacts DEF StreamKept
  <1>3. \A f : InStream(f) => InStream(f)'  BY <1>1, <1>2, InStreamKept
  <1>4. k = "genuine" => InStream(e)'  BY <1>1, <1>2 DEF InStream
  <1>5. BatchInv'  BY DEF PublishInv, BatchInv
  <1>6. SentInv'  BY <1>3, <1>4 DEF PublishInv, SentInv
  <1>7. PublishedWasAccepted'  BY <1>3 DEF PublishInv, PublishedWasAccepted, InStream
  <1>8. GenuineInv'
    <2> SUFFICES ASSUME NEW m \in 1..(Len(stream) + 1), stream'[m].kind = "genuine"
                 PROVE  outbox[stream'[m].event] # "none"
      BY <1>2 DEF GenuineInv
    <2>1. CASE m = Len(stream) + 1  BY <2>1, <1>2
    <2>2. CASE m \in 1..Len(stream)  BY <2>2, <1>2 DEF StreamKept, PublishInv, GenuineInv
    <2> QED BY <1>1, <2>1, <2>2
  <1>9. OnlyUnusableTerminated'
    BY <1>2 DEF StreamKept, PublishInv, OnlyUnusableTerminated, TypeOK, BrokerTypeOK
  <1> QED BY <1>5, <1>6, <1>7, <1>8, <1>9 DEF PublishInv

\* One step keeps the publication invariant.
LEMMA PublishStep ==
    ASSUME TypeOK, TypeOK', PublishInv, [Next]_vars
    PROVE  PublishInv'
  <1> USE DEF database, broker, process, delivery, publisher
  <1>1. CASE UNCHANGED vars  BY <1>1, CalmPublish DEF vars, Grows
  <1>2. ASSUME NEW e \in Events, CommitCommand(e) PROVE PublishInv'
    <2>1. Grows /\ \A f \in Events : outbox'[f] = "published" => outbox[f] = "published"
      BY <1>2 DEF CommitCommand, Grows, TypeOK, DatabaseTypeOK
    <2> QED BY <1>2, <2>1, CalmPublish DEF CommitCommand
  <1>3. ASSUME NEW e \in Events, Forge(e) PROVE PublishInv'
    BY <1>3, AcceptPublish DEF Forge, PublishInv, BatchInv
  <1>4. CASE Rotate \/ Disable  BY <1>4, CalmPublish DEF Rotate, Disable, Grows
  <1>5. ASSUME NEW w \in Workers, Operator(w) PROVE PublishInv'
    <2>1. UNCHANGED <<stream, outbox, terminated, unsent, sent>>
      BY <1>5 DEF Operator, Start, Deploy, CloseHandler, RemoveHandler, EnableHandler
    <2> QED BY <2>1, CalmPublish DEF Grows
  <1>6. ASSUME NEW w \in Workers, PublisherSync(w) PROVE PublishInv'
    BY <1>6, CalmPublish DEF PublisherSync, Grows
  <1>7. ASSUME NEW w \in Workers, BeginBatch(w) PROVE PublishInv'
    <2>1. PICK B \in SUBSET Events : Batch(B) /\ unsent' = [unsent EXCEPT ![w] = B]
      BY <1>7 DEF BeginBatch
    <2>2. \A e \in B : outbox[e] = "pending"  BY <2>1 DEF Batch
    <2>3. BatchInv'
      BY <1>7, <2>1, <2>2 DEF BeginBatch, PublishInv, BatchInv, TypeOK, PublisherTypeOK
    <2> QED
      BY <1>7, <2>3 DEF BeginBatch, PublishInv, SentInv, GenuineInv, PublishedWasAccepted,
                        OnlyUnusableTerminated, InStream
  <1>8. ASSUME NEW w \in Workers, Publish(w) PROVE PublishInv'
    <2>1. PICK e \in unsent[w] : /\ Accept(e, "genuine")
                                 /\ unsent' = [unsent EXCEPT ![w] = @ \ {e}]
                                 /\ sent' = [sent EXCEPT ![w] = @ \cup {e}]
      BY <1>8 DEF Publish
    <2>2. e \in Events /\ outbox[e] # "none"
      BY DEF TypeOK, PublisherTypeOK, PublishInv, BatchInv
    <2>3. \A v \in Workers : unsent'[v] \subseteq unsent[v] /\ sent'[v] \subseteq sent[v] \cup {e}
      BY <2>1 DEF TypeOK, PublisherTypeOK
    <2>4. \A v \in Workers : \A f \in sent'[v] : outbox[f] # "none"
      BY <2>2, <2>3 DEF PublishInv, BatchInv
    <2> QED BY <1>8, <2>1, <2>2, <2>3, <2>4, AcceptPublish DEF Publish
  <1>9. ASSUME NEW w \in Workers, PublishFails(w) PROVE PublishInv'
    <2>1. PICK e \in unsent[w] : /\ Accept(e, "genuine") \/ UNCHANGED stream
                                 /\ unsent' = [unsent EXCEPT ![w] = @ \ {e}]
      BY <1>9 DEF PublishFails
    <2>2. e \in Events /\ outbox[e] # "none"
      BY DEF TypeOK, PublisherTypeOK, PublishInv, BatchInv
    <2>3. sent' = sent /\ \A v \in Workers : unsent'[v] \subseteq unsent[v]
      BY <1>9, <2>1 DEF PublishFails, TypeOK, PublisherTypeOK
    <2>4. \A v \in Workers : \A f \in sent'[v] : outbox[f] # "none"
      BY <2>3 DEF PublishInv, BatchInv
    <2>5. CASE Accept(e, "genuine")
      BY <1>9, <2>2, <2>3, <2>4, <2>5, AcceptPublish DEF PublishFails
    <2>6. CASE UNCHANGED stream  BY <1>9, <2>3, <2>6, CalmPublish DEF PublishFails, Grows
    <2> QED BY <2>1, <2>5, <2>6
  <1>10. ASSUME NEW w \in Workers, CommitBatch(w) PROVE PublishInv'
    <2>1. \A v \in Workers : unsent'[v] \subseteq unsent[v] /\ sent'[v] \subseteq sent[v]
      BY <1>10 DEF CommitBatch, EndBatch, TypeOK, PublisherTypeOK
    <2>2. Grows /\ \A e \in Events : outbox'[e] = "published" => outbox[e] = "published" \/ InStream(e)
      BY <1>10 DEF CommitBatch, Grows, PublishInv, SentInv
    <2> QED BY <1>10, <2>1, <2>2, CalmPublish DEF CommitBatch
  <1>11. ASSUME NEW w \in Workers, AbortCycle(w) \/ PublisherDenied(w) \/ Crash(w) PROVE PublishInv'
    <2>1. \A v \in Workers : unsent'[v] \subseteq unsent[v] /\ sent'[v] \subseteq sent[v]
      BY <1>11 DEF AbortCycle, PublisherDenied, Crash, EndBatch, TypeOK, PublisherTypeOK
    <2>2. UNCHANGED <<stream, outbox, terminated>>
      BY <1>11 DEF AbortCycle, PublisherDenied, Crash
    <2> QED BY <2>1, <2>2, CalmPublish DEF Grows
  <1>12. ASSUME NEW w \in Workers, RejectSource(w) PROVE PublishInv'
    <2>1. UNCHANGED <<stream, outbox, unsent, sent>> /\ step[w] = "source"
      BY <1>12 DEF RejectSource
    <2>2. msg[w] \in 1..Len(stream) /\ stream[msg[w]] \in Message  BY <2>1, CurrentMessage
    <2>3. stream[msg[w]].kind = "forged" \/ stream[msg[w]].event \in Malformed
      BY <1>12, <2>2 DEF RejectSource, SourceMatches, EventOf, PublishInv, GenuineInv, Message
    <2>4. OnlyUnusableTerminated'
      BY <1>12, <2>1, <2>3 DEF RejectSource, PublishInv, OnlyUnusableTerminated
    <2> QED
      BY <2>1, <2>4 DEF PublishInv, BatchInv, SentInv, GenuineInv, PublishedWasAccepted, InStream
  <1>13. ASSUME NEW w \in Workers, DeliveryStep(w), ~RejectSource(w) PROVE PublishInv'
    <2>1. UNCHANGED <<stream, outbox, terminated, unsent, sent>>
      BY <1>13 DEF DeliveryStep, VerifySource, UnknownType, SyncDelivery, AdmitDelivery,
                   Unavailable, BindSubscriber, DeliveryDenied, Claim, AlreadyClaimed, Handle,
                   CommitSubscriber, Ack
    <2> QED BY <2>1, CalmPublish DEF Grows
  <1>14. ASSUME NEW w \in Workers,
                \/ \E m \in Positions : Receive(w, m)
                \/ SyncCommitFails(w) \/ CommitUnconfirmed(w) \/ DeliveryFails(w)
         PROVE  PublishInv'
    <2>1. UNCHANGED <<stream, outbox, terminated, unsent, sent>>
      BY <1>14 DEF Receive, SyncCommitFails, CommitUnconfirmed, DeliveryFails
    <2> QED BY <2>1, CalmPublish DEF Grows
  <1> QED
    BY <1>1, <1>2, <1>3, <1>4, <1>5, <1>6, <1>7, <1>8, <1>9, <1>10, <1>11, <1>12, <1>13, <1>14
    DEF Next, PublisherStep, Failure

\* The initial state satisfies the publication invariant.
LEMMA PublishInit == Init => PublishInv
  BY DEF Init, PublishInv, BatchInv, SentInv, GenuineInv, PublishedWasAccepted,
         OnlyUnusableTerminated

\* No event is lost by the outbox: a row is marked published only once the
\* broker has its message, whatever batch fails or process dies
\* (OutboxPublisher.publish_batch).
THEOREM PublishedAreAccepted == Spec => []PublishedWasAccepted
  <1>1. Init => TypeOK /\ PublishInv  BY TypeInit, PublishInit
  <1>2. TypeOK /\ PublishInv /\ [Next]_vars => TypeOK' /\ PublishInv'
    BY TypeStep, PublishStep
  <1>3. PublishInv => PublishedWasAccepted  BY DEF PublishInv
  <1> QED BY <1>1, <1>2, <1>3, PTL DEF Spec

\* No committed event that can be decoded is ever given up by the adapter's
\* term() (CommittedOutboxSourceVerifier.verify).
THEOREM CommittedNotTerminated == Spec => []OnlyUnusableTerminated
  <1>1. Init => TypeOK /\ PublishInv  BY TypeInit, PublishInit
  <1>2. TypeOK /\ PublishInv /\ [Next]_vars => TypeOK' /\ PublishInv'
    BY TypeStep, PublishStep
  <1>3. PublishInv => OnlyUnusableTerminated  BY DEF PublishInv
  <1> QED BY <1>1, <1>2, <1>3, PTL DEF Spec

-----------------------------------------------------------------------------
(* Delivery implements EventEffects.                                       *)

Recorded == {e \in Events : outbox[e] # "none"}

\* A step that changes neither the recorded events nor the effects is a
\* stuttering step of EventEffects.
LEMMA Stutter ==
    ASSUME \A e \in Events : (outbox[e] = "none") <=> (outbox'[e] = "none"),
           UNCHANGED applied
    PROVE  UNCHANGED Effects!vars
  BY DEF Effects!vars

\* A committed receipt is an Apply step of EventEffects.
LEMMA CommitApplies ==
    ASSUME TypeOK, EffectsInv, NEW w \in Workers, step[w] = "commit", Commit(w), UNCHANGED outbox
    PROVE  Effects!Next
  <1> DEFINE p == <<sub[w], EventOf(w)>>
  <1>1. sub[w] \in Subscribers /\ EventOf(w) \in Events
    BY CurrentMessage DEF TypeOK, DeliveryControl, DeliveryTypeOK
  <1>2. outbox[EventOf(w)] # "none" /\ p \notin inbox
    BY DEF EffectsInv, SourceInv, ClaimInv, Claiming
  <1>3. applied[p] = 0  BY <1>1, <1>2 DEF EffectsInv, EffectsMatchReceipts
  <1>4. applied' = [applied EXCEPT ![p] = 1]
    <2>1. p \in Subscribers \X Events  BY <1>1
    <2>2. applied' = [applied EXCEPT ![p] = @ + 1]  BY DEF Commit
    <2> HIDE DEF p
    <2> QED BY <2>1, <2>2, <1>3 DEF TypeOK, DatabaseTypeOK
  <1>5. Effects!Apply(sub[w], EventOf(w))  BY <1>1, <1>2, <1>3, <1>4 DEF Effects!Apply
  <1> QED BY <1>1, <1>5 DEF Effects!Next

\* Every step of delivery is a step of EventEffects or leaves its state
\* unchanged.
LEMMA EffectsRefined ==
    ASSUME TypeOK, EffectsInv, PublishInv, [Next]_vars
    PROVE  [Effects!Next]_(Effects!vars)
  <1> USE DEF database, broker, process, delivery, publisher
  <1>1. CASE UNCHANGED vars  BY <1>1, Stutter DEF vars
  <1>2. ASSUME NEW e \in Events, CommitCommand(e) PROVE Effects!Next
    <2>1. e \notin Recorded /\ Recorded' = Recorded \cup {e} /\ UNCHANGED applied
      BY <1>2 DEF CommitCommand, Recorded, TypeOK, DatabaseTypeOK
    <2>2. Effects!Record(e)  BY <2>1 DEF Effects!Record, Recorded
    <2> QED BY <2>2 DEF Effects!Next
  <1>3. ASSUME NEW e \in Events, Forge(e) PROVE UNCHANGED Effects!vars
    BY <1>3, Stutter DEF Forge
  <1>4. CASE Rotate \/ Disable  BY <1>4, Stutter DEF Rotate, Disable
  <1>5. ASSUME NEW w \in Workers, Operator(w) PROVE UNCHANGED Effects!vars
    BY <1>5, Stutter DEF Operator, Start, Deploy, CloseHandler, RemoveHandler, EnableHandler
  <1>6. ASSUME NEW w \in Workers,
               \/ PublisherSync(w) \/ BeginBatch(w) \/ Publish(w) \/ PublisherDenied(w)
               \/ PublishFails(w) \/ AbortCycle(w) \/ Crash(w) \/ SyncCommitFails(w)
               \/ DeliveryFails(w) \/ \E m \in Positions : Receive(w, m)
        PROVE  UNCHANGED Effects!vars
    <2>1. UNCHANGED <<outbox, applied>>
      BY <1>6 DEF PublisherSync, BeginBatch, Publish, PublisherDenied, PublishFails,
                  AbortCycle, Crash, SyncCommitFails, DeliveryFails, Receive
    <2> QED BY <2>1, Stutter
  <1>7. ASSUME NEW w \in Workers, CommitBatch(w) PROVE UNCHANGED Effects!vars
    <2>1. \A e \in sent[w] : outbox[e] # "none"  BY DEF PublishInv, BatchInv
    <2> QED BY <1>7, <2>1, Stutter DEF CommitBatch
  <1>8. ASSUME NEW w \in Workers, CommitSubscriber(w) \/ CommitUnconfirmed(w)
        PROVE  Effects!Next
    BY <1>8, CommitApplies DEF CommitSubscriber, CommitUnconfirmed
  <1>9. ASSUME NEW w \in Workers, DeliveryStep(w), ~CommitSubscriber(w)
        PROVE  UNCHANGED Effects!vars
    <2>1. UNCHANGED <<outbox, applied>>
      BY <1>9 DEF DeliveryStep, VerifySource, RejectSource, UnknownType, SyncDelivery,
                  AdmitDelivery, Unavailable, BindSubscriber, DeliveryDenied, Claim,
                  AlreadyClaimed, Handle, Ack
    <2> QED BY <2>1, Stutter
  <1> QED
    BY <1>1, <1>2, <1>3, <1>4, <1>5, <1>6, <1>7, <1>8, <1>9, Stutter
    DEF Next, PublisherStep, Failure, Rotate, Disable

\* Delivery implements exactly-once effects of committed events, for any
\* number of workers, events and subscribers, through every duplicate,
\* redelivery, roll back and crash (DurableEventConsumer.consume,
\* CommittedOutboxSourceVerifier.verify).
THEOREM EffectsImplemented == Spec => ImplementsEffects
  <1>1. Init => TypeOK /\ EffectsInv /\ PublishInv  BY TypeInit, EffectsInit, PublishInit
  <1>2. TypeOK /\ EffectsInv /\ PublishInv /\ [Next]_vars => TypeOK' /\ EffectsInv' /\ PublishInv'
    BY TypeStep, EffectsStep, PublishStep
  <1>3. Init => Effects!Init  BY DEF Init, Effects!Init
  <1>4. TypeOK /\ EffectsInv /\ PublishInv /\ [Next]_vars => [Effects!Next]_(Effects!vars)
    BY EffectsRefined
  <1> QED BY <1>1, <1>2, <1>3, <1>4, PTL DEF Spec, ImplementsEffects, Effects!Spec

\* For any number of workers, events, subscribers and failures, receipts and
\* effects, marked rows and the stream, terminated messages and the outbox
\* agree in every state (publish_batch and DurableConsumer.consume).
THEOREM DeliveryStaysSound == Spec => []DeliverySound
  <1>1. TypeOK /\ EffectsMatchReceipts /\ PublishedWasAccepted /\ OnlyUnusableTerminated
          => DeliverySound
    BY DEF DeliverySound
  <1> QED
    BY <1>1, TypeCorrect, EffectsExactlyOnce, PublishedAreAccepted, CommittedNotTerminated, PTL

-----------------------------------------------------------------------------
(* The authority of a worker.  AdmittedIsCurrent is not inductive: that a   *)
(* proof bound for a subscriber is not of a disabled row needs every proof  *)
(* of a running delivery to be of some generation.                          *)

InTransaction(w) == step[w] \in {"claim", "handle", "commit"}

ProofInv == \A w \in Workers : step[w] # "idle" => proof[w] # 0

AuthorityInv == ProofInv /\ AdmittedIsCurrent

-----------------------------------------------------------------------------
(* Copies in the stream.  Every copy of an event beyond the one of the      *)
(* publisher that marks it has cost a failure.                              *)

Copies(e) == {m \in 1..Len(stream) : stream[m].event = e}

Marked(e) == outbox[e] = "published" \/ \E w \in Workers : e \in sent[w]

CopiesInv == \A e \in Events : Cardinality(Copies(e)) <= faults + (IF Marked(e) THEN 1 ELSE 0)

\* A publisher's batch is its own, pending, and split into sent and unsent.
RowsInv ==
    /\ \A w \in Workers :
        /\ sent[w] \subseteq locked[w] /\ unsent[w] \subseteq locked[w] /\ sent[w] \cap unsent[w] = {}
        /\ \A e \in locked[w] : outbox[e] = "pending"
        /\ phase[w] # "publish" => locked[w] = {}
    /\ \A v, w \in Workers : v # w => locked[v] \cap locked[w] = {}

-----------------------------------------------------------------------------
(* Whom a delivery has served.                                              *)

Serving(w) == step[w] \in {"bind", "claim", "handle", "commit"}

ServedBy(w) ==
    /\ owed[w] \subseteq obligations
    /\ step[w] = "admit" => owed[w] \subseteq bound[w]
    /\ Serving(w) => \A s \in owed[w] : s \in left[w] \/ <<s, EventOf(w)>> \in inbox

ServedInv == \A w \in Workers : ServedBy(w)

-----------------------------------------------------------------------------
(* The authority: a step of one worker                                      *)

\* What a step under an unchanged authority may do to a delivery.
Lawful(v) ==
    \/ step'[v] = "idle"
    \/ step[v] # "idle" /\ step'[v] = step[v] /\ proof'[v] = proof[v]
    \/ step'[v] # "idle" /\ ~InTransaction(v)' /\ proof'[v] # 0
    \/ step'[v] # "idle" /\ proof'[v] = authority /\ authority # 0

\* Such steps keep the authority of every worker current.
LEMMA LawfulKeeps ==
    ASSUME AuthorityInv, UNCHANGED authority,
           \A v \in Workers : Lawful(v) /\ (phase'[v] = "publish" => phase[v] = "publish" \/ authority # 0)
    PROVE  AuthorityInv'
  <1>1. ProofInv'  BY DEF AuthorityInv, ProofInv, Lawful, InTransaction
  <1>2. AdmittedIsCurrent'  BY DEF AuthorityInv, AdmittedIsCurrent, Lawful, InTransaction
  <1>. QED BY <1>1, <1>2 DEF AuthorityInv

\* A step that touches one delivery, and that lawfully.
LEMMA OwnLawful ==
    ASSUME AuthorityInv, UNCHANGED <<authority, phase>>, NEW w \in Workers, Lawful(w),
           \A v \in Workers \ {w} : step'[v] = step[v] /\ proof'[v] = proof[v]
    PROVE  AuthorityInv'
  <1>1. \A v \in Workers \ {w} : Lawful(v)  BY DEF Lawful
  <1>. QED BY <1>1, LawfulKeeps

\* Steps that touch no delivery and begin no batch.
LEMMA CalmAuthority ==
    ASSUME AuthorityInv, UNCHANGED <<authority, step, proof>>,
           \A v \in Workers : phase'[v] = "publish" => phase[v] = "publish" \/ authority # 0
    PROVE  AuthorityInv'
  <1>1. \A v \in Workers : Lawful(v)  BY DEF Lawful
  <1>. QED BY <1>1, LawfulKeeps

\* A verified worker has the generation of an enabled row.
LEMMA VerifiedIsEnabled ==
    ASSUME TypeOK, NEW w \in Workers, Verified(w)
    PROVE  authority # 0 /\ credential[w] = authority
  BY BoundsAssumption DEF TypeOK, ProcessTypeOK, Verified

\* Every step keeps every transaction under the authority as it is.
LEMMA AuthorityStep ==
    ASSUME TypeOK, AuthorityInv, [Next]_vars
    PROVE  AuthorityInv'
  <1> USE DEF database, broker, process, delivery, publisher
  <1>0. DOMAIN step = Workers /\ DOMAIN proof = Workers /\ DOMAIN phase = Workers
    BY DEF TypeOK, DeliveryTypeOK, PublisherTypeOK
  <1>1. CASE UNCHANGED vars  BY <1>1, CalmAuthority DEF vars
  <1>2. ASSUME NEW e \in Events, CommitCommand(e) \/ Forge(e) PROVE AuthorityInv'
    BY <1>2, CalmAuthority DEF CommitCommand, Forge
  <1>3. CASE Rotate \/ Disable
    <2>1. ~AuthorityLocked /\ UNCHANGED <<step, proof, phase>>  BY <1>3 DEF Rotate, Disable
    <2>2. \A w \in Workers : step[w] \notin {"claim", "handle", "commit"} /\ phase[w] # "publish"
      BY <2>1 DEF AuthorityLocked
    <2>. QED BY <2>1, <2>2 DEF AuthorityInv, ProofInv, AdmittedIsCurrent
  <1>4. ASSUME NEW w \in Workers, Operator(w) PROVE AuthorityInv'
    <2>1. UNCHANGED <<authority, step, proof, phase>>
      BY <1>4 DEF Operator, Start, Deploy, CloseHandler, RemoveHandler, EnableHandler
    <2>. QED BY <2>1, CalmAuthority
  <1>5. ASSUME NEW w \in Workers, PublisherSync(w) \/ Publish(w) \/ CommitBatch(w) \/ PublishFails(w) \/ AbortCycle(w)
        PROVE AuthorityInv'
    <2>1. UNCHANGED <<authority, step, proof>>
      BY <1>5 DEF PublisherSync, Publish, CommitBatch, PublishFails, AbortCycle
    <2>2. \A v \in Workers : phase'[v] = "publish" => phase[v] = "publish"
      BY <1>0, <1>5 DEF PublisherSync, Publish, CommitBatch, PublishFails, AbortCycle, EndBatch
    <2>. QED BY <2>1, <2>2, CalmAuthority
  <1>6. ASSUME NEW w \in Workers, BeginBatch(w) PROVE AuthorityInv'
    <2>1. UNCHANGED <<authority, step, proof>> /\ authority # 0
      BY <1>6, VerifiedIsEnabled DEF BeginBatch
    <2>. QED BY <2>1, CalmAuthority
  <1>7. ASSUME NEW w \in Workers, PublisherDenied(w) PROVE AuthorityInv'
    <2>1. UNCHANGED <<authority, step, proof>> /\ \A v \in Workers : phase'[v] = "publish" => phase[v] = "publish"
      BY <1>0, <1>7 DEF PublisherDenied, EndBatch
    <2>. QED BY <2>1, CalmAuthority
  <1>8. ASSUME NEW w \in Workers, EndDelivery(w), UNCHANGED authority,
               \A v \in Workers : phase'[v] = "publish" => phase[v] = "publish"
        PROVE AuthorityInv'
    <2>1. step'[w] = "idle" /\ \A v \in Workers \ {w} : step'[v] = step[v] /\ proof'[v] = proof[v]
      BY <1>0, <1>8 DEF EndDelivery
    <2>2. \A v \in Workers : Lawful(v)  BY <2>1 DEF Lawful
    <2>. QED BY <1>8, <2>2, LawfulKeeps
  <1>9. ASSUME NEW w \in Workers, Crash(w) PROVE AuthorityInv'
    <2>1. EndDelivery(w) /\ UNCHANGED authority /\ \A v \in Workers : phase'[v] = "publish" => phase[v] = "publish"
      BY <1>0, <1>9 DEF Crash, EndBatch
    <2>. QED BY <1>8, <2>1
  <1>10. ASSUME NEW w \in Workers,
                \/ RejectSource(w) \/ UnknownType(w) \/ SyncCommitFails(w) \/ Unavailable(w) \/ DeliveryDenied(w)
                \/ CommitUnconfirmed(w) \/ Ack(w) \/ DeliveryFails(w)
         PROVE AuthorityInv'
    <2>1. EndDelivery(w) /\ UNCHANGED <<authority, phase>>
      BY <1>10 DEF RejectSource, UnknownType, SyncCommitFails, Unavailable, DeliveryDenied, CommitUnconfirmed, Ack,
            DeliveryFails
    <2>. QED BY <1>8, <2>1
  <1>11. ASSUME NEW w \in Workers, NEW m \in Positions, Receive(w, m) PROVE AuthorityInv'
    <2>1. /\ UNCHANGED <<authority, phase>> /\ step'[w] = "source" /\ proof'[w] = authority
          /\ \A v \in Workers \ {w} : step'[v] = step[v] /\ proof'[v] = proof[v]
      BY <1>0, <1>11 DEF Receive
    <2>2. authority # 0  BY <1>11, VerifiedIsEnabled DEF Receive
    <2>3. Lawful(w)  BY <2>1, <2>2 DEF Lawful
    <2>. QED BY <2>1, <2>3, OwnLawful
  <1>12. ASSUME NEW w \in Workers,
                VerifySource(w) \/ SyncDelivery(w) \/ AdmitDelivery(w) \/ AlreadyClaimed(w) \/ CommitSubscriber(w)
         PROVE AuthorityInv'
    <2>1. /\ UNCHANGED <<authority, phase, proof>> /\ step[w] # "idle" /\ step'[w] \in {"sync", "admit", "bind"}
          /\ \A v \in Workers \ {w} : step'[v] = step[v]
      BY <1>0, <1>12 DEF VerifySource, SyncDelivery, AdmitDelivery, AlreadyClaimed, CommitSubscriber, Served
    <2>2. Lawful(w)  BY <2>1 DEF Lawful, InTransaction, AuthorityInv, ProofInv
    <2>. QED BY <2>1, <2>2, OwnLawful
  <1>13. ASSUME NEW w \in Workers, Claim(w) \/ Handle(w) PROVE AuthorityInv'
    <2>1. /\ UNCHANGED <<authority, phase, proof>> /\ step[w] \in {"claim", "handle"} /\ step'[w] \in {"handle", "commit"}
          /\ \A v \in Workers \ {w} : step'[v] = step[v]
      BY <1>0, <1>13 DEF Claim, Handle
    <2>2. Lawful(w)  BY <2>1 DEF Lawful, AuthorityInv, AdmittedIsCurrent
    <2>. QED BY <2>1, <2>2, OwnLawful
  <1>14. ASSUME NEW w \in Workers, BindSubscriber(w) PROVE AuthorityInv'
    <2>1. PICK p \in {proof[w], credential[w]} : Admitted(w, p) /\ proof' = [proof EXCEPT ![w] = p]
      BY <1>14 DEF BindSubscriber
    <2>2. p # 0
      BY <1>14, <2>1 DEF BindSubscriber, AuthorityInv, ProofInv, TypeOK, ProcessTypeOK
    <2>3. /\ UNCHANGED <<authority, phase>> /\ step'[w] = "claim" /\ proof'[w] = authority
          /\ \A v \in Workers \ {w} : step'[v] = step[v] /\ proof'[v] = proof[v]
      BY <1>0, <1>14, <2>1 DEF BindSubscriber, Admitted
    <2>4. Lawful(w)  BY <2>1, <2>2, <2>3 DEF Lawful, Admitted
    <2>. QED BY <2>3, <2>4, OwnLawful
  <1>. QED
    BY <1>1, <1>2, <1>3, <1>4, <1>5, <1>6, <1>7, <1>9, <1>10, <1>11, <1>12, <1>13, <1>14
    DEF Next, PublisherStep, DeliveryStep, Failure

\* At the beginning no worker is in a transaction.
LEMMA AuthorityInit == Init => AuthorityInv
  BY DEF Init, AuthorityInv, ProofInv, AdmittedIsCurrent

-----------------------------------------------------------------------------
(* Whom a delivery has served: a step of one worker                         *)

\* A delivery that a step does not touch owes what it owed.
LEMMA UntouchedServed ==
    ASSUME TypeOK, StreamKept, inbox \subseteq inbox', obligations \subseteq obligations',
           NEW v \in Workers, ServedBy(v), bound[v] \subseteq bound'[v],
           step'[v] = step[v], msg'[v] = msg[v], left'[v] = left[v], owed'[v] = owed[v]
    PROVE  ServedBy(v)'
  <1>1. CASE Serving(v)
    <2>1. EventOf(v)' = EventOf(v)  BY <1>1, CurrentMessage DEF EventOf, StreamKept, Serving
    <2>. QED BY <1>1, <2>1 DEF ServedBy, Serving
  <1>2. CASE ~Serving(v)  BY <1>2 DEF ServedBy, Serving
  <1>. QED BY <1>1, <1>2

\* A step that touches one delivery.
LEMMA OwnServed ==
    ASSUME TypeOK, ServedInv, NEW w \in Workers, ServedBy(w)',
           StreamKept, inbox \subseteq inbox', obligations \subseteq obligations',
           \A v \in Workers \ {w} : /\ step'[v] = step[v] /\ msg'[v] = msg[v]
                                    /\ left'[v] = left[v] /\ owed'[v] = owed[v]
                                    /\ bound[v] \subseteq bound'[v]
    PROVE  ServedInv'
  <1>1. \A v \in Workers \ {w} : ServedBy(v)'  BY UntouchedServed DEF ServedInv
  <1>. QED BY <1>1 DEF ServedInv

\* A step that touches none.
LEMMA CalmServed ==
    ASSUME TypeOK, ServedInv, UNCHANGED <<step, msg, left, owed>>,
           StreamKept, inbox \subseteq inbox', obligations \subseteq obligations',
           \A v \in Workers : bound[v] \subseteq bound'[v]
    PROVE  ServedInv'
  BY UntouchedServed DEF ServedInv

\* Every step keeps account of whom a delivery has served.
LEMMA ServedStep ==
    ASSUME TypeOK, ServedInv, [Next]_vars
    PROVE  ServedInv'
  <1> USE DEF database, broker, process, delivery, publisher
  <1>0. /\ DOMAIN step = Workers /\ DOMAIN msg = Workers /\ DOMAIN left = Workers /\ DOMAIN owed = Workers
        /\ DOMAIN bound = Workers /\ DOMAIN sub = Workers
    BY DEF TypeOK, DeliveryTypeOK, ProcessTypeOK
  <1>1. CASE UNCHANGED vars
    <2>1. StreamKept  BY <1>1 DEF vars, StreamKept
    <2>. QED BY <1>1, <2>1, CalmServed DEF vars
  <1>2. ASSUME NEW e \in Events, CommitCommand(e) \/ Forge(e) PROVE ServedInv'
    <2>1. StreamKept  BY <1>2, AcceptKeeps DEF CommitCommand, Forge, StreamKept, TypeOK
    <2>. QED BY <1>2, <2>1, CalmServed DEF CommitCommand, Forge
  <1>3. CASE Rotate \/ Disable
    <2>1. StreamKept  BY <1>3 DEF Rotate, Disable, StreamKept
    <2>. QED BY <1>3, <2>1, CalmServed DEF Rotate, Disable
  <1>4. ASSUME NEW w \in Workers, Operator(w) PROVE ServedInv'
    <2>1. UNCHANGED <<stream, inbox, step, msg, left, owed>>
      BY <1>4 DEF Operator, Start, Deploy, CloseHandler, RemoveHandler, EnableHandler
    <2>2. obligations \subseteq obligations' /\ \A v \in Workers : bound[v] \subseteq bound'[v]
      BY <1>0, <1>4 DEF Operator, Start, Synchronize, Deploy, CloseHandler, RemoveHandler, EnableHandler
    <2>. QED BY <2>1, <2>2, CalmServed DEF StreamKept
  <1>5. ASSUME NEW w \in Workers,
               \/ PublisherSync(w) \/ BeginBatch(w) \/ Publish(w) \/ CommitBatch(w) \/ PublisherDenied(w)
               \/ PublishFails(w) \/ AbortCycle(w)
        PROVE ServedInv'
    <2>1. UNCHANGED <<inbox, step, msg, left, owed>>
      BY <1>5 DEF PublisherSync, BeginBatch, Publish, CommitBatch, PublisherDenied, PublishFails, AbortCycle
    <2>2. obligations \subseteq obligations' /\ \A v \in Workers : bound[v] \subseteq bound'[v]
      BY <1>0, <1>5 DEF PublisherSync, Synchronize, BeginBatch, Publish, CommitBatch, PublisherDenied, PublishFails, AbortCycle
    <2>3. StreamKept
      <3>1. CASE \E e \in Events : Accept(e, "genuine")  BY <3>1, AcceptKeeps DEF TypeOK
      <3>2. CASE UNCHANGED stream  BY <3>2 DEF StreamKept
      <3>. QED
        BY <1>5, <3>1, <3>2 DEF PublisherSync, BeginBatch, Publish, CommitBatch, PublisherDenied, PublishFails,
              AbortCycle, TypeOK, PublisherTypeOK
    <2>. QED BY <2>1, <2>2, <2>3, CalmServed
  <1>6. ASSUME NEW w \in Workers, EndDelivery(w), UNCHANGED stream, inbox \subseteq inbox', obligations \subseteq obligations',
               \A v \in Workers \ {w} : bound[v] \subseteq bound'[v]
        PROVE ServedInv'
    <2>1. /\ step'[w] = "idle" /\ owed'[w] = {}
          /\ \A v \in Workers \ {w} : step'[v] = step[v] /\ msg'[v] = msg[v] /\ left'[v] = left[v] /\ owed'[v] = owed[v]
      BY <1>0, <1>6 DEF EndDelivery
    <2>2. ServedBy(w)'  BY <2>1 DEF ServedBy, Serving
    <2>. QED BY <1>6, <2>1, <2>2, OwnServed DEF StreamKept
  <1>7. ASSUME NEW w \in Workers,
               \/ Crash(w) \/ RejectSource(w) \/ UnknownType(w) \/ SyncCommitFails(w) \/ Unavailable(w) \/ DeliveryDenied(w)
               \/ CommitUnconfirmed(w) \/ Ack(w) \/ DeliveryFails(w)
        PROVE ServedInv'
    <2>1. EndDelivery(w) /\ UNCHANGED <<stream, obligations>>
      BY <1>7 DEF Crash, RejectSource, UnknownType, SyncCommitFails, SynchronizeUncommitted, Unavailable, DeliveryDenied,
            CommitUnconfirmed, Ack, DeliveryFails
    <2>2. inbox \subseteq inbox' /\ \A v \in Workers \ {w} : bound[v] \subseteq bound'[v]
      BY <1>0, <1>7 DEF Crash, RejectSource, UnknownType, SyncCommitFails, SynchronizeUncommitted, Unavailable,
            DeliveryDenied, CommitUnconfirmed, Commit, Ack, DeliveryFails
    <2>. QED BY <1>6, <2>1, <2>2
  <1>8. ASSUME NEW w \in Workers, NEW m \in Positions, Receive(w, m) PROVE ServedInv'
    <2>1. /\ step'[w] = "source" /\ owed'[w] = obligations /\ UNCHANGED <<stream, inbox, obligations, bound>>
          /\ \A v \in Workers \ {w} : step'[v] = step[v] /\ msg'[v] = msg[v] /\ left'[v] = left[v] /\ owed'[v] = owed[v]
      BY <1>0, <1>8 DEF Receive
    <2>2. ServedBy(w)'  BY <2>1 DEF ServedBy, Serving
    <2>. QED BY <2>1, <2>2, OwnServed DEF StreamKept
  <1>9. ASSUME NEW w \in Workers, VerifySource(w) PROVE ServedInv'
    <2>1. /\ step'[w] = "sync" /\ UNCHANGED <<stream, inbox, obligations, bound, msg, left, owed>>
          /\ \A v \in Workers \ {w} : step'[v] = step[v]
      BY <1>0, <1>9 DEF VerifySource
    <2>2. ServedBy(w)'  BY <2>1 DEF ServedInv, ServedBy, Serving
    <2>. QED BY <2>1, <2>2, OwnServed DEF StreamKept
  <1>10. ASSUME NEW w \in Workers, SyncDelivery(w) PROVE ServedInv'
    <2>1. /\ step'[w] = "admit" /\ UNCHANGED <<stream, inbox, msg, left, owed>>
          /\ obligations \subseteq obligations' /\ obligations \subseteq bound'[w]
          /\ \A v \in Workers \ {w} : step'[v] = step[v] /\ bound'[v] = bound[v]
      BY <1>0, <1>10 DEF SyncDelivery, Synchronize
    <2>2. ServedBy(w)'  BY <2>1 DEF ServedInv, ServedBy, Serving
    <2>. QED BY <2>1, <2>2, OwnServed DEF StreamKept
  <1>11. ASSUME NEW w \in Workers, AdmitDelivery(w) PROVE ServedInv'
    <2>1. /\ step[w] = "admit" /\ step'[w] = "bind" /\ UNCHANGED <<stream, inbox, obligations, bound, msg, owed>>
          /\ left'[w] = open[w] /\ bound[w] \subseteq open[w]
          /\ \A v \in Workers \ {w} : step'[v] = step[v] /\ left'[v] = left[v]
      BY <1>0, <1>11 DEF AdmitDelivery, Obligated
    <2>2. ServedBy(w)'  BY <2>1 DEF ServedInv, ServedBy, Serving
    <2>. QED BY <2>1, <2>2, OwnServed DEF StreamKept
  <1>12. ASSUME NEW w \in Workers, BindSubscriber(w) \/ Claim(w) \/ Handle(w) PROVE ServedInv'
    <2>1. /\ step[w] \in {"bind", "claim", "handle"} /\ step'[w] \in {"claim", "handle", "commit"}
          /\ UNCHANGED <<stream, inbox, obligations, bound, msg, left, owed>>
          /\ \A v \in Workers \ {w} : step'[v] = step[v]
      BY <1>0, <1>12 DEF BindSubscriber, Claim, Handle
    <2>2. EventOf(w)' = EventOf(w)  BY <2>1 DEF EventOf
    <2>3. ServedBy(w)'  BY <2>1, <2>2 DEF ServedInv, ServedBy, Serving
    <2>. QED BY <2>1, <2>3, OwnServed DEF StreamKept
  <1>13. ASSUME NEW w \in Workers, AlreadyClaimed(w) \/ CommitSubscriber(w) PROVE ServedInv'
    <2>1. /\ step[w] \in {"claim", "commit"} /\ step'[w] = "bind" /\ left'[w] = left[w] \ {sub[w]}
          /\ UNCHANGED <<stream, obligations, bound, msg, owed>>
          /\ \A v \in Workers \ {w} : step'[v] = step[v] /\ left'[v] = left[v]
      BY <1>0, <1>13 DEF AlreadyClaimed, CommitSubscriber, Served
    <2>2. EventOf(w)' = EventOf(w)  BY <2>1 DEF EventOf
    <2>3. inbox \subseteq inbox' /\ <<sub[w], EventOf(w)>> \in inbox'
      BY <1>13 DEF AlreadyClaimed, CommitSubscriber, Commit
    <2>4. ServedBy(w)'  BY <2>1, <2>2, <2>3 DEF ServedInv, ServedBy, Serving
    <2>. QED BY <2>1, <2>3, <2>4, OwnServed DEF StreamKept
  <1>. QED
    BY <1>1, <1>2, <1>3, <1>4, <1>5, <1>7, <1>8, <1>9, <1>10, <1>11, <1>12, <1>13
    DEF Next, PublisherStep, DeliveryStep, Failure

\* At the beginning nothing is being delivered.
LEMMA ServedInit == Init => ServedInv
  BY DEF Init, ServedInv, ServedBy, Serving

\* For any number of workers, subscribers and failures, a worker acknowledges a
\* message only when everyone who was obliged when it was delivered has its
\* receipt (admit_delivery, consume).
THEOREM AckedAreServed == Spec => AckedWhenServed
  <1>. DEFINE Step == \A w \in Workers :
                (msg[w] \in acked' \ acked /\ step[w] # "idle" /\ step'[w] = "idle")
                    => \A s \in owed[w] : <<s, EventOf(w)>> \in inbox
  <1>1. TypeOK /\ ServedInv /\ [Next]_vars => [Step]_vars
    <2> USE DEF database, broker, process, delivery, publisher
    <2>1. SUFFICES ASSUME TypeOK, ServedInv, [Next]_vars, NEW w \in Workers,
                          msg[w] \in acked' \ acked, step[w] # "idle", step'[w] = "idle", NEW s \in owed[w]
                   PROVE  <<s, EventOf(w)>> \in inbox
      OBVIOUS
    <2>2. PICK v \in Workers : Ack(v)
      <3>1. acked' # acked  BY <2>1
      <3>2. \A e \in Events : ~CommitCommand(e) /\ ~Forge(e)  BY <3>1 DEF CommitCommand, Forge
      <3>3. ~Rotate /\ ~Disable /\ ~UNCHANGED vars  BY <3>1 DEF Rotate, Disable, vars
      <3>4. \A v \in Workers : ~PublisherStep(v)
        BY <3>1 DEF PublisherStep, PublisherSync, BeginBatch, Publish, CommitBatch, PublisherDenied
      <3>5. \A v \in Workers : ~Operator(v)
        BY <3>1 DEF Operator, Start, Deploy, CloseHandler, RemoveHandler, EnableHandler
      <3>6. \A v \in Workers : ~Failure(v)
        BY <3>1 DEF Failure, Crash, PublishFails, AbortCycle, SyncCommitFails, CommitUnconfirmed, DeliveryFails
      <3>7. \A v \in Workers, m \in Positions : ~Receive(v, m)  BY <3>1 DEF Receive
      <3>8. PICK v \in Workers : DeliveryStep(v)
        BY <2>1, <3>2, <3>3, <3>4, <3>5, <3>6, <3>7 DEF Next
      <3>. QED
        BY <3>1, <3>8 DEF DeliveryStep, VerifySource, RejectSource, UnknownType, SyncDelivery, AdmitDelivery, Unavailable,
              BindSubscriber, DeliveryDenied, Claim, AlreadyClaimed, Handle, CommitSubscriber
    <2>3. v = w  BY <2>1, <2>2 DEF Ack, EndDelivery, TypeOK, DeliveryTypeOK
    <2>4. step[w] = "bind" /\ left[w] = {}  BY <2>2, <2>3 DEF Ack
    <2>. QED BY <2>1, <2>4 DEF ServedInv, ServedBy, Serving
  <1>2. AckedWhenServed <=> [][Step]_vars  BY DEF AckedWhenServed
  <1>3. Init => TypeOK /\ ServedInv  BY TypeInit, ServedInit
  <1>4. TypeOK /\ ServedInv /\ [Next]_vars => TypeOK' /\ ServedInv'  BY TypeStep, ServedStep
  <1>. HIDE DEF Step
  <1>. QED BY <1>1, <1>2, <1>3, <1>4, PTL DEF Spec

-----------------------------------------------------------------------------
(* Batches and copies: a step                                               *)

\* The copies of an event are finitely many.
LEMMA CopiesFinite ==
    ASSUME TypeOK, NEW e
    PROVE  IsFiniteSet(Copies(e)) /\ Cardinality(Copies(e)) \in Nat
  <1>1. Len(stream) \in Int  BY StreamLength
  <1>2. IsFiniteSet(1 .. Len(stream))  BY <1>1, FS_Interval
  <1>3. Copies(e) \subseteq 1 .. Len(stream)  BY DEF Copies
  <1>. QED BY <1>2, <1>3, FS_Subset, FS_CardinalityType

\* A message that the broker accepts is one copy more of its event.
LEMMA AcceptCopies ==
    ASSUME TypeOK, NEW e \in Events, NEW k \in {"genuine", "forged"}, Accept(e, k)
    PROVE  /\ Cardinality(Copies(e)') = Cardinality(Copies(e)) + 1
           /\ \A f : f # e => Copies(f)' = Copies(f)
  <1>. DEFINE x == [event |-> e, kind |-> k]
              n == Len(stream) + 1
  <1>1. x \in Message /\ x.event = e  BY DEF Message
  <1>2. stream' = Append(stream, x) /\ stream \in Seq(Message)  BY StreamLength DEF Accept
  <1>3. /\ Len(stream') = n /\ Len(stream) \in Nat /\ stream'[n] = x
        /\ \A m \in 1..Len(stream) : stream'[m] = stream[m]
    <2>. HIDE DEF x
    <2>. QED BY <1>1, <1>2, AppendFacts
  <1>4. 1 .. n = (1 .. Len(stream)) \cup {n} /\ n \notin 1 .. Len(stream)  BY <1>3
  <1>. HIDE DEF x, n
  <1>5. Copies(e)' = Copies(e) \cup {n}  BY <1>1, <1>3, <1>4 DEF Copies
  <1>6. \A f : f # e => Copies(f)' = Copies(f)  BY <1>1, <1>3, <1>4 DEF Copies
  <1>7. n \notin Copies(e)  BY <1>4 DEF Copies
  <1>8. Cardinality(Copies(e) \cup {n}) = Cardinality(Copies(e)) + 1
    BY <1>7, CopiesFinite, FS_AddElement
  <1>. QED BY <1>5, <1>6, <1>8

\* Steps that leave the stream and the failures alone and unmark no event.
LEMMA CalmCopies ==
    ASSUME TypeOK, CopiesInv, UNCHANGED <<stream, faults>>, \A e \in Events : Marked(e) => Marked(e)'
    PROVE  CopiesInv'
  <1>1. ASSUME NEW e \in Events
        PROVE  Cardinality(Copies(e)') <= faults + (IF Marked(e)' THEN 1 ELSE 0)
    <2>5. Copies(e)' = Copies(e)  BY DEF Copies
    <2>6. Cardinality(Copies(e)) \in Nat /\ faults \in Nat
      BY CopiesFinite, BoundsAssumption DEF TypeOK, PublisherTypeOK
    <2>1. Copies(e)' = Copies(e) /\ Cardinality(Copies(e)) \in Nat /\ faults \in Nat
      BY <2>5, <2>6
    <2>2. Cardinality(Copies(e)) <= faults + (IF Marked(e) THEN 1 ELSE 0) /\ (Marked(e) => Marked(e)')
      BY DEF CopiesInv
    <2>3. CASE Marked(e)  BY <2>1, <2>2, <2>3
    <2>4. CASE ~Marked(e)  BY <2>1, <2>2, <2>4
    <2>. QED BY <2>3, <2>4
  <1>. QED BY <1>1 DEF CopiesInv

\* A failure pays for the events that it unmarks, and for one more message.
LEMMA FaultyCopies ==
    ASSUME TypeOK, CopiesInv, faults' = faults + 1,
           \/ UNCHANGED stream
           \/ /\ \E e \in Events, k \in {"genuine", "forged"} : Accept(e, k)
              /\ \A e \in Events : Marked(e) => Marked(e)'
    PROVE  CopiesInv'
  <1>1. ASSUME NEW e \in Events
        PROVE  Cardinality(Copies(e)') <= faults + 1 + (IF Marked(e)' THEN 1 ELSE 0)
    <2>1. Cardinality(Copies(e)) \in Nat /\ faults \in Nat
      BY CopiesFinite, BoundsAssumption DEF TypeOK, PublisherTypeOK
    <2>2. Cardinality(Copies(e)) <= faults + (IF Marked(e) THEN 1 ELSE 0)  BY DEF CopiesInv
    <2>3. CASE UNCHANGED stream
      <3>1. Copies(e)' = Copies(e)  BY <2>3 DEF Copies
      <3>2. Cardinality(Copies(e)) <= faults + 1  BY <2>1, <2>2
      <3>. QED BY <2>1, <3>1, <3>2
    <2>4. CASE ~UNCHANGED stream
      <3>1. PICK f \in Events, k \in {"genuine", "forged"} : Accept(f, k)  BY <2>4
      <3>2. Marked(e) => Marked(e)'  BY <2>4
      <3>3. Cardinality(Copies(e)') \in {Cardinality(Copies(e)), Cardinality(Copies(e)) + 1}
        BY <3>1, AcceptCopies
      <3>4. CASE Marked(e)  BY <2>1, <2>2, <3>2, <3>3, <3>4
      <3>5. CASE ~Marked(e)  BY <2>1, <2>2, <3>3, <3>5
      <3>. QED BY <3>4, <3>5
    <2>. QED BY <2>3, <2>4
  <1>. QED BY <1>1 DEF CopiesInv

\* Steps that touch no batch and unpend no row.
LEMMA CalmRows ==
    ASSUME RowsInv, UNCHANGED <<locked, unsent, sent>>,
           \A w \in Workers : \A e \in locked[w] : outbox'[e] = outbox[e],
           \A w \in Workers : phase'[w] # "publish" => phase[w] # "publish"
    PROVE  RowsInv'
  BY DEF RowsInv

\* A batch that ends is empty.
LEMMA EndRows ==
    ASSUME TypeOK, RowsInv, NEW w \in Workers, EndBatch(w),
           \A v \in Workers \ {w} : \A e \in locked[v] : outbox'[e] = outbox[e]
    PROVE  RowsInv'
  <1>1. /\ locked'[w] = {} /\ unsent'[w] = {} /\ sent'[w] = {}
        /\ \A v \in Workers \ {w} : /\ locked'[v] = locked[v] /\ unsent'[v] = unsent[v] /\ sent'[v] = sent[v]
                                    /\ phase'[v] = phase[v]
    BY DEF EndBatch, TypeOK, PublisherTypeOK
  <1>. QED BY <1>1 DEF RowsInv

\* Every step keeps batches apart and every copy paid for.
LEMMA CopiesStep ==
    ASSUME TypeOK, RowsInv, CopiesInv, [Next]_vars
    PROVE  RowsInv' /\ CopiesInv'
  <1> USE DEF database, broker, process, delivery, publisher
  <1>0. /\ DOMAIN locked = Workers /\ DOMAIN unsent = Workers /\ DOMAIN sent = Workers /\ DOMAIN phase = Workers
        /\ DOMAIN outbox = Events
        /\ \A w \in Workers : locked[w] \subseteq Events /\ sent[w] \subseteq Events /\ unsent[w] \subseteq Events
    BY DEF TypeOK, PublisherTypeOK, DatabaseTypeOK
  <1>1. CASE UNCHANGED <<stream, faults, outbox, locked, unsent, sent>> /\ \A w \in Workers : phase'[w] # "publish" => phase[w] # "publish"
    <2>1. \A e \in Events : Marked(e) => Marked(e)'  BY <1>1 DEF Marked
    <2>. QED BY <1>1, <2>1, CalmCopies, CalmRows
  <1>2. ASSUME NEW e \in Events, CommitCommand(e) PROVE RowsInv' /\ CopiesInv'
    <2>1. UNCHANGED <<stream, faults, locked, unsent, sent, phase>> /\ outbox[e] = "none"
          /\ \A f \in Events : f # e => outbox'[f] = outbox[f]
      BY <1>0, <1>2 DEF CommitCommand
    <2>2. \A f \in Events : Marked(f) => Marked(f)'  BY <2>1 DEF Marked
    <2>3. \A w \in Workers : \A f \in locked[w] : outbox'[f] = outbox[f]
      BY <1>0, <2>1 DEF RowsInv
    <2>. QED BY <2>1, <2>2, <2>3, CalmCopies, CalmRows
  <1>3. ASSUME NEW e \in Events, Forge(e) PROVE RowsInv' /\ CopiesInv'
    <2>1. UNCHANGED <<outbox, locked, unsent, sent, phase>> /\ faults' = faults + 1 /\ Accept(e, "forged")
      BY <1>3 DEF Forge, Faulty
    <2>2. \A f \in Events : Marked(f) => Marked(f)'  BY <2>1 DEF Marked
    <2>. QED BY <2>1, <2>2, FaultyCopies, CalmRows
  <1>4. CASE Disable
    <2>1. UNCHANGED <<outbox, stream, locked, unsent, sent, phase>> /\ faults' = faults + 1
      BY <1>4 DEF Disable, Faulty
    <2>. QED BY <2>1, FaultyCopies, CalmRows
  <1>5. ASSUME NEW w \in Workers, NEW s \in Subscribers, CloseHandler(w, s) PROVE RowsInv' /\ CopiesInv'
    <2>1. UNCHANGED <<outbox, stream, locked, unsent, sent, phase>> /\ faults' = faults + 1
      BY <1>5 DEF CloseHandler, Faulty
    <2>. QED BY <2>1, FaultyCopies, CalmRows
  <1>6. ASSUME NEW w \in Workers, PublisherSync(w) PROVE RowsInv' /\ CopiesInv'
    <2>1. /\ UNCHANGED <<stream, faults, outbox, locked, unsent, sent>> /\ phase[w] = "idle"
          /\ \A v \in Workers : v # w => phase'[v] = phase[v]
      BY <1>0, <1>6 DEF PublisherSync
    <2>. QED BY <1>1, <2>1
  <1>7. ASSUME NEW w \in Workers, BeginBatch(w) PROVE RowsInv' /\ CopiesInv'
    <2>1. PICK B \in SUBSET Events : Batch(B) /\ locked' = [locked EXCEPT ![w] = B] /\ unsent' = [unsent EXCEPT ![w] = B]
      BY <1>7 DEF BeginBatch
    <2>2. \A e \in B : outbox[e] = "pending" /\ \A v \in Workers : e \notin locked[v]
      BY <2>1 DEF Batch
    <2>3. UNCHANGED <<stream, faults, outbox, sent>> /\ phase[w] = "ready" /\ phase'[w] = "publish"
          /\ \A v \in Workers : v # w => phase'[v] = phase[v]
      BY <1>0, <1>7 DEF BeginBatch
    <2>4. sent[w] = {}  BY <2>3 DEF RowsInv
    <2>5. locked'[w] = B /\ unsent'[w] = B /\ \A v \in Workers : v # w => locked'[v] = locked[v] /\ unsent'[v] = unsent[v]
      BY <1>0, <2>1
    <2>6. RowsInv'
      <3>1. ASSUME NEW v \in Workers
            PROVE  /\ sent'[v] \subseteq locked'[v] /\ unsent'[v] \subseteq locked'[v] /\ sent'[v] \cap unsent'[v] = {}
                   /\ \A e \in locked'[v] : outbox'[e] = "pending"
                   /\ phase'[v] # "publish" => locked'[v] = {}
        BY <2>2, <2>3, <2>4, <2>5 DEF RowsInv
      <3>2. ASSUME NEW u \in Workers, NEW v \in Workers, u # v
            PROVE  locked'[u] \cap locked'[v] = {}
        BY <2>2, <2>5, <3>2 DEF RowsInv
      <3>. QED BY <3>1, <3>2 DEF RowsInv
    <2>7. \A e \in Events : Marked(e) => Marked(e)'  BY <2>3 DEF Marked
    <2>. QED BY <2>3, <2>6, <2>7, CalmCopies
  <1>8. ASSUME NEW w \in Workers, Publish(w) PROVE RowsInv' /\ CopiesInv'
    <2>1. PICK e \in unsent[w] : /\ Accept(e, "genuine")
                                 /\ unsent' = [unsent EXCEPT ![w] = @ \ {e}]
                                 /\ sent' = [sent EXCEPT ![w] = @ \cup {e}]
      BY <1>8 DEF Publish
    <2>2. UNCHANGED <<faults, outbox, locked, phase>> /\ e \in Events
      BY <1>0, <1>8 DEF Publish
    <2>3. /\ unsent'[w] = unsent[w] \ {e} /\ sent'[w] = sent[w] \cup {e}
          /\ \A v \in Workers : v # w => unsent'[v] = unsent[v] /\ sent'[v] = sent[v]
      BY <1>0, <2>1
    <2>4. e \in locked[w]  BY DEF RowsInv
    <2>5. RowsInv'  BY <2>1, <2>2, <2>3, <2>4 DEF RowsInv
    <2>6. ~Marked(e)
      <3>1. outbox[e] = "pending"  BY <2>4 DEF RowsInv
      <3>2. \A v \in Workers : e \notin sent[v]  BY <2>1, <2>4 DEF RowsInv
      <3>. QED BY <3>1, <3>2 DEF Marked
    <2>7. Marked(e)'  BY <2>3 DEF Marked
    <2>8. \A f \in Events : Marked(f) => Marked(f)'  BY <2>2, <2>3 DEF Marked
    <2>9. CopiesInv'
      <3>1. ASSUME NEW f \in Events
            PROVE  Cardinality(Copies(f)') <= faults + (IF Marked(f)' THEN 1 ELSE 0)
        <4>1. Cardinality(Copies(f)) \in Nat /\ faults \in Nat
          BY CopiesFinite, BoundsAssumption DEF TypeOK, PublisherTypeOK
        <4>2. Cardinality(Copies(f)) <= faults + (IF Marked(f) THEN 1 ELSE 0)
          BY DEF CopiesInv
        <4>3. CASE f = e
          <5>1. Cardinality(Copies(f)') = Cardinality(Copies(f)) + 1
            BY <2>1, <2>2, <4>3, AcceptCopies
          <5>2. Cardinality(Copies(f)) <= faults  BY <2>6, <4>1, <4>2, <4>3
          <5>. QED BY <2>7, <4>1, <4>3, <5>1, <5>2
        <4>4. CASE f # e
          <5>1. Copies(f)' = Copies(f)  BY <2>1, <2>2, <4>4, AcceptCopies
          <5>2. CASE Marked(f)  BY <2>8, <4>2, <5>1, <5>2
          <5>3. CASE ~Marked(f)  BY <4>1, <4>2, <5>1, <5>3
          <5>. QED BY <5>2, <5>3
        <4>. QED BY <4>3, <4>4
      <3>. QED BY <2>2, <3>1 DEF CopiesInv
    <2>. QED BY <2>5, <2>9
  <1>9. ASSUME NEW w \in Workers, PublishFails(w) PROVE RowsInv' /\ CopiesInv'
    <2>1. PICK e \in unsent[w] : /\ Accept(e, "genuine") \/ UNCHANGED stream
                                 /\ unsent' = [unsent EXCEPT ![w] = @ \ {e}]
      BY <1>9 DEF PublishFails
    <2>2. UNCHANGED <<outbox, locked, sent, phase>> /\ e \in Events /\ faults' = faults + 1
      BY <1>0, <1>9 DEF PublishFails, Faulty
    <2>3. unsent'[w] = unsent[w] \ {e} /\ \A v \in Workers : v # w => unsent'[v] = unsent[v]
      BY <1>0, <2>1
    <2>4. RowsInv'  BY <2>2, <2>3 DEF RowsInv
    <2>5. \A f \in Events : Marked(f) => Marked(f)'  BY <2>2 DEF Marked
    <2>. QED BY <2>1, <2>2, <2>4, <2>5, FaultyCopies
  <1>10. ASSUME NEW w \in Workers, CommitBatch(w) PROVE RowsInv' /\ CopiesInv'
    <2>1. /\ EndBatch(w) /\ UNCHANGED <<stream, faults>>
          /\ \A e \in Events : outbox'[e] = IF e \in sent[w] THEN "published" ELSE outbox[e]
      BY <1>10 DEF CommitBatch
    <2>2. \A v \in Workers \ {w} : \A e \in locked[v] : outbox'[e] = outbox[e]
      BY <1>0, <2>1 DEF RowsInv
    <2>3. \A v \in Workers : v # w => sent'[v] = sent[v]  BY <1>0, <2>1 DEF EndBatch
    <2>4. \A e \in Events : Marked(e) => Marked(e)'  BY <2>1, <2>3 DEF Marked
    <2>. QED BY <2>1, <2>2, <2>4, EndRows, CalmCopies
  <1>11. ASSUME NEW w \in Workers, AbortCycle(w) \/ Crash(w) PROVE RowsInv' /\ CopiesInv'
    <2>1. EndBatch(w) /\ UNCHANGED <<outbox, stream>> /\ faults' = faults + 1
      BY <1>11 DEF AbortCycle, Crash, Faulty
    <2>. QED BY <2>1, EndRows, FaultyCopies
  <1>12. ASSUME NEW w \in Workers, PublisherDenied(w) PROVE RowsInv' /\ CopiesInv'
    <2>1. EndBatch(w) /\ UNCHANGED <<outbox, stream, faults>> /\ phase[w] # "publish"
      BY <1>12 DEF PublisherDenied
    <2>2. sent[w] = {} /\ \A v \in Workers : v # w => sent'[v] = sent[v]
      BY <1>0, <2>1 DEF RowsInv, EndBatch
    <2>3. \A e \in Events : Marked(e) => Marked(e)'  BY <2>1, <2>2 DEF Marked
    <2>. QED BY <2>1, <2>3, EndRows, CalmCopies
  <1>13. ASSUME NEW w \in Workers, SyncCommitFails(w) \/ CommitUnconfirmed(w) \/ DeliveryFails(w)
         PROVE RowsInv' /\ CopiesInv'
    <2>1. UNCHANGED <<outbox, stream, locked, unsent, sent, phase>> /\ faults' = faults + 1
      BY <1>13 DEF SyncCommitFails, CommitUnconfirmed, DeliveryFails, Faulty
    <2>. QED BY <2>1, FaultyCopies, CalmRows
  <1>14. CASE UNCHANGED vars \/ Rotate  BY <1>1, <1>14 DEF vars, Rotate
  <1>15. ASSUME NEW w \in Workers,
                \/ Start(w) \/ Deploy(w) \/ \E s \in Subscribers : RemoveHandler(w, s) \/ EnableHandler(w, s)
                \/ DeliveryStep(w)
                \/ \E m \in Positions : Receive(w, m)
         PROVE RowsInv' /\ CopiesInv'
    <2>1. UNCHANGED <<stream, faults, outbox, locked, unsent, sent, phase>>
      BY <1>15 DEF Start, Deploy, RemoveHandler, EnableHandler, Receive,
            DeliveryStep, VerifySource, RejectSource, UnknownType, SyncDelivery, AdmitDelivery, Unavailable,
            BindSubscriber, DeliveryDenied, Claim, AlreadyClaimed, Handle, CommitSubscriber, Ack
    <2>. QED BY <1>1, <2>1
  <1>. QED
    BY <1>2, <1>3, <1>4, <1>5, <1>6, <1>7, <1>8, <1>9, <1>10, <1>11, <1>12, <1>13, <1>14, <1>15
    DEF Next, PublisherStep, Failure, Operator

\* At the beginning there is neither a batch nor a message.
LEMMA CopiesInit == Init => RowsInv /\ CopiesInv
  <1>1. SUFFICES ASSUME Init PROVE RowsInv /\ CopiesInv  OBVIOUS
  <1>2. \A e : Copies(e) = {}  BY <1>1 DEF Init, Copies
  <1>3. CopiesInv
    <2>1. faults = 0  BY <1>1 DEF Init
    <2>2. ASSUME NEW e \in Events PROVE Cardinality(Copies(e)) = 0  BY <1>2, FS_EmptySet
    <2>. QED BY <2>1, <2>2 DEF CopiesInv
  <1>. QED BY <1>1, <1>3 DEF Init, RowsInv

\* For any number of workers and failures: every message beyond the first of an
\* event has cost a failure, and every transaction of a worker runs under the
\* authority as it is (publish_batch, _lock_current).
THEOREM OnceAndCurrent == Spec => []CurrentAndOnce
  <1>1. TypeOK /\ CopiesInv => NoNeedlessDuplicates
    <2>1. SUFFICES ASSUME TypeOK, CopiesInv, NEW e \in Events
                   PROVE  Cardinality(Copies(e)) <= 1 + faults
      BY DEF NoNeedlessDuplicates, Copies
    <2>2. Cardinality(Copies(e)) \in Nat /\ faults \in Nat
      BY <2>1, CopiesFinite, BoundsAssumption DEF TypeOK, PublisherTypeOK
    <2>3. Cardinality(Copies(e)) <= faults + (IF Marked(e) THEN 1 ELSE 0)
      BY <2>1 DEF CopiesInv
    <2>. QED BY <2>2, <2>3
  <1>2. TypeOK /\ CopiesInv /\ AuthorityInv => CurrentAndOnce
    BY <1>1 DEF CurrentAndOnce, AuthorityInv
  <1>3. Init => TypeOK /\ RowsInv /\ CopiesInv /\ AuthorityInv
    BY TypeInit, CopiesInit, AuthorityInit
  <1>4. TypeOK /\ RowsInv /\ CopiesInv /\ AuthorityInv /\ [Next]_vars
            => TypeOK' /\ RowsInv' /\ CopiesInv' /\ AuthorityInv'
    BY TypeStep, CopiesStep, AuthorityStep
  <1>. QED BY <1>2, <1>3, <1>4, PTL DEF Spec

=============================================================================
