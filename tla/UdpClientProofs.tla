-------------------------- MODULE UdpClientProofs --------------------------
(***************************************************************************)
(* Proofs about UdpClient for every set of senders and every bound: its    *)
(* type invariant, that no call of send() is missed by the worker, what is *)
(* still taken after stop(), and that it implements Channel.               *)
(***************************************************************************)
EXTENDS UdpClient, IoContextLemmas

(* The types, but for run_, with the bound that a sender holds while it    *)
(* has the mutex; before start() there is no worker.                       *)
Shape ==
  /\ mtx_ \in Senders \cup {"worker", "free"}
  /\ mtx_ = "worker" <=> worker \in Holding
  /\ msg_queue_ \in Seq(Messages)
  /\ worker \in WorkerStates
  /\ hand \in Messages \cup {None}
  /\ caller \in {"new", "started", "cleared", "notified", "joined"}
  /\ queued \in 0..MaxSends
  /\ sent \in Seq(1..MaxSends)
  /\ late \in Nat
  /\ mtx_ \in Senders => queued < MaxSends
  /\ caller = "new" => worker = "none"

(* Once the worker has taken a message after run_ was cleared it is not at *)
(* the queue again.                                                        *)
Stopping ==
  /\ caller = "new" => late = 0
  /\ late # 0 => ~run_ /\ worker # "take"
  /\ late <= 1

(* The worker comes to the queue with an empty hand.                       *)
EmptyHanded ==
  worker \in {"test", "block", "waiting", "woken", "awake", "take"} => hand = None

(* The messages are queued in the order of send(), and the one that the    *)
(* worker holds is older than all of them.                                 *)
InLine ==
  /\ \A i, j \in DOMAIN msg_queue_ : i < j => msg_queue_[i].id < msg_queue_[j].id
  /\ \A i \in DOMAIN msg_queue_ : msg_queue_[i].id <= queued
  /\ \A m \in InHand : m <= queued
  /\ \A m \in InHand, i \in DOMAIN msg_queue_ : m < msg_queue_[i].id

IInv ==
  run_ \in BOOLEAN /\ Shape /\ NoLostWakeup /\ Stopping /\ EmptyHanded /\ InLine

-----------------------------------------------------------------------------
(* run_ is Boolean: only start() and stop() assign it.                     *)
LEMMA BooleanStep == run_ \in BOOLEAN /\ [Next]_vars => run_' \in BOOLEAN
<1> SUFFICES ASSUME run_ \in BOOLEAN, [Next]_vars
             PROVE  run_' \in BOOLEAN
  OBVIOUS
<1>1. CASE start
  <2>1. run_' = TRUE
    BY <1>1 DEF start
  <2> QED
    BY <2>1, Zenon
<1>2. CASE StopClears
  <2>1. run_' = FALSE
    BY <1>2 DEF StopClears
  <2> QED
    BY <2>1, Zenon
<1>3. CASE UNCHANGED run_
  BY <1>3
<1> QED
  BY <1>1, <1>2, <1>3 DEF Next, stop, StopNotifies, StopJoins, send, SendLocks,
     SendQueues, Worker, WorkerLocks, WorkerTests, WorkerBlocks, WorkerAwakes,
     WorkerTakes, WorkerDelivers, SpuriousWakeup, vars

(* Every step keeps the types, one proof step per action.                  *)
LEMMA ShapeStep == Shape /\ [Next]_vars => Shape'
<1> SUFFICES ASSUME Shape, [Next]_vars
             PROVE  Shape'
  OBVIOUS
<1> USE MaxSendsAssumption, SendersAssumption DEF Shape, Holding, WorkerStates
<1>1. CASE start
  BY <1>1 DEF start
<1>2. CASE StopClears
  BY <1>2 DEF StopClears
<1>3. CASE StopNotifies
  BY <1>3 DEF StopNotifies, Notify
<1>4. CASE StopJoins
  BY <1>4 DEF StopJoins
<1>5. ASSUME NEW s \in Senders, SendLocks(s)
      PROVE  Shape'
  BY <1>5 DEF SendLocks
<1>6. ASSUME NEW s \in Senders, SendQueues(s)
      PROVE  Shape'
  <2>1. PICK empty \in BOOLEAN :
          msg_queue_' = Append(msg_queue_, [id |-> queued + 1, empty |-> empty])
    BY <1>6 DEF SendQueues
  <2>2. queued + 1 \in 1..MaxSends /\ mtx_ = s /\ mtx_' = "free" /\ queued' = queued + 1
    BY <1>6 DEF SendQueues
  <2>3. [id |-> queued + 1, empty |-> empty] \in Messages
    BY <2>2 DEF Messages
  <2>4. msg_queue_' \in Seq(Messages)
    BY <2>1, <2>3
  <2> QED
    BY <1>6, <2>2, <2>4 DEF SendQueues, Notify
<1>7. CASE WorkerLocks
  BY <1>7 DEF WorkerLocks
<1>8. CASE WorkerTests
  BY <1>8 DEF WorkerTests
<1>9. CASE WorkerBlocks
  BY <1>9 DEF WorkerBlocks
<1>10. CASE SpuriousWakeup
  BY <1>10 DEF SpuriousWakeup
<1>11. CASE WorkerAwakes
  BY <1>11 DEF WorkerAwakes
<1>12. CASE WorkerTakes
  <2>1. /\ worker = "take" /\ worker' = "deliver" /\ mtx_' = "free"
        /\ UNCHANGED <<caller, queued, sent>>
    BY <1>12 DEF WorkerTakes
  <2>2. hand' \in Messages \cup {None} /\ msg_queue_' \in Seq(Messages) /\ late' \in Nat
    <3>1. CASE msg_queue_ # <<>>
      <4>1. hand' = Head(msg_queue_) /\ msg_queue_' = Tail(msg_queue_)
        BY <1>12, <3>1 DEF WorkerTakes
      <4>2. late' = late \/ late' = late + 1
        BY <1>12, <3>1 DEF WorkerTakes
      <4> QED
        BY <3>1, <4>1, <4>2
    <3>2. CASE msg_queue_ = <<>>
      BY <1>12, <3>2 DEF WorkerTakes
    <3> QED
      BY <3>1, <3>2
  <2> QED
    BY <2>1, <2>2
<1>13. CASE WorkerDelivers
  <2>1. ~hand.empty => hand.id \in 1..MaxSends
    BY DEF Messages, None
  <2>2. sent' \in Seq(1..MaxSends)
    <3>1. sent' = sent \/ (~hand.empty /\ sent' = Append(sent, hand.id))
      BY <1>13 DEF WorkerDelivers
    <3>2. \A S : \A q \in Seq(S), x \in S : Append(q, x) \in Seq(S)
      OBVIOUS
    <3>3. ~hand.empty => Append(sent, hand.id) \in Seq(1..MaxSends)
      BY <2>1, <3>2
    <3> QED
      BY <3>1, <3>3
  <2> QED
    BY <1>13, <2>2 DEF WorkerDelivers
<1>14. CASE UNCHANGED vars
  BY <1>14 DEF vars
<1> QED
  BY <1>1, <1>2, <1>3, <1>4, <1>5, <1>6, <1>7, <1>8, <1>9, <1>10, <1>11, <1>12,
     <1>13, <1>14 DEF Next, stop, send, Worker

(* A message is queued under the mutex, so never while the worker is       *)
(* between its test and the wait set, and a worker in the wait set is      *)
(* woken.                                                                  *)
LEMMA WakeupStep == Shape /\ NoLostWakeup /\ [Next]_vars => NoLostWakeup'
<1> SUFFICES ASSUME Shape, NoLostWakeup, [Next]_vars
             PROVE  NoLostWakeup'
  OBVIOUS
<1> USE SendersAssumption DEF Shape, NoLostWakeup, Holding
<1>1. CASE start \/ stop \/ SpuriousWakeup \/ UNCHANGED vars
  BY <1>1 DEF start, stop, StopClears, StopNotifies, StopJoins, Notify,
     SpuriousWakeup, vars
<1>2. ASSUME NEW s \in Senders, send(s)
      PROVE  NoLostWakeup'
  BY <1>2 DEF send, SendLocks, SendQueues, Notify
<1>3. CASE Worker
  BY <1>3 DEF Worker, WorkerLocks, WorkerTests, WorkerBlocks, WorkerAwakes,
     WorkerTakes, WorkerDelivers
<1> QED
  BY <1>1, <1>2, <1>3 DEF Next

(* After run_ is cleared only a worker that has already tested it takes a  *)
(* message.                                                                *)
LEMMA StoppingStep == Shape /\ Stopping /\ [Next]_vars => Stopping'
<1> SUFFICES ASSUME Shape, Stopping, [Next]_vars
             PROVE  Stopping'
  OBVIOUS
<1> USE DEF Shape, Stopping
<1>1. CASE start \/ stop \/ SpuriousWakeup \/ UNCHANGED vars
  BY <1>1 DEF start, stop, StopClears, StopNotifies, StopJoins, Notify,
     SpuriousWakeup, vars
<1>2. ASSUME NEW s \in Senders, send(s)
      PROVE  Stopping'
  BY <1>2 DEF send, SendLocks, SendQueues, Notify
<1>3. CASE WorkerLocks \/ WorkerTests \/ WorkerBlocks \/ WorkerAwakes \/ WorkerDelivers
  BY <1>3 DEF WorkerLocks, WorkerTests, WorkerBlocks, WorkerAwakes, WorkerDelivers
<1>4. CASE WorkerTakes
  BY <1>4 DEF WorkerTakes
<1> QED
  BY <1>1, <1>2, <1>3, <1>4 DEF Next, Worker

(* Locking empties the hand, and only taking a message fills it.           *)
LEMMA EmptyHandedStep == EmptyHanded /\ [Next]_vars => EmptyHanded'
<1> SUFFICES ASSUME EmptyHanded, [Next]_vars
             PROVE  EmptyHanded'
  OBVIOUS
<1> USE DEF EmptyHanded
<1>1. CASE start \/ stop \/ SpuriousWakeup \/ UNCHANGED vars
  BY <1>1 DEF start, stop, StopClears, StopNotifies, StopJoins, Notify,
     SpuriousWakeup, vars
<1>2. ASSUME NEW s \in Senders, send(s)
      PROVE  EmptyHanded'
  BY <1>2 DEF send, SendLocks, SendQueues, Notify
<1>3. CASE Worker
  BY <1>3 DEF Worker, WorkerLocks, WorkerTests, WorkerBlocks, WorkerAwakes,
     WorkerTakes, WorkerDelivers
<1> QED
  BY <1>1, <1>2, <1>3 DEF Next

-----------------------------------------------------------------------------
(* The order of the messages.                                              *)

(* The places of a queue with one message more, and with one less.         *)
LEMMA QueuePlaces ==
  ASSUME NEW q \in Seq(Messages)
  PROVE  /\ DOMAIN q = 1..Len(q) /\ Len(q) \in Nat
         /\ \A i \in DOMAIN q : q[i].id \in Nat
         /\ \A m \in Messages :
              /\ DOMAIN Append(q, m) = 1..(Len(q) + 1)
              /\ \A i \in 1..Len(q) : Append(q, m)[i] = q[i]
              /\ Append(q, m)[Len(q) + 1] = m
         /\ q # <<>> =>
              /\ Len(q) >= 1 /\ Head(q) = q[1]
              /\ DOMAIN Tail(q) = 1..(Len(q) - 1)
              /\ \A i \in 1..(Len(q) - 1) : Tail(q)[i] = q[i + 1]
<1>1. DOMAIN q = 1..Len(q) /\ Len(q) \in Nat
  OBVIOUS
<1>2. \A i \in DOMAIN q : q[i].id \in Nat
  <2>1. \A i \in DOMAIN q : q[i] \in Messages
    BY <1>1
  <2>2. \A m \in Messages : m.id \in Nat
    BY MaxSendsAssumption DEF Messages
  <2> QED
    BY <2>1, <2>2, Zenon
<1>3. ASSUME NEW m \in Messages
      PROVE  /\ DOMAIN Append(q, m) = 1..(Len(q) + 1)
             /\ \A i \in 1..Len(q) : Append(q, m)[i] = q[i]
             /\ Append(q, m)[Len(q) + 1] = m
  OBVIOUS
<1>4. q # <<>> => /\ Len(q) >= 1 /\ Head(q) = q[1]
                  /\ DOMAIN Tail(q) = 1..(Len(q) - 1)
                  /\ \A i \in 1..(Len(q) - 1) : Tail(q)[i] = q[i + 1]
  OBVIOUS
<1> QED
  BY <1>1, <1>2, <1>3, <1>4

(* The numbers of messages.                                                *)
LEMMA Numbers ==
  ASSUME Shape
  PROVE  /\ queued \in Nat /\ InHand \subseteq Nat
         /\ None \notin Messages /\ None.empty
BY MaxSendsAssumption DEF Shape, InHand, Messages, None

(* A sender puts its message behind the others.                            *)
LEMMA SendQueuesFacts ==
  ASSUME Shape, NEW s \in Senders, SendQueues(s)
  PROVE  /\ queued' = queued + 1 /\ sent' = sent /\ InHand' = InHand
         /\ DOMAIN msg_queue_' = 1..(Len(msg_queue_) + 1)
         /\ \A i \in 1..Len(msg_queue_) : msg_queue_'[i] = msg_queue_[i]
         /\ msg_queue_'[Len(msg_queue_) + 1].id = queued + 1
<1>1. PICK empty \in BOOLEAN :
        msg_queue_' = Append(msg_queue_, [id |-> queued + 1, empty |-> empty])
  BY DEF SendQueues
<1>2. queued' = queued + 1 /\ sent' = sent /\ InHand' = InHand
  BY DEF SendQueues, Notify, InHand
<1>3. [id |-> queued + 1, empty |-> empty] \in Messages /\ msg_queue_ \in Seq(Messages)
  BY MaxSendsAssumption DEF SendQueues, Shape, Messages
<1> QED
  BY <1>1, <1>2, <1>3, QueuePlaces

(* The worker takes the first message of the queue into its empty hand.    *)
LEMMA WorkerTakesFacts ==
  ASSUME Shape, EmptyHanded, WorkerTakes, msg_queue_ # <<>>
  PROVE  /\ InHand = {} /\ InHand' = {msg_queue_[1].id}
         /\ Len(msg_queue_) >= 1 /\ DOMAIN msg_queue_' = 1..(Len(msg_queue_) - 1)
         /\ \A i \in 1..(Len(msg_queue_) - 1) : msg_queue_'[i] = msg_queue_[i + 1]
<1>1. /\ worker = "take" /\ worker' = "deliver" /\ hand = None
      /\ hand' = Head(msg_queue_) /\ msg_queue_' = Tail(msg_queue_)
  BY DEF WorkerTakes, EmptyHanded
<1>2. msg_queue_ \in Seq(Messages) /\ Head(msg_queue_) \in Messages
  BY DEF Shape
<1> QED
  BY <1>1, <1>2, QueuePlaces, Numbers DEF InHand

(* The steps that neither queue, take nor drop a message.                  *)
LEMMA OtherSteps ==
  ASSUME Shape, EmptyHanded, [Next]_vars,
         ~ \E s \in Senders : SendQueues(s),
         ~WorkerDelivers, ~(WorkerTakes /\ msg_queue_ # <<>>)
  PROVE  UNCHANGED <<InHand, msg_queue_, queued, sent>>
<1>1. CASE start
  BY <1>1 DEF start, Shape, InHand
<1>2. CASE WorkerLocks
  BY <1>2 DEF WorkerLocks, InHand
<1>3. CASE WorkerTakes
  BY <1>3 DEF WorkerTakes, EmptyHanded, InHand
<1>4. CASE \/ stop \/ SpuriousWakeup \/ UNCHANGED vars
           \/ \E s \in Senders : SendLocks(s)
           \/ WorkerTests \/ WorkerBlocks \/ WorkerAwakes
  BY <1>4 DEF stop, StopClears, StopNotifies, StopJoins, Notify, SpuriousWakeup,
     SendLocks, WorkerTests, WorkerBlocks, WorkerAwakes, vars, InHand
<1> QED
  BY <1>1, <1>2, <1>3, <1>4 DEF Next, send, Worker

(* What the worker's send leaves in the hand and in the queue.             *)
LEMMA WorkerDeliversFacts ==
  ASSUME Shape, WorkerDelivers
  PROVE  /\ InHand' = {} /\ UNCHANGED <<msg_queue_, queued>>
         /\ \/ sent' = sent
            \/ InHand = {hand.id} /\ sent' = Append(sent, hand.id)
<1>1. InHand' = {} /\ UNCHANGED <<msg_queue_, queued>>
  BY DEF WorkerDelivers, InHand
<1>2. sent' = sent \/ (~hand.empty /\ sent' = Append(sent, hand.id) /\ worker = "deliver")
  BY DEF WorkerDelivers
<1>3. ~hand.empty => hand # None
  BY DEF None
<1> QED
  BY <1>1, <1>2, <1>3 DEF InHand

(* Every step keeps the messages in line.                                  *)
LEMMA InLineStep == Shape /\ EmptyHanded /\ InLine /\ [Next]_vars => InLine'
<1> SUFFICES ASSUME Shape, EmptyHanded, InLine, [Next]_vars
             PROVE  InLine'
  OBVIOUS
<1>0. /\ DOMAIN msg_queue_ = 1..Len(msg_queue_) /\ Len(msg_queue_) \in Nat
      /\ \A i \in DOMAIN msg_queue_ : msg_queue_[i].id \in Nat
      /\ queued \in Nat /\ InHand \subseteq Nat
  BY QueuePlaces, Numbers DEF Shape
<1>1. ASSUME NEW s \in Senders, SendQueues(s)
      PROVE  InLine'
  <2> DEFINE n == Len(msg_queue_)
  <2>1. /\ queued' = queued + 1 /\ InHand' = InHand
        /\ DOMAIN msg_queue_' = 1..(n + 1)
        /\ \A i \in 1..n : msg_queue_'[i] = msg_queue_[i]
        /\ msg_queue_'[n + 1].id = queued + 1
    BY <1>1, SendQueuesFacts
  <2>2. ASSUME NEW i \in DOMAIN msg_queue_'
        PROVE  \/ i \in DOMAIN msg_queue_ /\ msg_queue_'[i].id = msg_queue_[i].id
               \/ i = n + 1 /\ msg_queue_'[i].id = queued + 1
    BY <1>0, <2>1
  <2>3. ASSUME NEW i \in DOMAIN msg_queue_', NEW j \in DOMAIN msg_queue_', i < j
        PROVE  msg_queue_'[i].id < msg_queue_'[j].id
    <3>1. i \in DOMAIN msg_queue_ /\ msg_queue_'[i].id = msg_queue_[i].id
      BY <1>0, <2>1, <2>3
    <3> QED
      BY <1>0, <2>2, <2>3, <3>1 DEF InLine
  <2>4. \A i \in DOMAIN msg_queue_' : msg_queue_'[i].id <= queued'
    BY <1>0, <2>1, <2>2 DEF InLine
  <2>5. \A m \in InHand' : m <= queued'
    BY <1>0, <2>1 DEF InLine
  <2>6. \A m \in InHand', i \in DOMAIN msg_queue_' : m < msg_queue_'[i].id
    BY <1>0, <2>1, <2>2 DEF InLine
  <2> QED
    BY <2>3, <2>4, <2>5, <2>6 DEF InLine
<1>2. CASE WorkerTakes /\ msg_queue_ # <<>>
  <2> DEFINE n == Len(msg_queue_)
  <2>1. /\ InHand' = {msg_queue_[1].id} /\ n >= 1 /\ DOMAIN msg_queue_' = 1..(n - 1)
        /\ \A i \in 1..(n - 1) : msg_queue_'[i] = msg_queue_[i + 1]
    BY <1>2, WorkerTakesFacts
  <2>2. queued' = queued
    BY <1>2 DEF WorkerTakes
  <2>3. ASSUME NEW i \in DOMAIN msg_queue_'
        PROVE  /\ i + 1 \in DOMAIN msg_queue_ /\ 1 < i + 1
               /\ msg_queue_'[i].id = msg_queue_[i + 1].id
    BY <1>0, <2>1
  <2>4. 1 \in DOMAIN msg_queue_
    BY <1>0, <2>1
  <2>5. ASSUME NEW i \in DOMAIN msg_queue_', NEW j \in DOMAIN msg_queue_', i < j
        PROVE  msg_queue_'[i].id < msg_queue_'[j].id
    <3>1. i + 1 < j + 1
      BY <2>1, <2>5
    <3> QED
      BY <2>3, <3>1 DEF InLine
  <2> QED
    BY <2>1, <2>2, <2>3, <2>4, <2>5 DEF InLine
<1>3. CASE WorkerDelivers
  BY <1>3, WorkerDeliversFacts DEF InLine
<1>4. CASE UNCHANGED <<InHand, msg_queue_, queued, sent>>
  BY <1>4 DEF InLine
<1> QED
  BY <1>1, <1>2, <1>3, <1>4, OtherSteps

-----------------------------------------------------------------------------
(* The inductive invariant.                                                *)
THEOREM Invariance == Spec => []IInv
<1>1. Init => IInv
  <2> SUFFICES ASSUME Init
               PROVE  IInv
    OBVIOUS
  <2>1. run_ \in BOOLEAN
    <3>1. run_ = FALSE
      BY DEF Init
    <3> QED
      BY <3>1, Zenon
  <2>2. Shape
    BY MaxSendsAssumption, SendersAssumption DEF Init, Shape, Holding, WorkerStates
  <2>3. NoLostWakeup /\ Stopping
    BY DEF Init, NoLostWakeup, Stopping
  <2>4. EmptyHanded
    BY DEF Init, EmptyHanded
  <2>5. InLine
    BY DEF Init, InLine, InHand
  <2> QED
    BY <2>1, <2>2, <2>3, <2>4, <2>5 DEF IInv
<1>2. IInv /\ [Next]_vars => IInv'
  BY BooleanStep, ShapeStep, WakeupStep, StoppingStep, EmptyHandedStep,
     InLineStep DEF IInv
<1> QED
  BY <1>1, <1>2, PTL DEF Spec

(* Every variable keeps its type, and mtx_ has the holder it should have.  *)
THEOREM TypeCorrect == Spec => []TypeOK
<1>1. IInv => TypeOK
  BY DEF IInv, Shape, TypeOK
<1> QED
  BY <1>1, Invariance, PTL

(* The worker never waits while a message that send() queued is there.     *)
THEOREM NoLostWakeupTheorem == Spec => []NoLostWakeup
<1>1. IInv => NoLostWakeup
  BY DEF IInv
<1> QED
  BY <1>1, Invariance, PTL

(* At most one message is taken after stop() cleared run_.                 *)
THEOREM AtMostOneAfterStopTheorem == Spec => []AtMostOneAfterStop
<1>1. IInv => AtMostOneAfterStop
  BY DEF IInv, Stopping, AtMostOneAfterStop
<1> QED
  BY <1>1, Invariance, PTL

-----------------------------------------------------------------------------
(* The refinement.                                                         *)

(* Every step of the client is a step of the channel or leaves it alone.   *)
LEMMA Simulation ==
  Shape /\ EmptyHanded /\ InLine /\ [Next]_vars => [Chan!Next]_(Chan!chan)
<1> SUFFICES ASSUME Shape, EmptyHanded, InLine, [Next]_vars
             PROVE  [Chan!Next]_(Chan!chan)
  OBVIOUS
<1> DEFINE n == Len(msg_queue_)
           Q == {msg_queue_[i].id : i \in DOMAIN msg_queue_}
<1>0. DOMAIN msg_queue_ = 1..n /\ n \in Nat
  BY QueuePlaces DEF Shape
<1>1. ASSUME NEW s \in Senders, SendQueues(s)
      PROVE  Chan!Accept
  <2>1. /\ queued' = queued + 1 /\ sent' = sent /\ InHand' = InHand
        /\ DOMAIN msg_queue_' = 1..(n + 1)
        /\ \A i \in 1..n : msg_queue_'[i] = msg_queue_[i]
        /\ msg_queue_'[n + 1].id = queued + 1
    BY <1>1, SendQueuesFacts
  <2>2. 1..(n + 1) = 1..n \cup {n + 1}
    BY <1>0
  <2>3. {msg_queue_'[i].id : i \in DOMAIN msg_queue_'} = Q \cup {queued + 1}
    BY <1>0, <2>1, <2>2
  <2> QED
    BY <2>1, <2>3 DEF Chan!Accept, Waiting
<1>2. CASE WorkerTakes /\ msg_queue_ # <<>>
  <2>1. /\ InHand = {} /\ InHand' = {msg_queue_[1].id}
        /\ n >= 1 /\ DOMAIN msg_queue_' = 1..(n - 1)
        /\ \A i \in 1..(n - 1) : msg_queue_'[i] = msg_queue_[i + 1]
    BY <1>2, WorkerTakesFacts
  <2>2. ASSUME NEW i \in DOMAIN msg_queue_
        PROVE  i = 1 \/ (i - 1 \in 1..(n - 1) /\ msg_queue_'[i - 1].id = msg_queue_[i].id)
    <3>1. i = 1 \/ (i - 1 \in 1..(n - 1) /\ (i - 1) + 1 = i)
      BY <1>0, <2>1
    <3> QED
      BY <2>1, <3>1
  <2>3. ASSUME NEW i \in 1..(n - 1)
        PROVE  i + 1 \in DOMAIN msg_queue_ /\ msg_queue_'[i].id = msg_queue_[i + 1].id
    BY <1>0, <2>1
  <2>4. 1 \in DOMAIN msg_queue_
    BY <1>0, <2>1
  <2>5. {msg_queue_'[i].id : i \in 1..(n - 1)} \cup {msg_queue_[1].id} = Q
    <3>1. ASSUME NEW k \in {msg_queue_'[i].id : i \in 1..(n - 1)}
          PROVE  k \in Q
      <4>1. PICK i \in 1..(n - 1) : k = msg_queue_'[i].id
        BY <3>1
      <4> QED
        BY <2>3, <4>1
    <3>2. ASSUME NEW k \in Q
          PROVE  k \in {msg_queue_'[i].id : i \in 1..(n - 1)} \cup {msg_queue_[1].id}
      <4>1. PICK i \in DOMAIN msg_queue_ : k = msg_queue_[i].id
        BY <3>2
      <4> QED
        BY <2>2, <4>1
    <3>3. msg_queue_[1].id \in Q
      BY <2>4
    <3> HIDE DEF Q
    <3> QED
      BY <3>1, <3>2, <3>3, Zenon
  <2>6. Waiting' = Waiting
    BY <2>1, <2>5 DEF Waiting
  <2> QED
    BY <1>2, <2>6 DEF Chan!chan, WorkerTakes
<1>3. CASE WorkerDelivers
  <2>1. /\ InHand' = {} /\ UNCHANGED <<msg_queue_, queued>>
        /\ \/ sent' = sent
           \/ InHand = {hand.id} /\ sent' = Append(sent, hand.id)
    BY <1>3, WorkerDeliversFacts
  <2>2. Waiting' = Q /\ Waiting = InHand \cup Q
    BY <2>1 DEF Waiting
  <2>3. CASE sent' = sent
    BY <2>1, <2>2, <2>3 DEF Chan!Next, Chan!Lose
  <2>4. CASE InHand = {hand.id} /\ sent' = Append(sent, hand.id)
    <3>1. hand.id \in Nat /\ \A k \in Q : k \in Nat /\ hand.id < k
      BY <2>4, Numbers, QueuePlaces DEF InLine, Shape
    <3> HIDE DEF Q
    <3>2. ASSUME NEW k \in Waiting
          PROVE  hand.id <= k
      <4>1. k = hand.id \/ k \in Q
        BY <2>2, <2>4
      <4> QED
        BY <3>1, <4>1
    <3>3. hand.id \in Waiting /\ hand.id \notin Q
      BY <2>2, <2>4, <3>1
    <3>4. Waiting' = Waiting \ {hand.id}
      BY <2>2, <2>4, <3>3
    <3> QED
      BY <2>1, <2>4, <3>2, <3>3, <3>4 DEF Chan!Next, Chan!Deliver
  <2> QED
    BY <2>1, <2>3, <2>4
<1>4. CASE UNCHANGED <<InHand, msg_queue_, queued, sent>>
  BY <1>4 DEF Chan!chan, Waiting
<1> QED
  BY <1>1, <1>2, <1>3, <1>4, OtherSteps DEF Chan!Next

(* The client implements the channel: whatever the threads do, send() and  *)
(* the worker deliver in order and lose only whole messages.               *)
THEOREM ImplementsChannelTheorem == Spec => ImplementsChannel
<1>1. Init => Chan!Init
  BY DEF Init, Chan!Init, Waiting, InHand
<1>2. IInv /\ [Next]_vars => [Chan!Next]_(Chan!chan)
  BY Simulation DEF IInv
<1> QED
  BY <1>1, <1>2, Invariance, PTL DEF Spec, ImplementsChannel, Chan!Spec

(* So the network gets the messages in the order of the calls of send(),   *)
(* each at most once, and none that was not queued.                        *)
THEOREM InOrderTheorem == Spec => []Chan!InOrderAtMostOnce
<1> DEFINE Order == Ordered(queued, Waiting, sent)
<1>1. Chan!Init => Order
  BY DEF Chan!Init, Ordered
<1>2. Order /\ [Chan!Next]_(Chan!chan) => Order'
  <2> SUFFICES ASSUME Order, [Chan!Next]_(Chan!chan)
               PROVE  Order'
    OBVIOUS
  <2>1. CASE Chan!Accept
    BY <2>1, AcceptOrdered DEF Chan!Accept
  <2>2. CASE \E m \in Waiting : Chan!Deliver(m)
    BY <2>2, DeliverOrdered DEF Chan!Deliver
  <2>3. CASE Chan!Lose
    BY <2>3, LoseOrdered DEF Chan!Lose
  <2>4. CASE UNCHANGED Chan!chan
    BY <2>4 DEF Chan!chan
  <2> QED
    BY <2>1, <2>2, <2>3, <2>4 DEF Chan!Next
<1>3. Order => Chan!InOrderAtMostOnce
  BY DEF Ordered, Chan!InOrderAtMostOnce, Chan!Increasing
<1> QED
  BY <1>1, <1>2, <1>3, ImplementsChannelTheorem, PTL DEF ImplementsChannel, Chan!Spec
=============================================================================
