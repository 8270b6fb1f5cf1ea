-------------------------- MODULE MainQueueProofs --------------------------
(***************************************************************************)
(* The queue of kernel/queue/queue.hpp implements BoundedFifo, for every   *)
(* capacity and every message type; and main_queue, an ArrayQueue that the *)
(* interrupt handler pushes to and the event loop pops from, stays well    *)
(* formed and loses no wake-up.  The two specifications have no variable   *)
(* in common; what they share are the operators of ArrayQueue, and the     *)
(* lemmas that say what those return.                                      *)
(***************************************************************************)
EXTENDS ArrayQueueSpec, EventLoop, Integers, SequenceTheorems, TLAPS

LEMMA AdvanceWraps ==
  ASSUME NEW pos \in Index
  PROVE  /\ Advance(pos) \in Index
         /\ Advance(pos) = IF pos + 1 = Capacity THEN 0 ELSE pos + 1
BY CapacityAssumption, SMT DEF Index, Advance

\* A position at most Capacity elements after another wraps at most once.
LEMMA WrapOnce ==
  ASSUME NEW pos \in Index, NEW k \in 0 .. Capacity
  PROVE  /\ (pos + k) % Capacity \in Index
         /\ (pos + k) % Capacity =
              IF pos + k < Capacity THEN pos + k ELSE pos + k - Capacity
BY CapacityAssumption, SMT DEF Index

LEMMA NewQueueOK ==
  ASSUME NEW buf \in [Index -> Message]
  PROVE  NewQueue(buf) \in Queue /\ WellFormed(NewQueue(buf))
<1>1. 0 \in Index /\ 0 \in 0 .. Capacity
  BY CapacityAssumption DEF Index
<1>2. NewQueue(buf) \in Queue
  BY <1>1 DEF NewQueue, Queue
<1>3. (0 + 0) % Capacity = 0
  BY <1>1, WrapOnce, CapacityAssumption
<1> QED
  BY <1>2, <1>3 DEF NewQueue, WellFormed

LEMMA PushedType ==
  ASSUME NEW q \in Queue, NEW v \in Message
  PROVE  Pushed(q, v) \in Queue
<1>1. CASE IsFull(q)
  BY <1>1 DEF Pushed
<1>2. CASE ~IsFull(q)
  <2>1. q.count + 1 \in 0 .. Capacity
    BY <1>2, CapacityAssumption DEF IsFull, Queue
  <2>2. Advance(q.write_pos) \in Index
    BY AdvanceWraps DEF Queue
  <2> QED
    BY <1>2, <2>1, <2>2 DEF Pushed, Queue
<1> QED
  BY <1>1, <1>2

LEMMA PushedWellFormed ==
  ASSUME NEW q \in Queue, NEW v \in Message, WellFormed(q)
  PROVE  WellFormed(Pushed(q, v))
<1>1. CASE IsFull(q)
  BY <1>1 DEF Pushed
<1>2. CASE ~IsFull(q)
  <2>1. /\ q.read_pos \in Index
        /\ q.write_pos \in Index
        /\ q.count \in 0 .. Capacity
        /\ q.count + 1 \in 0 .. Capacity
    BY <1>2, CapacityAssumption DEF IsFull, Queue
  <2>2. Advance(q.write_pos) = (q.read_pos + (q.count + 1)) % Capacity
    <3>1. q.write_pos = IF q.read_pos + q.count < Capacity
                        THEN q.read_pos + q.count
                        ELSE q.read_pos + q.count - Capacity
      BY <2>1, WrapOnce DEF WellFormed
    <3>2. (q.read_pos + (q.count + 1)) % Capacity =
             IF q.read_pos + (q.count + 1) < Capacity
             THEN q.read_pos + (q.count + 1)
             ELSE q.read_pos + (q.count + 1) - Capacity
      BY <2>1, WrapOnce
    <3>3. Advance(q.write_pos) =
             IF q.write_pos + 1 = Capacity THEN 0 ELSE q.write_pos + 1
      BY <2>1, AdvanceWraps
    <3> QED
      BY <2>1, <3>1, <3>2, <3>3, CapacityAssumption DEF Index
  <2>3. /\ Pushed(q, v).write_pos = Advance(q.write_pos)
        /\ Pushed(q, v).read_pos = q.read_pos
        /\ Pushed(q, v).count = q.count + 1
    BY <1>2 DEF Pushed, Queue
  <2> QED
    BY <2>2, <2>3 DEF WellFormed
<1> QED
  BY <1>1, <1>2

LEMMA PoppedAtType ==
  ASSUME NEW q \in Queue, q.count > 0
  PROVE  PoppedAt(q, q.count) \in Queue
<1>1. q.count - 1 \in 0 .. Capacity
  BY CapacityAssumption DEF Queue
<1>2. Advance(q.read_pos) \in Index
  BY AdvanceWraps DEF Queue
<1> QED
  BY <1>1, <1>2 DEF PoppedAt, Queue

LEMMA PoppedAtWellFormed ==
  ASSUME NEW q \in Queue, q.count > 0, WellFormed(q)
  PROVE  WellFormed(PoppedAt(q, q.count))
<1>1. /\ q.read_pos \in Index
      /\ q.write_pos \in Index
      /\ q.count \in 0 .. Capacity
      /\ q.count - 1 \in 0 .. Capacity
      /\ Advance(q.read_pos) \in Index
  BY CapacityAssumption, AdvanceWraps DEF Queue
<1>2. q.write_pos = (Advance(q.read_pos) + (q.count - 1)) % Capacity
  <2>1. q.write_pos = IF q.read_pos + q.count < Capacity
                      THEN q.read_pos + q.count
                      ELSE q.read_pos + q.count - Capacity
    BY <1>1, WrapOnce DEF WellFormed
  <2>2. (Advance(q.read_pos) + (q.count - 1)) % Capacity =
           IF Advance(q.read_pos) + (q.count - 1) < Capacity
           THEN Advance(q.read_pos) + (q.count - 1)
           ELSE Advance(q.read_pos) + (q.count - 1) - Capacity
    BY <1>1, WrapOnce
  <2>3. Advance(q.read_pos) =
           IF q.read_pos + 1 = Capacity THEN 0 ELSE q.read_pos + 1
    BY <1>1, AdvanceWraps
  <2> QED
    BY <1>1, <2>1, <2>2, <2>3, CapacityAssumption DEF Index
<1>3. /\ PoppedAt(q, q.count).write_pos = q.write_pos
      /\ PoppedAt(q, q.count).read_pos = Advance(q.read_pos)
      /\ PoppedAt(q, q.count).count = q.count - 1
  BY DEF PoppedAt, Queue
<1> QED
  BY <1>2, <1>3 DEF WellFormed

LEMMA ContentsType ==
  ASSUME NEW q \in Queue
  PROVE  /\ Contents(q) \in Seq(Message)
         /\ Len(Contents(q)) = q.count
         /\ DOMAIN Contents(q) = 1 .. q.count
<1>1. q.count \in Nat /\ q.count \in 0 .. Capacity /\ q.read_pos \in Index
  BY CapacityAssumption DEF Queue
<1>2. ASSUME NEW i \in 1 .. q.count
      PROVE  q.data[(q.read_pos + i - 1) % Capacity] \in Message
  <2>1. i - 1 \in 0 .. Capacity
    BY <1>1, CapacityAssumption
  <2>2. (q.read_pos + (i - 1)) % Capacity \in Index
    BY <1>1, <2>1, WrapOnce
  <2>3. q.read_pos + (i - 1) = q.read_pos + i - 1
    BY <1>1, CapacityAssumption DEF Index
  <2> QED
    BY <2>2, <2>3 DEF Queue
<1> QED
  BY <1>1, <1>2 DEF Contents

\* The i-th message held, without the modulus.
LEMMA ContentsAt ==
  ASSUME NEW q \in Queue, NEW i \in 1 .. q.count
  PROVE  Contents(q)[i] = IF q.read_pos + i - 1 < Capacity
                          THEN q.data[q.read_pos + i - 1]
                          ELSE q.data[q.read_pos + i - 1 - Capacity]
<1>1. q.count \in 0 .. Capacity /\ q.read_pos \in Index /\ i - 1 \in 0 .. Capacity
  BY CapacityAssumption DEF Queue
<1>2. (q.read_pos + (i - 1)) % Capacity =
        IF q.read_pos + (i - 1) < Capacity
        THEN q.read_pos + (i - 1)
        ELSE q.read_pos + (i - 1) - Capacity
  BY <1>1, WrapOnce
<1>3. q.read_pos + (i - 1) = q.read_pos + i - 1
  BY <1>1, CapacityAssumption DEF Index
<1> QED
  BY <1>2, <1>3 DEF Contents

LEMMA PushAppends ==
  ASSUME NEW q \in Queue, NEW v \in Message, WellFormed(q), ~IsFull(q)
  PROVE  Contents(Pushed(q, v)) = Append(Contents(q), v)
<1> DEFINE p == Pushed(q, v)
<1>1. p \in Queue
  BY PushedType
<1>2. /\ p.count = q.count + 1
      /\ p.read_pos = q.read_pos
      /\ p.data = [q.data EXCEPT ![q.write_pos] = v]
  BY DEF Pushed, Queue
<1>3. /\ q.count \in 0 .. Capacity
      /\ q.count < Capacity
      /\ q.read_pos \in Index
      /\ q.write_pos \in Index
      /\ q.data \in [Index -> Message]
  BY CapacityAssumption DEF Queue, IsFull
<1>4. q.write_pos = IF q.read_pos + q.count < Capacity
                    THEN q.read_pos + q.count
                    ELSE q.read_pos + q.count - Capacity
  BY <1>3, WrapOnce DEF WellFormed
<1>5. ASSUME NEW i \in 1 .. p.count
      PROVE  Contents(p)[i] = Append(Contents(q), v)[i]
  <2>1. Contents(p)[i] = IF q.read_pos + i - 1 < Capacity
                         THEN p.data[q.read_pos + i - 1]
                         ELSE p.data[q.read_pos + i - 1 - Capacity]
    BY <1>1, <1>2, ContentsAt
  <2>2. CASE i = q.count + 1
    <3>1. Append(Contents(q), v)[i] = v
      BY <2>2, ContentsType, <1>3
    <3>2. Contents(p)[i] = p.data[q.write_pos]
      BY <2>1, <2>2, <1>3, <1>4, CapacityAssumption DEF Index
    <3> QED
      BY <3>1, <3>2, <1>2, <1>3
  <2>3. CASE i # q.count + 1
    <3>1. i \in 1 .. q.count
      BY <2>3, <1>2, <1>3
    <3>2. Append(Contents(q), v)[i] = Contents(q)[i]
      BY <3>1, ContentsType, <1>3
    <3>3. Contents(q)[i] = IF q.read_pos + i - 1 < Capacity
                           THEN q.data[q.read_pos + i - 1]
                           ELSE q.data[q.read_pos + i - 1 - Capacity]
      BY <3>1, ContentsAt
    <3>4. CASE q.read_pos + i - 1 < Capacity
      <4>1. q.read_pos + i - 1 \in Index /\ q.read_pos + i - 1 # q.write_pos
        BY <3>1, <3>4, <1>3, <1>4, CapacityAssumption DEF Index
      <4> QED
        BY <2>1, <3>2, <3>3, <3>4, <4>1, <1>2, <1>3
    <3>5. CASE ~(q.read_pos + i - 1 < Capacity)
      <4>1. /\ q.read_pos + i - 1 - Capacity \in Index
            /\ q.read_pos + i - 1 - Capacity # q.write_pos
        BY <3>1, <3>5, <1>3, <1>4, CapacityAssumption DEF Index
      <4> QED
        BY <2>1, <3>2, <3>3, <3>5, <4>1, <1>2, <1>3
    <3> QED
      BY <3>4, <3>5
  <2> QED
    BY <2>2, <2>3
<1>6. /\ Contents(p) \in Seq(Message)
      /\ Len(Contents(p)) = q.count + 1
  BY <1>1, <1>2, ContentsType
<1>7. /\ Append(Contents(q), v) \in Seq(Message)
      /\ Len(Append(Contents(q), v)) = q.count + 1
  BY ContentsType, AppendProperties
<1> QED
  BY <1>2, <1>5, <1>6, <1>7, SeqEqual

LEMMA PopTakesHead ==
  ASSUME NEW q \in Queue, ~IsEmpty(q)
  PROVE  /\ Contents(q) # <<>>
         /\ Contents(Popped(q)) = Tail(Contents(q))
         /\ Front(q) = Head(Contents(q))
<1>0. PICK p : p = PoppedAt(q, q.count)
  OBVIOUS
<1>1. /\ q.count \in 1 .. Capacity
      /\ q.read_pos \in Index
      /\ q.data \in [Index -> Message]
  BY CapacityAssumption DEF Queue, IsEmpty
<1>2. p \in Queue
  BY <1>0, <1>1, PoppedAtType
<1>3. /\ p.count = q.count - 1
      /\ p.read_pos = IF q.read_pos + 1 = Capacity THEN 0 ELSE q.read_pos + 1
      /\ p.data = q.data
  BY <1>0, <1>1, AdvanceWraps DEF PoppedAt, Queue
<1>4. /\ Contents(q) \in Seq(Message)
      /\ Len(Contents(q)) = q.count
      /\ Contents(q) # <<>>
  BY <1>1, ContentsType, EmptySeq
<1>5. /\ Tail(Contents(q)) \in Seq(Message)
      /\ Len(Tail(Contents(q))) = q.count - 1
      /\ \A i \in 1 .. q.count - 1 : Tail(Contents(q))[i] = Contents(q)[i + 1]
  BY <1>1, <1>4, HeadTailProperties
<1>6. ASSUME NEW i \in 1 .. q.count - 1
      PROVE  Contents(p)[i] = Contents(q)[i + 1]
  <2>1. /\ i \in Int
        /\ i + 1 \in 1 .. q.count
        /\ i \in 1 .. p.count
    BY <1>1, <1>3, CapacityAssumption
  <2>2. Contents(p)[i] = IF p.read_pos + i - 1 < Capacity
                         THEN p.data[p.read_pos + i - 1]
                         ELSE p.data[p.read_pos + i - 1 - Capacity]
    BY <1>2, <2>1, ContentsAt
  <2>3. Contents(q)[i + 1] = IF q.read_pos + (i + 1) - 1 < Capacity
                             THEN q.data[q.read_pos + (i + 1) - 1]
                             ELSE q.data[q.read_pos + (i + 1) - 1 - Capacity]
    BY <2>1, ContentsAt
  <2>4. CASE q.read_pos + 1 = Capacity
    BY <1>1, <1>3, <2>1, <2>2, <2>3, <2>4, CapacityAssumption DEF Index
  <2>5. CASE q.read_pos + 1 # Capacity
    <3>1. p.read_pos = q.read_pos + 1 /\ p.data = q.data
      BY <1>3, <2>5
    <3>2. q.read_pos \in Int
      BY <1>1, CapacityAssumption DEF Index
    <3>3. p.read_pos + i - 1 = q.read_pos + (i + 1) - 1
      BY <2>1, <3>1, <3>2
    <3>4. CASE p.read_pos + i - 1 < Capacity
      <4>1. Contents(p)[i] = q.data[q.read_pos + (i + 1) - 1]
        BY <2>2, <3>1, <3>3, <3>4
      <4>2. Contents(q)[i + 1] = q.data[q.read_pos + (i + 1) - 1]
        BY <2>3, <3>3, <3>4
      <4> QED
        BY <4>1, <4>2
    <3>5. CASE ~(p.read_pos + i - 1 < Capacity)
      <4>0. p.read_pos + i - 1 - Capacity = q.read_pos + (i + 1) - 1 - Capacity
        BY <2>1, <3>1, <3>2, CapacityAssumption
      <4>1. Contents(p)[i] = q.data[q.read_pos + (i + 1) - 1 - Capacity]
        BY <2>2, <3>1, <3>5, <4>0
      <4>2. Contents(q)[i + 1] = q.data[q.read_pos + (i + 1) - 1 - Capacity]
        BY <2>3, <3>3, <3>5
      <4> QED
        BY <4>1, <4>2
    <3> QED
      BY <3>4, <3>5
  <2> QED
    BY <2>4, <2>5
<1>7. Contents(p) = Tail(Contents(q))
  <2>1. Contents(p) \in Seq(Message) /\ Len(Contents(p)) = q.count - 1
    BY <1>2, <1>3, ContentsType
  <2> QED
    BY <2>1, <1>5, <1>6, SeqEqual
<1>8. Front(q) = Contents(q)[1]
  <2>1. 1 \in 1 .. q.count
    BY <1>1, CapacityAssumption
  <2> QED
    BY <2>1, <1>1, ContentsAt, CapacityAssumption DEF Front, Index
<1> QED
  BY <1>0, <1>4, <1>7, <1>8, HeadTailProperties DEF Popped

(***************************************************************************)
(* The queue used by one caller.                                           *)
(***************************************************************************)

(* The queue's members keep their types and agree with each other after    *)
(* any sequence of Push and Pop calls.                                     *)
THEOREM QueueTypeCorrect == QueueSpec => []QueueTypeOK
<1>1. QueueInit => QueueTypeOK
  BY NewQueueOK DEF QueueInit, QueueTypeOK
<1>2. QueueTypeOK /\ [QueueNext]_queue_vars => QueueTypeOK'
  <2> SUFFICES ASSUME QueueTypeOK, [QueueNext]_queue_vars PROVE QueueTypeOK'
    OBVIOUS
  <2>1. ASSUME NEW v \in Message, Push(v) PROVE QueueTypeOK'
    BY <2>1, PushedType, PushedWellFormed DEF QueueTypeOK, Push
  <2>2. CASE Pop
    <3>1. CASE IsEmpty(queue)
      BY <2>2, <3>1 DEF QueueTypeOK, Pop, Popped
    <3>2. CASE ~IsEmpty(queue)
      <4>1. queue.count > 0
        BY <3>2, CapacityAssumption DEF QueueTypeOK, Queue, IsEmpty
      <4> QED
        BY <2>2, <3>2, <4>1, PoppedAtType, PoppedAtWellFormed
           DEF QueueTypeOK, Pop, Popped
    <3> QED
      BY <3>1, <3>2
  <2>3. CASE UNCHANGED queue_vars
    BY <2>3 DEF queue_vars, QueueTypeOK
  <2> QED
    BY <2>1, <2>2, <2>3 DEF QueueNext
<1> QED
  BY <1>1, <1>2, PTL DEF QueueSpec

(* Push and Pop of queue.hpp, wrap-around included, do to the messages     *)
(* held exactly what BoundedFifo says, for every capacity and message      *)
(* type.                                                                   *)
THEOREM QueueImplementsFifo == QueueSpec => ImplementsFifo
<1>1. QueueInit => Fifo!Init
  <2> SUFFICES ASSUME NEW buf \in [Index -> Message], queue = NewQueue(buf),
                      result = [error |-> "kSuccess"]
               PROVE  Fifo!Init
    BY DEF QueueInit
  <2>1. Contents(queue) \in Seq(Message) /\ Len(Contents(queue)) = 0
    BY NewQueueOK, ContentsType DEF NewQueue
  <2>2. Contents(queue) = <<>>
    BY <2>1, EmptySeq
  <2> QED
    BY <2>2 DEF Fifo!Init
<1>2. QueueTypeOK /\ [QueueNext]_queue_vars => [Fifo!Next]_(Fifo!vars)
  <2> SUFFICES ASSUME QueueTypeOK, [QueueNext]_queue_vars PROVE [Fifo!Next]_(Fifo!vars)
    OBVIOUS
  <2>1. queue \in Queue /\ WellFormed(queue)
    BY DEF QueueTypeOK
  <2>2. Len(Contents(queue)) = queue.count
    BY <2>1, ContentsType
  <2>3. ASSUME NEW v \in Message, Push(v) PROVE Fifo!Push(v)
    <3>1. CASE IsFull(queue)
      BY <2>2, <2>3, <3>1 DEF Push, Pushed, IsFull, Fifo!Push
    <3>2. CASE ~IsFull(queue)
      <4>1. Contents(queue') = Append(Contents(queue), v)
        BY <2>1, <2>3, <3>2, PushAppends DEF Push
      <4>2. Len(Contents(queue)) < Capacity
        BY <2>1, <2>2, <3>2, CapacityAssumption DEF Queue, IsFull
      <4> QED
        BY <2>3, <3>2, <4>1, <4>2 DEF Push, Fifo!Push
    <3> QED
      BY <3>1, <3>2
  <2>4. CASE Pop
    <3>1. CASE IsEmpty(queue)
      <4>1. Contents(queue) = <<>>
        BY <2>1, <2>2, <3>1, ContentsType, EmptySeq DEF IsEmpty
      <4> QED
        BY <2>4, <3>1, <4>1 DEF Pop, Popped, Fifo!Pop, Fifo!Next
    <3>2. CASE ~IsEmpty(queue)
      BY <2>1, <2>4, <3>2, PopTakesHead DEF Pop, Fifo!Pop, Fifo!Next
    <3> QED
      BY <3>1, <3>2
  <2>5. CASE UNCHANGED queue_vars
    BY <2>5 DEF queue_vars, Fifo!vars
  <2> QED
    BY <2>3, <2>4, <2>5 DEF QueueNext, Fifo!Next
<1> QED
  BY <1>1, <1>2, QueueTypeCorrect, PTL DEF QueueSpec, ImplementsFifo, Fifo!Spec

(***************************************************************************)
(* The loop.                                                               *)
(***************************************************************************)

\* Between Count() and Pop() interrupts are off, so the count in the register
\* is the count in memory; the ring is not empty while an event is handled.
SharedQueue ==
  /\ pc \in {"count", "hlt", "pop", "sti"} => ~intr
  /\ pc = "pop" => loaded = main_queue.count /\ loaded > 0
  /\ pc \in {"handle", "ack"} => ring > 0

\* EHB is never left set with an empty ring: if it was set after ERDP was
\* read, the event that set it is a second one.
BusyMeansEvents ==
  /\ ~reraised /\ ehb => ring > 0
  /\ ~reraised /\ pc = "ack" /\ ~ehb_read /\ ehb => ring > 1

SafeInv == TypeOK /\ QueueWellFormed /\ SharedQueue

WakeInv == SafeInv /\ BusyMeansEvents /\ NoLostEvent

LEMMA SafeInit == Init => SafeInv
<1> SUFFICES ASSUME Init PROVE SafeInv
  OBVIOUS
<1>1. main_queue \in Queue /\ WellFormed(main_queue)
  BY NewQueueOK DEF Init
<1>2. TypeOK
  <2>1. 0 \in 0 .. Capacity /\ 0 \in 0 .. EventRingSize
    BY CapacityAssumption, EventLoopAssumption
  <2> QED
    BY <1>1, <2>1, Zenon DEF Init, TypeOK, Location
<1> QED
  BY <1>1, <1>2 DEF Init, SafeInv, QueueWellFormed, SharedQueue

LEMMA SafeStep == SafeInv /\ [Next]_vars => SafeInv'
<1> SUFFICES ASSUME SafeInv, [Next]_vars PROVE SafeInv'
  OBVIOUS
<1> USE CapacityAssumption, EventLoopAssumption
        DEF SafeInv, TypeOK, QueueWellFormed, SharedQueue, Location
<1>1. CASE StiBeforePorts
  BY <1>1 DEF StiBeforePorts
<1>2. CASE EnterLoop
  BY <1>2 DEF EnterLoop
<1>3. CASE Cli
  BY <1>3 DEF Cli
<1>4. CASE TestCount
  <2>1. main_queue.count \in 0 .. Capacity
    BY DEF Queue
  <2>2. ~IsEmpty(main_queue) => main_queue.count > 0
    BY <2>1 DEF IsEmpty
  <2> QED
    BY <1>4, <2>1, <2>2 DEF TestCount
<1>5. CASE StiHlt
  BY <1>5 DEF StiHlt
<1>6. CASE PopMessage
  <2>1. /\ PoppedAt(main_queue, loaded) \in Queue
        /\ WellFormed(PoppedAt(main_queue, loaded))
    BY <1>6, PoppedAtType, PoppedAtWellFormed DEF PopMessage
  <2> QED
    BY <1>6, <2>1 DEF PopMessage
<1>7. CASE Sti
  BY <1>7 DEF Sti
<1>8. CASE TestFront
  BY <1>8 DEF TestFront
<1>9. CASE Handle
  BY <1>9 DEF Handle
<1>10. CASE Ack
  BY <1>10 DEF Ack
<1>11. CASE IntHandlerXHCI
  <2> PICK msg \in Message : main_queue' = Pushed(main_queue, msg)
    BY <1>11 DEF IntHandlerXHCI
  <2>1. main_queue' \in Queue /\ WellFormed(main_queue')
    BY PushedType, PushedWellFormed
  <2> QED
    BY <1>11, <2>1 DEF IntHandlerXHCI
<1>12. CASE HcEnqueue
  BY <1>12 DEF HcEnqueue, cpu
<1>13. CASE HcReraise
  BY <1>13 DEF HcReraise, cpu
<1>14. CASE UNCHANGED vars
  BY <1>14 DEF vars
<1> QED
  BY <1>1, <1>2, <1>3, <1>4, <1>5, <1>6, <1>7, <1>8, <1>9, <1>10, <1>11,
     <1>12, <1>13, <1>14 DEF Next, Main

(* Types are kept by every step of the loop, the handler and the           *)
(* controller (main.cpp event loop, queue.hpp).                            *)
THEOREM TypeCorrect == Spec => []TypeOK
<1>1. SafeInv => TypeOK
  BY DEF SafeInv
<1> QED
  BY <1>1, SafeInit, SafeStep, PTL DEF Spec

(* The interrupt handler and the loop never lose each other's update of    *)
(* main_queue, for every capacity and whatever the controller announces    *)
(* (main.cpp IntHandlerXHCI and event loop; queue.hpp Push and Pop).       *)
THEOREM QueueStaysWellFormed == Spec => []QueueWellFormed
<1>1. SafeInv => QueueWellFormed
  BY DEF SafeInv
<1> QED
  BY <1>1, SafeInit, SafeStep, PTL DEF Spec

LEMMA WakeInit == Init => WakeInv
BY SafeInit DEF Init, WakeInv, BusyMeansEvents, NoLostEvent

LEMMA PushedNotEmpty ==
  ASSUME NEW q \in Queue, NEW v \in Message
  PROVE  Pushed(q, v).count > 0
BY CapacityAssumption DEF Pushed, IsFull, Queue

LEMMA WakeStep == WakeInv /\ [Next]_vars => WakeInv'
<1> SUFFICES ASSUME WakeInv, [Next]_vars PROVE BusyMeansEvents' /\ NoLostEvent'
  BY SafeStep DEF WakeInv
<1> USE CapacityAssumption, EventLoopAssumption
        DEF WakeInv, SafeInv, TypeOK, SharedQueue, BusyMeansEvents,
            NoLostEvent, WillDrain, Location
<1>0. main_queue.count \in 0 .. Capacity
  BY DEF Queue
<1>1. CASE StiBeforePorts
  BY <1>1 DEF StiBeforePorts
<1>2. CASE EnterLoop
  BY <1>2 DEF EnterLoop
<1>3. CASE Cli
  BY <1>3 DEF Cli
<1>4. CASE TestCount
  BY <1>4 DEF TestCount
<1>5. CASE StiHlt
  BY <1>5 DEF StiHlt
<1>6. CASE PopMessage
  BY <1>6 DEF PopMessage
<1>7. CASE Sti
  BY <1>7 DEF Sti
<1>8. CASE TestFront
  BY <1>8 DEF TestFront
<1>9. CASE Handle
  BY <1>9 DEF Handle
<1>10. CASE Ack
  BY <1>10 DEF Ack
<1>11. CASE IntHandlerXHCI
  <2> PICK msg \in Message : main_queue' = Pushed(main_queue, msg)
    BY <1>11 DEF IntHandlerXHCI
  <2>1. main_queue'.count > 0
    BY PushedNotEmpty
  <2> QED
    BY <1>11, <2>1 DEF IntHandlerXHCI
<1>12. CASE HcEnqueue
  <2>1. BusyMeansEvents'
    BY <1>12 DEF HcEnqueue, cpu
  <2>2. CASE ehb
    BY <1>12, <2>1, <2>2 DEF HcEnqueue, cpu
  <2>3. CASE ~ehb
    <3>1. irr'
      BY <1>12, <2>3, Zenon DEF HcEnqueue
    <3> QED
      BY <2>1, <3>1
  <2> QED
    BY <2>2, <2>3
<1>13. CASE HcReraise
  BY <1>13 DEF HcReraise
<1>14. CASE UNCHANGED vars
  BY <1>14 DEF vars
<1> QED
  BY <1>1, <1>2, <1>3, <1>4, <1>5, <1>6, <1>7, <1>8, <1>9, <1>10, <1>11,
     <1>12, <1>13, <1>14 DEF Next, Main

(* The loop never halts on an event it has not been told of, for every     *)
(* queue capacity, a full queue included, and every ring size, when the    *)
(* controller announces an event only as it writes it (main.cpp event      *)
(* loop; EventRing::Pop).                                                  *)
THEOREM NoWakeUpIsLost == Spec => []NoLostEvent
<1>1. WakeInv => NoLostEvent
  BY DEF WakeInv
<1> QED
  BY <1>1, WakeInit, WakeStep, PTL DEF Spec
=============================================================================
