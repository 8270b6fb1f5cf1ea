-------------------------- MODULE EventRingProofs ---------------------------
(***************************************************************************)
(* The event ring for every size and every set of events.  The cycle bits  *)
(* say which entries belong to the controller's present lap; the driver is *)
(* in that lap behind the controller, or in the one before it and ahead.   *)
(***************************************************************************)
EXTENDS EventRing, SequenceTheorems, TLAPS

Laps ==
  /\ \A i \in 0 .. Size - 1 : buf[i].cycle = pcs <=> i < enq
  /\ cycle_bit = pcs => erdp <= enq
  /\ cycle_bit # pcs => enq < erdp
  /\ pc = "handle" => Count > 0

\* The entries from ERDP to the controller's position are events.
Written ==
  \A i \in 0 .. Size - 1 :
    (IF cycle_bit = pcs THEN erdp <= i /\ i < enq ELSE i >= erdp \/ i < enq)
      => buf[i].trb \in Trb

RingInv == TypeOK /\ Laps /\ Written

LEMMA SizeFacts == Size \in Nat /\ Size >= 2
BY EventRingAssumption

LEMMA CountType == ASSUME RingInv PROVE Count \in 0 .. Size - 1
BY SizeFacts DEF RingInv, TypeOK, Laps, Count

LEMMA FrontMeansPending == ASSUME RingInv PROVE HasFront <=> Count > 0
BY SizeFacts DEF RingInv, TypeOK, Laps, Count, HasFront, Bit

LEMMA SlotFacts ==
  ASSUME RingInv, NEW k \in 1 .. Count
  PROVE  Slot(k) \in 0 .. Size - 1 /\ Slot(k) # enq /\ buf[Slot(k)].trb \in Trb
<1>1. /\ Slot(k) \in 0 .. Size - 1
      /\ Slot(k) # enq
      /\ IF cycle_bit = pcs THEN erdp <= Slot(k) /\ Slot(k) < enq
                            ELSE Slot(k) >= erdp \/ Slot(k) < enq
  BY SizeFacts DEF RingInv, TypeOK, Laps, Count, Slot
<1>2. buf[Slot(k)].trb \in Trb
  BY <1>1 DEF RingInv, Written
<1> QED
  BY <1>1, <1>2

PendingOK ==
  /\ Pending \in Seq(Trb)
  /\ Len(Pending) = Count
  /\ \A k \in 1 .. Count : Pending[k] = buf[Slot(k)].trb

LEMMA PendingType == RingInv => PendingOK
<1> SUFFICES ASSUME RingInv PROVE PendingOK
  OBVIOUS
<1>1. Count \in Nat
  BY CountType, SizeFacts
<1>2. \A k \in 1 .. Count : buf[Slot(k)].trb \in Trb
  BY SlotFacts
<1> QED
  BY <1>1, <1>2 DEF Pending, PendingOK

-----------------------------------------------------------------------------
LEMMA RingInit == Init => RingInv
<1> SUFFICES ASSUME Init PROVE RingInv
  OBVIOUS
<1>1. TypeOK
  <2>1. [trb |-> Blank, cycle |-> 0] \in [trb : Trb \cup {Blank}, cycle : Bit]
    BY DEF Bit
  <2>2. /\ 0 \in 0 .. Size - 1
        /\ 0 \in Bit /\ 1 \in Bit
    BY SizeFacts DEF Bit
  <2> QED
    BY <2>1, <2>2, Zenon DEF Init, TypeOK
<1>2. Laps /\ Written
  BY SizeFacts DEF Init, Laps, Written, Count
<1> QED
  BY <1>1, <1>2 DEF RingInv

LEMMA RingStep == RingInv /\ [Next]_vars => RingInv'
<1> SUFFICES ASSUME RingInv, [Next]_vars PROVE RingInv'
  OBVIOUS
<1>a. Count \in Nat
  BY CountType, SizeFacts
<1>b. Count > 0 => Slot(1) \in 0 .. Size - 1 /\ buf[Slot(1)].trb \in Trb
  <2>1. Count > 0 => 1 \in 1 .. Count
    BY <1>a
  <2> QED
    BY <2>1, SlotFacts
<1> USE SizeFacts DEF RingInv, TypeOK, Bit
<1>1. ASSUME NEW v \in Trb, HcPost(v) PROVE RingInv'
  <2>1. /\ enq' = IF enq = Size - 1 THEN 0 ELSE enq + 1
        /\ pcs' = IF enq = Size - 1 THEN 1 - pcs ELSE pcs
        /\ enq' # erdp
        /\ erdp' = erdp /\ cycle_bit' = cycle_bit /\ pc' = pc /\ last' = last
    BY <1>1 DEF HcPost, After, Flip, driver
  <2>2. /\ buf' \in [0 .. Size - 1 -> [trb : Trb \cup {Blank}, cycle : Bit]]
        /\ \A i \in 0 .. Size - 1 :
             buf'[i] = IF i = enq THEN [trb |-> v, cycle |-> pcs] ELSE buf[i]
    BY <1>1 DEF HcPost
  <2>3. TypeOK'
    BY <2>1, <2>2
  <2>4. Laps'
    <3>1. \A i \in 0 .. Size - 1 : buf'[i].cycle = pcs' <=> i < enq'
      BY <2>1, <2>2 DEF Laps
    <3>2. /\ cycle_bit' = pcs' => erdp' <= enq'
          /\ cycle_bit' # pcs' => enq' < erdp'
      BY <2>1 DEF Laps
    <3>3. Count' > Count
      BY <2>1, <3>2 DEF Laps, Count
    <3>4. Count' \in Int
      BY <2>1 DEF Count
    <3>5. Count' > 0
      BY <1>a, <3>3, <3>4
    <3> QED
      BY <3>1, <3>2, <3>5 DEF Laps
  <2>5. Written'
    BY <2>1, <2>2 DEF Laps, Written
  <2> QED
    BY <2>3, <2>4, <2>5
<1>2. CASE Wake
  BY <1>2 DEF Wake, hc, Laps, Written, Count
<1>3. CASE TestFront
  BY <1>3, FrontMeansPending DEF TestFront, hc, Laps, Written, Count
<1>4. CASE Pop
  <2>1. /\ erdp' = IF erdp = Size - 1 THEN 0 ELSE erdp + 1
        /\ cycle_bit' = IF erdp = Size - 1 THEN 1 - cycle_bit ELSE cycle_bit
        /\ pc' = "test"
        /\ buf' = buf /\ enq' = enq /\ pcs' = pcs
        /\ last' = {buf[erdp].trb}
    BY <1>4 DEF Pop, After, Flip, hc
  <2>2. Count > 0
    BY <1>4 DEF Pop, Laps
  <2>3. Slot(1) = erdp
    BY DEF Slot
  <2>4. buf[erdp].trb \in Trb
    BY <2>2, <2>3, <1>b
  <2>5. TypeOK'
    BY <2>1, <2>4
  <2>6. Laps'
    BY <2>1, <2>2 DEF Laps, Count
  <2>7. Written'
    BY <2>1, <2>2 DEF Laps, Written, Count
  <2> QED
    BY <2>5, <2>6, <2>7
<1>5. CASE UNCHANGED vars
  BY <1>5 DEF vars, Laps, Written, Count
<1> QED
  BY <1>1, <1>2, <1>3, <1>4, <1>5 DEF Next

(* ERDP stays inside the segment and the driver reads nothing but events   *)
(* the controller wrote (EventRing::Pop).                                  *)
THEOREM RingTypeCorrect == Spec => []TypeOK
<1>1. RingInv => TypeOK
  BY DEF RingInv
<1> QED
  BY <1>1, RingInit, RingStep, PTL DEF Spec

-----------------------------------------------------------------------------
LEMMA StepMaps == RingInv /\ [Next]_vars => [Channel!Next]_(Channel!vars)
<1> SUFFICES ASSUME RingInv, [Next]_vars PROVE [Channel!Next]_(Channel!vars)
  OBVIOUS
<1>0. RingInv'
  BY RingStep
<1>a. Count \in 0 .. Size - 1
  BY CountType
<1>b. \A k \in 1 .. Count : Slot(k) \in 0 .. Size - 1 /\ Slot(k) # enq
  BY SlotFacts
<1>c. /\ Pending \in Seq(Trb)
      /\ Len(Pending) = Count
      /\ \A k \in 1 .. Count : Pending[k] = buf[Slot(k)].trb
  BY PendingType DEF PendingOK
<1>p. PendingOK'
  BY <1>0, PendingType, PTL
<1>d. /\ Pending' \in Seq(Trb)
      /\ Len(Pending') = Count'
      /\ \A k \in 1 .. Count' : Pending'[k] = buf'[Slot(k)'].trb
  BY <1>p DEF PendingOK
<1> USE SizeFacts DEF TypeOK, Bit
<1>1. ASSUME NEW v \in Trb, HcPost(v) PROVE Channel!Send(v)
  <2>1. /\ enq' = IF enq = Size - 1 THEN 0 ELSE enq + 1
        /\ pcs' = IF enq = Size - 1 THEN 1 - pcs ELSE pcs
        /\ enq' # erdp
        /\ erdp' = erdp /\ cycle_bit' = cycle_bit /\ last' = last
    BY <1>1 DEF HcPost, After, Flip, driver, RingInv
  <2>2. \A i \in 0 .. Size - 1 :
          buf'[i].trb = IF i = enq THEN v ELSE buf[i].trb
    BY <1>1 DEF HcPost, RingInv
  <2>3. PICK n \in Nat : n = Count + 1
    BY <1>a
  <2>4. Count' = n
    BY <2>1, <2>3 DEF RingInv, Laps, Count
  <2>5. \A k \in 1 .. n : Slot(k)' = Slot(k)
    BY <2>1 DEF Slot
  <2>6. Slot(n) = enq
    BY <2>3, <1>a DEF RingInv, Laps, Count, Slot
  <2>7. /\ Append(Pending, v) \in Seq(Trb)
        /\ Len(Append(Pending, v)) = n
        /\ \A k \in 1 .. Count : Append(Pending, v)[k] = Pending[k]
        /\ Append(Pending, v)[n] = v
    BY <1>a, <1>c, <2>3
  <2>8. ASSUME NEW k \in 1 .. n PROVE Pending'[k] = Append(Pending, v)[k]
    <3>1. Pending'[k] = buf'[Slot(k)].trb
      BY <1>d, <2>4, <2>5
    <3>2. CASE k = n
      BY <2>2, <2>6, <2>7, <3>1, <3>2 DEF RingInv
    <3>3. CASE k # n
      <4>1. k \in 1 .. Count
        BY <2>3, <3>3, <1>a
      <4> QED
        BY <1>b, <1>c, <2>2, <2>7, <3>1, <4>1
    <3> QED
      BY <3>2, <3>3
  <2>9. Pending' = Append(Pending, v)
    BY <1>d, <2>4, <2>7, <2>8, SeqEqual
  <2> QED
    BY <2>1, <2>9 DEF Channel!Send
<1>2. CASE Pop
  <2>1. /\ erdp' = IF erdp = Size - 1 THEN 0 ELSE erdp + 1
        /\ cycle_bit' = IF erdp = Size - 1 THEN 1 - cycle_bit ELSE cycle_bit
        /\ buf' = buf /\ enq' = enq /\ pcs' = pcs
        /\ last' = {buf[erdp].trb}
    BY <1>2 DEF Pop, After, Flip, hc, RingInv
  <2>2. Count > 0 /\ Slot(1) = erdp
    BY <1>2 DEF Pop, RingInv, Laps, Slot
  <2>3. Count' = Count - 1
    BY <2>1, <2>2 DEF RingInv, Laps, Count
  <2>4. ASSUME NEW k \in 1 .. Size - 1 PROVE Slot(k)' = Slot(k + 1)
    BY <2>1 DEF RingInv, Slot
  <2>5. Pending # <<>> /\ Head(Pending) = buf[erdp].trb
    BY <1>a, <1>c, <2>2, EmptySeq
  <2>6. /\ Tail(Pending) \in Seq(Trb)
        /\ Len(Tail(Pending)) = Count - 1
        /\ \A k \in 1 .. Count - 1 : Tail(Pending)[k] = Pending[k + 1]
    BY <1>c, <2>5, HeadTailProperties
  <2>7. ASSUME NEW k \in 1 .. Count - 1 PROVE Pending'[k] = Tail(Pending)[k]
    <3>1. k \in 1 .. Size - 1 /\ k + 1 \in 1 .. Count /\ k \in 1 .. Count'
      BY <1>a, <2>3
    <3> QED
      BY <1>c, <1>d, <2>1, <2>4, <2>6, <3>1
  <2>8. Pending' = Tail(Pending)
    BY <1>d, <2>3, <2>6, <2>7, SeqEqual
  <2> QED
    BY <2>1, <2>5, <2>8 DEF Channel!Receive, Channel!Next
<1>3. ASSUME UNCHANGED <<hc, erdp, cycle_bit, last>> PROVE UNCHANGED Channel!vars
  BY <1>3 DEF hc, Pending, Count, Slot, Channel!vars
<1>4. CASE Wake \/ TestFront \/ UNCHANGED vars
  BY <1>3, <1>4 DEF Wake, TestFront, vars, hc
<1> QED
  BY <1>1, <1>2, <1>4 DEF Next, Channel!Next

(* For every size of the ring and every set of events, each event is       *)
(* handled once and in order (EventRing::HasFront, Front, Pop).            *)
THEOREM EventRingImplementsChannel == Spec => ImplementsChannel
<1>1. Init => Channel!Init
  <2> SUFFICES ASSUME Init PROVE Channel!Init
    OBVIOUS
  <2>1. RingInv /\ Count = 0
    BY RingInit DEF Init, Count
  <2>2. Pending = <<>>
    BY <2>1, PendingType, EmptySeq DEF PendingOK
  <2> QED
    BY <2>2 DEF Init, Channel!Init
<1> QED
  BY <1>1, StepMaps, RingInit, RingStep, PTL
     DEF Spec, ImplementsChannel, Channel!Spec

(* The drain loop leaves nothing behind, for every size of the ring        *)
(* (main.cpp:296, EventRing::HasFront).                                    *)
THEOREM LoopLeavesNothing == Spec => LoopEmptiesRing
<1>1. RingInv /\ [Next]_vars => [pc = "test" /\ pc' = "idle" => Pending = <<>>]_vars
  <2> SUFFICES ASSUME RingInv, Next, pc = "test", pc' = "idle"
               PROVE  Pending = <<>>
    OBVIOUS
  <2>1. ~HasFront
    BY DEF Next, Wake, TestFront, Pop, HcPost, driver
  <2>2. Count = 0
    BY <2>1, FrontMeansPending, CountType, SizeFacts
  <2> QED
    BY <2>2, PendingType, EmptySeq DEF PendingOK
<1> QED
  BY <1>1, RingInit, RingStep, PTL DEF Spec, LoopEmptiesRing
=============================================================================
