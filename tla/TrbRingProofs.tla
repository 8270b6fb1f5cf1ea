--------------------------- MODULE TrbRingProofs ----------------------------
(***************************************************************************)
(* The command and transfer rings for every size and every set of TRBs:    *)
(* what the controller reads is what the driver pushed.                    *)
(*                                                                         *)
(* The invariant: the cycle bits say which entries were written in the     *)
(* driver's present lap, the controller is in that lap behind the driver   *)
(* or in the one before it and ahead of the driver, and one entry at       *)
(* least is not pending.                                                   *)
(***************************************************************************)
EXTENDS TrbRing, SequenceTheorems, TLAPS

Laps ==
  /\ \A i \in 0 .. N : buf[i].cycle = cycle_bit <=> i < write_index
  /\ ccs = cycle_bit => deq <= write_index
  /\ ccs # cycle_bit => write_index < deq
  /\ Count <= N - 1
  /\ pc = "cycle" => Count <= N - 2

\* Entries once written hold TRBs, and the last one a link from the first
\* lap's end on.
Written ==
  /\ \A i \in 0 .. N - 1 : i < write_index \/ buf[N].trb = Link => buf[i].trb \in Trb
  /\ ccs # cycle_bit => buf[N].trb = Link
  /\ pc = "cycle" => buf[write_index].trb \in Trb
  /\ pc = "linkcycle" => buf[N].trb = Link
  /\ pc \in {"link", "linkcycle"} <=> write_index = N

RingInv == TypeOK /\ Laps /\ Written

LEMMA SizeFacts == N \in Nat /\ N >= 2 /\ N = Size - 1 /\ MaxPending \in Nat /\ MaxPending <= N - 1
BY RingAssumption DEF N

LEMMA CountType == ASSUME RingInv PROVE Count \in 0 .. N - 1
BY SizeFacts DEF RingInv, TypeOK, Laps, Count

\* The pending entries are not the one at write_index and not the link's.
LEMMA SlotFacts ==
  ASSUME RingInv, NEW k \in 1 .. Count
  PROVE  Slot(k) \in 0 .. N - 1 /\ Slot(k) # write_index /\ buf[Slot(k)].trb \in Trb
<1>1. /\ Slot(k) \in 0 .. N - 1
      /\ Slot(k) # write_index
      /\ ccs = cycle_bit => Slot(k) < write_index
  <2>1. /\ deq \in 0 .. N /\ write_index \in 0 .. N /\ k \in Int
        /\ k >= 1 /\ k <= Count /\ Count <= N - 1
    BY SizeFacts, CountType DEF RingInv, TypeOK, Laps
  <2>2. CASE ccs = cycle_bit
    BY SizeFacts, <2>1, <2>2 DEF Count, Slot
  <2>3. CASE ccs # cycle_bit
    BY SizeFacts, <2>1, <2>3 DEF Count, Slot
  <2> QED
    BY <2>2, <2>3
<1>2. buf[Slot(k)].trb \in Trb
  BY <1>1 DEF RingInv, TypeOK, Written
<1> QED
  BY <1>1, <1>2

PendingOK ==
  /\ Pending \in Seq(Trb)
  /\ Len(Pending) = Count
  /\ \A k \in 1 .. Count : Pending[k] = buf[Slot(k)].trb

LEMMA PendingType == RingInv => PendingOK
<1> SUFFICES ASSUME RingInv PROVE PendingOK
  OBVIOUS
<1>1. Count \in Nat
  BY CountType, SizeFacts
<1>2. \A k \in 1 .. Count : buf[Slot(k)].trb \in Trb
  BY SlotFacts
<1> QED
  BY <1>1, <1>2 DEF Pending, PendingOK

\* An entry the controller may read is the oldest pending one, or the link.
LEMMA OwnedFacts ==
  ASSUME RingInv, Owned
  PROVE  /\ buf[deq].trb # Link => deq < N /\ Count > 0 /\ Slot(1) = deq
         /\ buf[deq].trb = Link => deq = N /\ ccs # cycle_bit
<1> USE SizeFacts DEF RingInv, TypeOK
<1>1. ccs = cycle_bit <=> deq < write_index
  BY DEF Laps, Owned
<1>2. CASE deq = N
  BY <1>1, <1>2 DEF Written
<1>3. CASE deq < N
  <2>1. Count > 0 /\ Slot(1) = deq
    BY <1>1, <1>3 DEF Laps, Count, Slot
  <2>2. buf[deq].trb \in Trb
    BY <1>3, <2>1, CountType, SlotFacts
  <2> QED
    BY <1>3, <2>1, <2>2, RingAssumption
<1> QED
  BY <1>2, <1>3

-----------------------------------------------------------------------------
LEMMA RingInit == Init => RingInv
<1> SUFFICES ASSUME Init PROVE RingInv
  OBVIOUS
<1>1. TypeOK
  <2>1. [trb |-> Blank, cycle |-> 0] \in [trb : Trb \cup {Link, Blank}, cycle : Bit]
    BY DEF Bit
  <2>2. /\ 0 \in 0 .. N
        /\ 0 \in Bit /\ 1 \in Bit
    BY SizeFacts DEF Bit
  <2> QED
    BY <2>1, <2>2, Zenon DEF Init, TypeOK
<1>2. Laps
  BY SizeFacts DEF Init, Laps, Count
<1>3. Written
  BY SizeFacts, RingAssumption DEF Init, Written
<1> QED
  BY <1>1, <1>2, <1>3 DEF RingInv

LEMMA RingStep == RingInv /\ [Next]_vars => RingInv'
<1> SUFFICES ASSUME RingInv, [Next]_vars PROVE RingInv'
  OBVIOUS
<1> USE SizeFacts DEF RingInv, TypeOK, Bit
<1>1. ASSUME NEW v \in Trb, Push(v) PROVE RingInv'
  <2>1. write_index < N
    BY <1>1 DEF Push, Written
  <2>2. TypeOK'
    BY <1>1 DEF Push, hc
  <2>3. Laps'
    BY <1>1, <2>1, CountType DEF Push, hc, Laps, Count
  <2>4. Written'
    BY <1>1, <2>1 DEF Push, hc, Written
  <2> QED
    BY <2>2, <2>3, <2>4
<1>2. CASE PushCycle
  <2>1. write_index < N
    BY <1>2 DEF PushCycle, Written
  <2>2. TypeOK'
    <3>1. buf' \in [0 .. N -> [trb : Trb \cup {Link, Blank}, cycle : {0, 1}]]
      BY <1>2 DEF PushCycle
    <3>2. write_index' \in 0 .. N
      BY <1>2, <2>1 DEF PushCycle
    <3> QED
      BY <1>2, <3>1, <3>2 DEF PushCycle, hc
  <2>3. Laps'
    BY <1>2, <2>1 DEF PushCycle, hc, Laps, Count
  <2>4. Written'
    BY <1>2, <2>1 DEF PushCycle, hc, Written
  <2> QED
    BY <2>2, <2>3, <2>4
<1>3. CASE PushLink
  <2>1. write_index = N
    BY <1>3 DEF PushLink, Written
  <2>2. TypeOK'
    BY <1>3 DEF PushLink, hc
  <2>3. Laps'
    BY <1>3 DEF PushLink, hc, Laps, Count
  <2>4. Written'
    BY <1>3, <2>1 DEF PushLink, hc, Written
  <2> QED
    BY <2>2, <2>3, <2>4
<1>4. CASE PushLinkCycle
  <2>1. write_index = N /\ buf[N].trb = Link
    BY <1>4 DEF PushLinkCycle, Written
  <2>2. ccs = cycle_bit
    BY <2>1 DEF Laps
  <2>3. TypeOK'
    <3>1. buf' \in [0 .. N -> [trb : Trb \cup {Link, Blank}, cycle : {0, 1}]]
      BY <1>4 DEF PushLinkCycle
    <3>2. cycle_bit' \in {0, 1}
      BY <1>4 DEF PushLinkCycle, Flip
    <3> QED
      BY <1>4, <3>1, <3>2 DEF PushLinkCycle, hc
  <2>4. Laps'
    BY <1>4, <2>1, <2>2 DEF PushLinkCycle, hc, Flip, Laps, Count
  <2>5. Written'
    BY <1>4, <2>1 DEF PushLinkCycle, hc, Written
  <2> QED
    BY <2>3, <2>4, <2>5
<1>5. CASE RingDoorbell
  BY <1>5 DEF RingDoorbell, hc, Laps, Written, Count
<1>6. CASE Fetch
  <2>1. deq < N /\ Count > 0 /\ Slot(1) = deq
    BY <1>6, OwnedFacts DEF Fetch
  <2>2. buf[deq].trb \in Trb
    BY <2>1, CountType, SlotFacts
  <2>3. TypeOK'
    BY <1>6, <2>1, <2>2 DEF Fetch, driver
  <2>4. Laps'
    BY <1>6, <2>1, CountType DEF Fetch, driver, Laps, Count
  <2>5. Written'
    BY <1>6 DEF Fetch, driver, Written
  <2> QED
    BY <2>3, <2>4, <2>5
<1>7. CASE FollowLink
  <2>1. deq = N /\ ccs # cycle_bit
    BY <1>7, OwnedFacts DEF FollowLink
  <2>2. TypeOK'
    BY <1>7 DEF FollowLink, driver, Flip
  <2>3. Laps'
    <3>1. ccs' = cycle_bit /\ deq' = 0
      BY <1>7, <2>1 DEF FollowLink, Flip
    <3>2. Count' = Count
      BY <1>7, <2>1, <3>1 DEF FollowLink, driver, Count
    <3> QED
      BY <1>7, <2>1, <3>1, <3>2 DEF FollowLink, driver, Laps
  <2>4. Written'
    BY <1>7, <2>1 DEF FollowLink, driver, Flip, Written
  <2> QED
    BY <2>2, <2>3, <2>4
<1>8. CASE Stop
  BY <1>8 DEF Stop, driver, hc, Laps, Written, Count
<1>9. CASE UNCHANGED vars
  BY <1>9 DEF vars, Laps, Written, Count
<1> QED
  BY <1>1, <1>2, <1>3, <1>4, <1>5, <1>6, <1>7, <1>8, <1>9
     DEF Next, FinishPush, Controller

(* The positions stay inside the buffer and the controller is handed       *)
(* nothing but TRBs that the driver pushed (Ring::Push).                   *)
THEOREM RingTypeCorrect == Spec => []TypeOK
<1>1. RingInv => TypeOK
  BY DEF RingInv
<1> QED
  BY <1>1, RingInit, RingStep, PTL DEF Spec

-----------------------------------------------------------------------------
(* The three ways a step can change the pending TRBs.                      *)

LEMMA PendingSame ==
  ASSUME RingInv, RingInv', Count' = Count,
         \A k \in 1 .. Count : Slot(k)' = Slot(k) /\ buf'[Slot(k)].trb = buf[Slot(k)].trb
  PROVE  Pending' = Pending
<1>1. /\ Pending \in Seq(Trb)
      /\ Len(Pending) = Count
      /\ \A k \in 1 .. Count : Pending[k] = buf[Slot(k)].trb
  BY PendingType DEF PendingOK
<1>p. PendingOK'
  BY PendingType, PTL
<1>2. /\ Pending' \in Seq(Trb)
      /\ Len(Pending') = Count'
      /\ \A k \in 1 .. Count' : Pending'[k] = buf'[Slot(k)'].trb
  BY <1>p DEF PendingOK
<1> QED
  BY <1>1, <1>2, SeqEqual

LEMMA PendingGrows ==
  ASSUME RingInv, RingInv', NEW v \in Trb,
         NEW n \in Nat, n = Count + 1, Count' = n,
         \A k \in 1 .. Count : Slot(k)' = Slot(k) /\ buf'[Slot(k)].trb = buf[Slot(k)].trb,
         buf'[Slot(n)'].trb = v
  PROVE  Pending' = Append(Pending, v)
<1>1. /\ Pending \in Seq(Trb)
      /\ Len(Pending) = Count
      /\ \A k \in 1 .. Count : Pending[k] = buf[Slot(k)].trb
  BY PendingType DEF PendingOK
<1>p. PendingOK'
  BY PendingType, PTL
<1>2. /\ Pending' \in Seq(Trb)
      /\ Len(Pending') = Count'
      /\ \A k \in 1 .. Count' : Pending'[k] = buf'[Slot(k)'].trb
  BY <1>p DEF PendingOK
<1>3. Count \in Nat
  BY CountType, SizeFacts
<1>4. /\ Append(Pending, v) \in Seq(Trb)
      /\ Len(Append(Pending, v)) = Count + 1
      /\ \A k \in 1 .. Count : Append(Pending, v)[k] = Pending[k]
      /\ Append(Pending, v)[Count + 1] = v
  BY <1>1, <1>3
<1>5. ASSUME NEW k \in 1 .. Count + 1
      PROVE  Pending'[k] = Append(Pending, v)[k]
  <2>1. CASE k = Count + 1
    <3>1. Pending'[k] = buf'[Slot(n)'].trb
      BY <1>2, <1>3, <2>1
    <3> QED
      BY <1>4, <2>1, <3>1
  <2>2. CASE k # Count + 1
    <3>1. k \in 1 .. Count
      BY <1>3, <2>2
    <3> QED
      BY <1>1, <1>2, <1>3, <1>4, <3>1
  <2> QED
    BY <2>1, <2>2
<1> QED
  BY <1>2, <1>4, <1>5, SeqEqual

LEMMA PendingShrinks ==
  ASSUME RingInv, RingInv', Count > 0, Count' = Count - 1,
         \A k \in 1 .. Count' : Slot(k)' = Slot(k + 1) /\ buf' = buf
  PROVE  /\ Pending # <<>>
         /\ Head(Pending) = buf[Slot(1)].trb
         /\ Pending' = Tail(Pending)
<1>1. /\ Pending \in Seq(Trb)
      /\ Len(Pending) = Count
      /\ \A k \in 1 .. Count : Pending[k] = buf[Slot(k)].trb
  BY PendingType DEF PendingOK
<1>p. PendingOK'
  BY PendingType, PTL
<1>2. /\ Pending' \in Seq(Trb)
      /\ Len(Pending') = Count'
      /\ \A k \in 1 .. Count' : Pending'[k] = buf'[Slot(k)'].trb
  BY <1>p DEF PendingOK
<1>3. Count \in Nat
  BY CountType, SizeFacts
<1>4. Pending # <<>> /\ Head(Pending) = buf[Slot(1)].trb
  BY <1>1, <1>3, EmptySeq
<1>5. /\ Tail(Pending) \in Seq(Trb)
      /\ Len(Tail(Pending)) = Count'
      /\ \A k \in 1 .. Count' : Tail(Pending)[k] = Pending[k + 1]
  BY <1>1, <1>4, HeadTailProperties
<1>6. ASSUME NEW k \in 1 .. Count'
      PROVE  Pending'[k] = Tail(Pending)[k]
  <2>1. k + 1 \in 1 .. Count
    BY <1>3
  <2> QED
    BY <1>1, <1>2, <1>5, <2>1
<1> QED
  BY <1>2, <1>4, <1>5, <1>6, SeqEqual

LEMMA StepMaps == RingInv /\ [Next]_vars => [Channel!Next]_(Channel!vars)
<1> SUFFICES ASSUME RingInv, [Next]_vars PROVE [Channel!Next]_(Channel!vars)
  OBVIOUS
<1>0. RingInv'
  BY RingStep
<1>a. Count \in 0 .. N - 1
  BY CountType
<1>b. \A k \in 1 .. Count : Slot(k) \in 0 .. N - 1 /\ Slot(k) # write_index
  BY SlotFacts
<1> USE SizeFacts DEF TypeOK
<1>1. ASSUME NEW v \in Trb, Push(v) PROVE UNCHANGED <<Pending, last>>
  <2>1. Count' = Count /\ \A k \in 1 .. Count : Slot(k)' = Slot(k)
    BY <1>1 DEF Push, hc, Count, Slot
  <2>2. \A k \in 1 .. Count : buf'[Slot(k)].trb = buf[Slot(k)].trb
    BY <1>1, <1>a, <1>b DEF Push, RingInv
  <2> QED
    BY <1>0, <1>1, <2>1, <2>2, PendingSame DEF Push, hc
<1>2. CASE PushCycle
  <2>1. write_index < N /\ buf[write_index].trb \in Trb
    BY <1>2 DEF PushCycle, RingInv, Written
  <2>2. PICK n \in Nat : n = Count + 1
    BY <1>a
  <2>3. Count' = n
    <3>1. /\ ccs' = ccs /\ cycle_bit' = cycle_bit /\ deq' = deq
          /\ write_index' = write_index + 1
      BY <1>2 DEF PushCycle, hc
    <3> QED
      BY <2>2, <3>1 DEF RingInv, Count
  <2>4. \A k \in 1 .. n : Slot(k)' = Slot(k)
    BY <1>2 DEF PushCycle, hc, Slot
  <2>5. Slot(n) = write_index
    BY <2>1, <2>2, <1>a DEF RingInv, Laps, Count, Slot
  <2>6. \A i \in 0 .. N : buf'[i].trb = buf[i].trb
    BY <1>2 DEF PushCycle, RingInv
  <2>7. \A k \in 1 .. Count : Slot(k)' = Slot(k) /\ buf'[Slot(k)].trb = buf[Slot(k)].trb
    BY <2>2, <2>4, <2>6, <1>a, <1>b
  <2>8. buf'[Slot(n)'].trb = buf[write_index].trb
    BY <2>1, <2>2, <2>4, <2>5, <2>6, <1>a DEF RingInv
  <2>9. Pending' = Append(Pending, buf[write_index].trb)
    BY <1>0, <2>1, <2>2, <2>3, <2>7, <2>8, PendingGrows
  <2> QED
    BY <1>2, <2>1, <2>9 DEF PushCycle, hc, Channel!Send, Channel!Next
<1>3. CASE PushLink
  <2>1. Count' = Count /\ \A k \in 1 .. Count : Slot(k)' = Slot(k)
    BY <1>3 DEF PushLink, hc, Count, Slot
  <2>2. \A k \in 1 .. Count : buf'[Slot(k)].trb = buf[Slot(k)].trb
    BY <1>3, <1>a, <1>b DEF PushLink, RingInv
  <2> QED
    BY <1>0, <1>3, <2>1, <2>2, PendingSame DEF PushLink, hc, Channel!vars
<1>4. CASE PushLinkCycle
  <2>1. write_index = N /\ ccs = cycle_bit
    BY <1>4 DEF PushLinkCycle, RingInv, Written, Laps
  <2>2. Count' = Count /\ \A k \in 1 .. Count : Slot(k)' = Slot(k)
    <3>1. ccs' = ccs /\ deq' = deq /\ write_index' = 0
      BY <1>4 DEF PushLinkCycle, hc
    <3>2. cycle_bit' # ccs'
      BY <1>4, <2>1, <3>1 DEF PushLinkCycle, Flip, RingInv, Bit
    <3> QED
      BY <2>1, <3>1, <3>2 DEF Count, Slot, RingInv
  <2>3. \A k \in 1 .. Count : buf'[Slot(k)].trb = buf[Slot(k)].trb
    BY <1>4, <1>a, <1>b DEF PushLinkCycle, RingInv
  <2> QED
    BY <1>0, <1>4, <2>2, <2>3, PendingSame DEF PushLinkCycle, hc, Channel!vars
<1>5. CASE RingDoorbell
  <2>1. Count' = Count /\ \A k \in 1 .. Count : Slot(k)' = Slot(k)
    BY <1>5 DEF RingDoorbell, hc, Count, Slot
  <2> QED
    BY <1>0, <1>5, <2>1, PendingSame DEF RingDoorbell, hc, Channel!vars
<1>6. CASE Fetch
  <2>1. deq < N /\ Count > 0 /\ Slot(1) = deq
    BY <1>6, OwnedFacts DEF Fetch
  <2>2. Count' = Count - 1
    BY <1>6, <1>a DEF Fetch, driver, RingInv, Count
  <2>3. \A k \in 1 .. Count' : Slot(k)' = Slot(k + 1) /\ buf' = buf
    BY <1>6, <2>2, <1>a DEF Fetch, driver, RingInv, Slot
  <2>4. /\ Pending # <<>>
        /\ Head(Pending) = buf[deq].trb
        /\ Pending' = Tail(Pending)
    BY <1>0, <2>1, <2>2, <2>3, PendingShrinks
  <2> QED
    BY <1>6, <2>4 DEF Fetch, Channel!Receive, Channel!Next
<1>7. CASE FollowLink
  <2>1. deq = N /\ ccs # cycle_bit
    BY <1>7, OwnedFacts DEF FollowLink
  <2>2. ccs' = cycle_bit /\ deq' = 0
    BY <1>7, <2>1 DEF FollowLink, Flip, RingInv, Bit
  <2>3. Count' = Count /\ \A k \in 1 .. Count : Slot(k)' = Slot(k)
    <3>1. write_index' = write_index /\ cycle_bit' = cycle_bit
      BY <1>7 DEF FollowLink, driver
    <3>2. Count' = Count
      BY <2>1, <2>2, <3>1 DEF Count, RingInv
    <3>3. ASSUME NEW k \in 1 .. Count PROVE Slot(k)' = Slot(k)
      <4>1. k \in 1 .. N
        BY <1>a
      <4> QED
        BY <2>1, <2>2, <4>1 DEF Slot
    <3> QED
      BY <3>2, <3>3
  <2> QED
    BY <1>0, <1>7, <2>3, PendingSame DEF FollowLink, driver, Channel!vars
<1>8. CASE Stop
  <2>1. Count' = Count /\ \A k \in 1 .. Count : Slot(k)' = Slot(k)
    BY <1>8 DEF Stop, driver, hc, Count, Slot
  <2> QED
    BY <1>0, <1>8, <2>1, PendingSame DEF Stop, driver, hc, Channel!vars
<1>9. CASE UNCHANGED vars
  <2>1. Count' = Count /\ \A k \in 1 .. Count : Slot(k)' = Slot(k)
    BY <1>9 DEF vars, Count, Slot
  <2> QED
    BY <1>0, <1>9, <2>1, PendingSame DEF vars, Channel!vars
<1> QED
  BY <1>1, <1>2, <1>3, <1>4, <1>5, <1>6, <1>7, <1>8, <1>9
     DEF Next, FinishPush, Controller, Channel!vars

(* For every size of the ring and every set of TRBs the controller is      *)
(* handed each pushed TRB once and in order, as long as the callers keep   *)
(* one entry free beside the link (Ring::Push).                            *)
THEOREM RingImplementsChannel == Spec => ImplementsChannel
<1>1. Init => Channel!Init
  <2> SUFFICES ASSUME Init PROVE Channel!Init
    OBVIOUS
  <2>1. RingInv /\ Count = 0
    BY RingInit DEF Init, Count
  <2>2. Pending = <<>>
    BY <2>1, PendingType, EmptySeq DEF PendingOK
  <2> QED
    BY <2>2 DEF Init, Channel!Init
<1> QED
  BY <1>1, StepMaps, RingInit, RingStep, PTL
     DEF Spec, ImplementsChannel, Channel!Spec
=============================================================================
