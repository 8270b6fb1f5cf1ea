----------------------------- MODULE EventRing ------------------------------
(***************************************************************************)
(* EventRing of kernel/usb/xhci/ring.cpp: the controller writes events,    *)
(* the drain loop of the kernel takes them.  HasFront compares the cycle   *)
(* bit of the entry at ERDP with the driver's own; Pop moves ERDP, which   *)
(* is all the controller knows of the driver's position.  ERDP.EHB and the *)
(* interrupt are the subject of EventLoop.  The controller is external.    *)
(***************************************************************************)
EXTENDS Naturals, Sequences

CONSTANTS
  Size,   \* ring_segment_size of the only segment
  Trb,    \* the events
  Blank   \* a TRB of zeros

ASSUME EventRingAssumption == Size \in Nat /\ Size >= 2 /\ Blank \notin Trb

VARIABLES
  buf,         \* the entries: a TRB and its cycle bit
  enq, pcs,    \* the controller's position and cycle state
  erdp,        \* the ERDP register, as an index
  cycle_bit,
  pc,          \* the drain loop: "idle", "test" or "handle"
  last         \* {the event handled last}

vars   == <<buf, enq, pcs, erdp, cycle_bit, pc, last>>
driver == <<erdp, cycle_bit, pc, last>>
hc     == <<buf, enq, pcs>>

Flip(bit) == 1 - bit

Init ==
  /\ buf = [i \in 0 .. Size - 1 |-> [trb |-> Blank, cycle |-> 0]]
  /\ enq = 0
  /\ pcs = 1
  /\ erdp = 0
  /\ cycle_bit = 1
  /\ pc = "idle"
  /\ last = {}

-----------------------------------------------------------------------------
(* The controller.  It leaves one entry free in front of ERDP, and writes  *)
(* the cycle bit last.                                                     *)
After(i) == IF i = Size - 1 THEN 0 ELSE i + 1

HcPost(v) ==
  /\ After(enq) # erdp
  /\ buf' = [buf EXCEPT ![enq] = [trb |-> v, cycle |-> pcs]]
  /\ enq' = After(enq)
  /\ pcs' = IF enq' = 0 THEN Flip(pcs) ELSE pcs
  /\ UNCHANGED driver

-----------------------------------------------------------------------------
(* The drain loop.                                                         *)

\* Mutated: the driver forgets that the meaning of the bit alternates.
HasFrontNoLap == buf[erdp].cycle = 1

HasFront == buf[erdp].cycle = cycle_bit

Wake ==
  /\ pc = "idle"
  /\ pc' = "test"
  /\ UNCHANGED <<hc, erdp, cycle_bit, last>>

TestFront ==
  /\ pc = "test"
  /\ pc' = IF HasFront THEN "handle" ELSE "idle"
  /\ UNCHANGED <<hc, erdp, cycle_bit, last>>

\* Mutated: the driver's cycle state is not flipped at the wrap; the end of
\* the segment is missed by one.
PopNoFlip ==
  /\ pc = "handle"
  /\ last' = {buf[erdp].trb}
  /\ erdp' = After(erdp)
  /\ pc' = "test"
  /\ UNCHANGED <<hc, cycle_bit>>
PopLateWrap ==
  /\ pc = "handle"
  /\ last' = {buf[erdp].trb}
  /\ erdp' = erdp + 1
  /\ cycle_bit' = IF erdp' = Size THEN Flip(cycle_bit) ELSE cycle_bit
  /\ pc' = "test"
  /\ UNCHANGED hc

\* The handler reads the event in place, through Front(), until Pop.
Pop ==
  /\ pc = "handle"
  /\ last' = {buf[erdp].trb}
  /\ erdp' = After(erdp)
  /\ cycle_bit' = IF erdp' = 0 THEN Flip(cycle_bit) ELSE cycle_bit
  /\ pc' = "test"
  /\ UNCHANGED hc

-----------------------------------------------------------------------------
Next == Wake \/ TestFront \/ Pop \/ \E v \in Trb : HcPost(v)

Spec == Init /\ [][Next]_vars

-----------------------------------------------------------------------------
Bit == {0, 1}

TypeOK ==
  /\ buf \in [0 .. Size - 1 -> [trb : Trb \cup {Blank}, cycle : Bit]]
  /\ enq \in 0 .. Size - 1
  /\ pcs \in Bit
  /\ erdp \in 0 .. Size - 1
  /\ cycle_bit \in Bit
  /\ pc \in {"idle", "test", "handle"}
  /\ last \subseteq Trb

\* Events the controller has written and the driver not popped.
Count == IF cycle_bit = pcs THEN enq - erdp ELSE enq + Size - erdp

Slot(k) == IF erdp + k <= Size THEN erdp + k - 1 ELSE erdp + k - 1 - Size

Pending == [k \in 1 .. Count |-> buf[Slot(k)].trb]

Channel == INSTANCE TrbChannel WITH pending <- Pending

(* Each event is handled once and in the order in which the controller     *)
(* wrote it, no entry is overwritten while its handler reads it, and the   *)
(* flips of the two cycle states stay in step (EventRing::HasFront,        *)
(* EventRing::Front, EventRing::Pop).                                      *)
ImplementsChannel == Channel!Spec

(* The drain loop ends only when there is no event left, whatever lap the  *)
(* two sides are in (main.cpp:296; EventRing::HasFront).  This is what the *)
(* test of the ring in EventLoop relies on.                                *)
LoopEmptiesRing == [][pc = "test" /\ pc' = "idle" => Pending = <<>>]_vars
=============================================================================
