------------------------------ MODULE TrbRing -------------------------------
(***************************************************************************)
(* Ring of kernel/usb/xhci/ring.cpp: the command ring and the transfer     *)
(* rings.  The driver writes TRBs and rings a doorbell; the controller     *)
(* reads on as long as it finds TRBs with its own cycle state.  They share *)
(* nothing but the buffer: neither knows the other's position, and Push    *)
(* does not look for free space.                                           *)
(*                                                                         *)
(* CopyToLast is two steps, the first three words and the word with the    *)
(* cycle bit, because the controller may read between them.  The           *)
(* controller is external.                                                 *)
(***************************************************************************)
EXTENDS Naturals, Sequences

CONSTANTS
  Size,        \* buf_size_
  Trb,         \* TRBs the driver pushes
  Link, Blank, \* the link TRB, a TRB of zeros
  MaxPending   \* TRBs the callers have in the ring at a time

N == Size - 1   \* the index of the link TRB

\* One place more and the ring loses its link TRB: see the README.
ASSUME RingAssumption ==
  /\ Size \in Nat
  /\ MaxPending \in 1 .. Size - 2
  /\ Link \notin Trb /\ Blank \notin Trb /\ Link # Blank

VARIABLES
  buf,          \* the entries: a TRB and its cycle bit
  write_index,
  cycle_bit,
  pc,           \* where the caller is: "idle", inside Push, or before the doorbell
  deq, ccs,     \* the controller's position and cycle state
  running,      \* the controller has heard the doorbell and not stopped since
  last          \* {the TRB it took last}

vars   == <<buf, write_index, cycle_bit, pc, deq, ccs, running, last>>
driver == <<buf, write_index, cycle_bit, pc>>
hc     == <<deq, ccs, last>>

Flip(bit) == 1 - bit

\* TRBs the controller has not taken.
Count == IF ccs = cycle_bit THEN write_index - deq ELSE write_index + N - deq

Init ==
  /\ buf = [i \in 0 .. N |-> [trb |-> Blank, cycle |-> 0]]
  /\ write_index = 0
  /\ cycle_bit = 1
  /\ pc = "idle"
  /\ deq = 0
  /\ ccs = 1
  /\ running = FALSE
  /\ last = {}

-----------------------------------------------------------------------------
(* The driver.                                                             *)

\* Words 0 to 2.  A control transfer pushes two or three TRBs before it rings.
Push(v) ==
  /\ pc \in {"idle", "doorbell"}
  /\ Count < MaxPending
  /\ buf' = [buf EXCEPT ![write_index].trb = v]
  /\ pc' = "cycle"
  /\ UNCHANGED <<write_index, cycle_bit, running, hc>>

\* Mutated: the link is looked for one entry too late.
PushCycleLateWrap ==
  /\ pc = "cycle"
  /\ buf' = [buf EXCEPT ![write_index].cycle = cycle_bit]
  /\ write_index' = write_index + 1
  /\ pc' = IF write_index' = Size THEN "link" ELSE "doorbell"
  /\ UNCHANGED <<cycle_bit, running, hc>>

PushCycle ==
  /\ pc = "cycle"
  /\ buf' = [buf EXCEPT ![write_index].cycle = cycle_bit]
  /\ write_index' = write_index + 1
  /\ pc' = IF write_index' = N THEN "link" ELSE "doorbell"
  /\ UNCHANGED <<cycle_bit, running, hc>>

PushLink ==
  /\ pc = "link"
  /\ buf' = [buf EXCEPT ![write_index].trb = Link]
  /\ pc' = "linkcycle"
  /\ UNCHANGED <<write_index, cycle_bit, running, hc>>

\* Mutated: the producer's cycle state is not flipped at the wrap.
PushLinkNoFlip ==
  /\ pc = "linkcycle"
  /\ buf' = [buf EXCEPT ![write_index].cycle = cycle_bit]
  /\ write_index' = 0
  /\ pc' = "doorbell"
  /\ UNCHANGED <<cycle_bit, running, hc>>

PushLinkCycle ==
  /\ pc = "linkcycle"
  /\ buf' = [buf EXCEPT ![write_index].cycle = cycle_bit]
  /\ write_index' = 0
  /\ cycle_bit' = Flip(cycle_bit)
  /\ pc' = "doorbell"
  /\ UNCHANGED <<running, hc>>

\* Mutated: the doorbell is not rung after a TRB that wrapped the ring.
RingDoorbellUnlessWrapped ==
  /\ pc = "doorbell"
  /\ running' = (running \/ write_index # 0)
  /\ pc' = "idle"
  /\ UNCHANGED <<buf, write_index, cycle_bit, hc>>

RingDoorbell ==
  /\ pc = "doorbell"
  /\ running' = TRUE
  /\ pc' = "idle"
  /\ UNCHANGED <<buf, write_index, cycle_bit, hc>>

-----------------------------------------------------------------------------
(* The controller.                                                         *)

Owned == buf[deq].cycle = ccs

Fetch ==
  /\ running
  /\ Owned
  /\ buf[deq].trb # Link
  /\ last' = {buf[deq].trb}
  /\ deq' = deq + 1
  /\ UNCHANGED <<driver, ccs, running>>

\* The link TRB has Toggle Cycle set and points to the first entry.
FollowLink ==
  /\ running
  /\ Owned
  /\ buf[deq].trb = Link
  /\ deq' = 0
  /\ ccs' = Flip(ccs)
  /\ UNCHANGED <<driver, running, last>>

Stop ==
  /\ running
  /\ ~Owned
  /\ running' = FALSE
  /\ UNCHANGED <<driver, hc>>

-----------------------------------------------------------------------------
FinishPush == PushCycle \/ PushLink \/ PushLinkCycle \/ RingDoorbell

Controller == Fetch \/ FollowLink \/ Stop

Next == FinishPush \/ Controller \/ \E v \in Trb : Push(v)

Spec == Init /\ [][Next]_vars

\* A caller that has begun a transfer pushes its TRBs and rings; it need not
\* begin another.  The controller works while it runs.
FairSpec == Spec /\ WF_vars(FinishPush) /\ WF_vars(Controller)

-----------------------------------------------------------------------------
Bit == {0, 1}

TypeOK ==
  /\ buf \in [0 .. N -> [trb : Trb \cup {Link, Blank}, cycle : Bit]]
  /\ write_index \in 0 .. N
  /\ cycle_bit \in Bit
  /\ pc \in {"idle", "cycle", "link", "linkcycle", "doorbell"}
  /\ deq \in 0 .. N
  /\ ccs \in Bit
  /\ running \in BOOLEAN
  /\ last \subseteq Trb

Slot(k) == IF deq + k <= N THEN deq + k - 1 ELSE deq + k - 1 - N

Pending == [k \in 1 .. Count |-> buf[Slot(k)].trb]

Channel == INSTANCE TrbChannel WITH pending <- Pending

(* The controller reads every TRB once, in order and only when all of it   *)
(* is written, across the link and the flip of the cycle state, while it   *)
(* runs beside the driver (Ring::Push, Ring::CopyToLast).                  *)
ImplementsChannel == Channel!Spec

(* No TRB is left in the ring: the doorbell comes after the TRB, so the    *)
(* controller cannot have stopped for good before it, not even in front of *)
(* a link that was not written yet (Ring::Push; ControlIn, ControlOut,     *)
(* InterruptIn, the senders of commands).                                  *)
EveryTrbTaken == Channel!FairSpec
=============================================================================
