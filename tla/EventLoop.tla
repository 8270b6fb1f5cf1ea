----------------------------- MODULE EventLoop ------------------------------
(***************************************************************************)
(* How an event of the xHC reaches the driver (kernel/main/main.cpp):      *)
(*                                                                         *)
(*   the controller writes an event into the primary event ring and, if    *)
(*   it has not already announced one (ERDP.EHB), sends an MSI;            *)
(*   IntHandlerXHCI runs when interrupts are enabled and pushes a message  *)
(*   to main_queue, which it does without looking at the push's error;     *)
(*   the event loop pops one message and then handles events until the     *)
(*   ring is empty, or halts the CPU when there is no message.             *)
(*                                                                         *)
(* One step of the loop is what it does between two points at which an     *)
(* interrupt or the controller can interfere.  What ProcessEvent does with *)
(* an event is the subject of PortConfig; here events are only counted.    *)
(* The controller and the local APIC are external.                         *)
(***************************************************************************)
EXTENDS ArrayQueue

CONSTANTS
  EventRingSize   \* events the controller can have in the ring at a time

ASSUME EventLoopAssumption ==
  /\ EventRingSize \in Nat \ {0}
  /\ Message # {}

VARIABLES
  pc,         \* where KernelMainNewStack is
  intr,       \* RFLAGS.IF
  irr,        \* an MSI waits in the local APIC (one bit per vector)
  main_queue, \* messages from the interrupt handler to the loop
  loaded,     \* the count_ the compiler has in a register across Front and Pop
  ring,       \* number of events in the primary event ring
  ehb,        \* ERDP.EHB, the controller's "event handler busy" bit
  ehb_read,   \* EHB in the ERDP value that WriteDequeuePointer has read
  reraised    \* history: the controller has announced an event that was
              \* already in the ring

vars == <<pc, intr, irr, main_queue, loaded, ring, ehb, ehb_read, reraised>>

cpu == <<pc, intr, loaded, ehb_read>>

Location == {"start", "boot", "cli", "count", "hlt", "halted", "pop", "sti",
             "drain", "handle", "ack"}

\* The controller runs before the first sti: it may have filled the ring.
Init ==
  /\ pc = "start"
  /\ intr = FALSE
  /\ irr = FALSE
  /\ \E buf \in [Index -> Message] : main_queue = NewQueue(buf)
  /\ loaded = 0
  /\ ring = 0
  /\ ehb = FALSE
  /\ ehb_read = FALSE
  /\ reraised = FALSE

-----------------------------------------------------------------------------
(* KernelMainNewStack.                                                     *)

StiBeforePorts ==
  /\ pc = "start"
  /\ pc' = "boot"
  /\ intr' = TRUE
  /\ UNCHANGED <<irr, main_queue, loaded, ring, ehb, ehb_read, reraised>>

\* The port loop and the window set-up leave the queue and the ring alone.
EnterLoop ==
  /\ pc = "boot"
  /\ pc' = "cli"
  /\ UNCHANGED <<intr, irr, main_queue, loaded, ring, ehb, ehb_read, reraised>>

\* Mutated: interrupts stay on.
CliNoEffect ==
  /\ pc = "cli"
  /\ pc' = "count"
  /\ UNCHANGED <<intr, irr, main_queue, loaded, ring, ehb, ehb_read, reraised>>

Cli ==
  /\ pc = "cli"
  /\ pc' = "count"
  /\ intr' = FALSE
  /\ UNCHANGED <<irr, main_queue, loaded, ring, ehb, ehb_read, reraised>>

TestCount ==
  /\ pc = "count"
  /\ loaded' = main_queue.count
  /\ pc' = IF IsEmpty(main_queue) THEN "hlt" ELSE "pop"
  /\ UNCHANGED <<intr, irr, main_queue, ring, ehb, ehb_read, reraised>>

\* Mutated: the CPU halts with interrupts off.
HltWithoutSti ==
  /\ pc = "hlt"
  /\ pc' = "halted"
  /\ UNCHANGED <<intr, irr, main_queue, loaded, ring, ehb, ehb_read, reraised>>

\* sti takes effect after the instruction that follows it: no interrupt can
\* come between the two.
StiHlt ==
  /\ pc = "hlt"
  /\ pc' = "halted"
  /\ intr' = TRUE
  /\ UNCHANGED <<irr, main_queue, loaded, ring, ehb, ehb_read, reraised>>

PopMessage ==
  /\ pc = "pop"
  /\ main_queue' = PoppedAt(main_queue, loaded)
  /\ pc' = "sti"
  /\ UNCHANGED <<intr, irr, loaded, ring, ehb, ehb_read, reraised>>

Sti ==
  /\ pc = "sti"
  /\ pc' = "drain"
  /\ intr' = TRUE
  /\ UNCHANGED <<irr, main_queue, loaded, ring, ehb, ehb_read, reraised>>

TestFront ==
  /\ pc = "drain"
  /\ pc' = IF ring > 0 THEN "handle" ELSE "cli"
  /\ UNCHANGED <<intr, irr, main_queue, loaded, ring, ehb, ehb_read, reraised>>

\* ProcessEvent up to the read of ERDP in WriteDequeuePointer.
Handle ==
  /\ pc = "handle"
  /\ ehb_read' = ehb
  /\ pc' = "ack"
  /\ UNCHANGED <<intr, irr, main_queue, loaded, ring, ehb, reraised>>

\* Mutated: the loop handles one event for each message.
AckOneEventPerMessage ==
  /\ pc = "ack"
  /\ ring' = ring - 1
  /\ ehb' = (ehb /\ ~ehb_read)
  /\ pc' = "cli"
  /\ UNCHANGED <<intr, irr, main_queue, loaded, ehb_read, reraised>>

\* The write of ERDP: it frees the event's slot and clears EHB if it writes
\* a one there, that is if it read a one.
Ack ==
  /\ pc = "ack"
  /\ ring' = ring - 1
  /\ ehb' = (ehb /\ ~ehb_read)
  /\ pc' = "drain"
  /\ UNCHANGED <<intr, irr, main_queue, loaded, ehb_read, reraised>>

-----------------------------------------------------------------------------
(* The interrupt handler, atomic because its gate is an interrupt gate.    *)
(* A halted CPU goes on after it.                                          *)
IntHandlerXHCI ==
  /\ intr /\ irr
  /\ irr' = FALSE
  /\ \E msg \in Message : main_queue' = Pushed(main_queue, msg)
  /\ pc' = IF pc = "halted" THEN "cli" ELSE pc
  /\ UNCHANGED <<intr, loaded, ring, ehb, ehb_read, reraised>>

-----------------------------------------------------------------------------
(* The controller.                                                         *)

\* It announces a new event unless an earlier one is still being handled.
HcEnqueue ==
  /\ ring < EventRingSize
  /\ ring' = ring + 1
  /\ ehb' = TRUE
  /\ irr' = (irr \/ ~ehb)
  /\ UNCHANGED <<main_queue, cpu, reraised>>

\* Its moderation timer may announce an event that is already in the ring.
HcReraise ==
  /\ ring > 0
  /\ ~ehb
  /\ ehb' = TRUE
  /\ irr' = TRUE
  /\ reraised' = TRUE
  /\ UNCHANGED <<ring, main_queue, cpu>>

-----------------------------------------------------------------------------
Main ==
  \/ StiBeforePorts \/ EnterLoop
  \/ Cli \/ TestCount \/ StiHlt \/ PopMessage \/ Sti
  \/ TestFront \/ Handle \/ Ack

Next == Main \/ IntHandlerXHCI \/ HcEnqueue \/ HcReraise

Spec == Init /\ [][Next]_vars

\* The CPU executes, and takes a pending interrupt when it may; the
\* controller owes nothing.
FairSpec == Spec /\ WF_vars(Main) /\ WF_vars(IntHandlerXHCI)

-----------------------------------------------------------------------------
TypeOK ==
  /\ pc \in Location
  /\ intr \in BOOLEAN
  /\ irr \in BOOLEAN
  /\ main_queue \in Queue
  /\ loaded \in 0 .. Capacity
  /\ ring \in 0 .. EventRingSize
  /\ ehb \in BOOLEAN
  /\ ehb_read \in BOOLEAN
  /\ reraised \in BOOLEAN

(* Two writers share count_, read_pos_ and write_pos_: the loop's Pop and   *)
(* the interrupt handler's Push.  With cli before Count() and sti after    *)
(* Pop() neither loses the other's update, at every point of the loop and  *)
(* when the queue is full (main.cpp event loop and IntHandlerXHCI).        *)
QueueWellFormed == WellFormed(main_queue)

\* The loop is certain to look at the ring again before it can halt.
WillDrain == main_queue.count > 0 \/ pc \in {"sti", "drain", "handle", "ack"}

(* No lost wake-up: while there is an event in the ring, an interrupt is   *)
(* pending, a message is queued, or the loop is on its way to the ring, as *)
(* long as the controller announces an event only when it writes it.  One  *)
(* message may stand for many events, a push may be refused by a full      *)
(* queue, and the loop halts without looking at the ring (main.cpp event   *)
(* loop; EventRing::Pop for EHB).                                          *)
NoLostEvent == ring > 0 /\ ~reraised => irr \/ WillDrain

(* With such a controller every event is handled and acknowledged in the   *)
(* end: the CPU is never asleep for good with an event in the ring         *)
(* (main.cpp "sti hlt", the drain loop).                                   *)
EventHandled == (ring > 0) ~> (pc = "ack" \/ reraised)
=============================================================================
