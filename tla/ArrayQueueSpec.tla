--------------------------- MODULE ArrayQueueSpec ---------------------------
(***************************************************************************)
(* The queue of kernel/queue/queue.hpp used by one caller at a time, and   *)
(* the claim that it implements BoundedFifo.                               *)
(***************************************************************************)
EXTENDS ArrayQueue, Sequences

VARIABLES queue, result

queue_vars == <<queue, result>>

\* main_queue_data (kernel/main/main.cpp) is not initialised.
QueueInit ==
  /\ \E buf \in [Index -> Message] : queue = NewQueue(buf)
  /\ result = [error |-> "kSuccess"]

Push(v) ==
  /\ queue' = Pushed(queue, v)
  /\ result' = [error |-> IF IsFull(queue) THEN "kFull" ELSE "kSuccess"]

\* A client reads Front() and then calls Pop().
Pop ==
  /\ queue' = Popped(queue)
  /\ result' = IF IsEmpty(queue)
               THEN [error |-> "kEmpty"]
               ELSE [error |-> "kSuccess", front |-> Front(queue)]

QueueNext == Pop \/ \E v \in Message : Push(v)

QueueSpec == QueueInit /\ [][QueueNext]_queue_vars

-----------------------------------------------------------------------------
(* Type invariant: every index stays inside the array, whatever the order  *)
(* of Push and Pop (queue.hpp Push, Pop).                                  *)
QueueTypeOK ==
  /\ queue \in Queue
  /\ WellFormed(queue)

Fifo == INSTANCE BoundedFifo WITH fifo <- Contents(queue)

(* The array implementation delivers every accepted message once and in    *)
(* order across the wrap-around of both positions, refuses a push exactly  *)
(* when Capacity messages are held and a pop exactly when none is          *)
(* (queue.hpp Push, Pop, Front).                                           *)
ImplementsFifo == Fifo!Spec
=============================================================================
