---------------------------- MODULE BoundedFifo ----------------------------
(***************************************************************************)
(* What kernel/queue/queue.hpp promises to its clients: a first-in         *)
(* first-out queue of at most Capacity messages.  A push to a full queue   *)
(* and a pop of an empty one are refused and change nothing.               *)
(***************************************************************************)
EXTENDS Naturals, Sequences

CONSTANTS Message, Capacity

VARIABLES
  fifo,    \* the messages held, oldest first
  result   \* what the last call returned: an error code and, for a pop, the message

vars == <<fifo, result>>

Init ==
  /\ fifo = <<>>
  /\ result = [error |-> "kSuccess"]

Push(v) ==
  \/ /\ Len(fifo) < Capacity
     /\ fifo' = Append(fifo, v)
     /\ result' = [error |-> "kSuccess"]
  \/ /\ Len(fifo) = Capacity
     /\ result' = [error |-> "kFull"]
     /\ UNCHANGED fifo

Pop ==
  \/ /\ fifo # <<>>
     /\ fifo' = Tail(fifo)
     /\ result' = [error |-> "kSuccess", front |-> Head(fifo)]
  \/ /\ fifo = <<>>
     /\ result' = [error |-> "kEmpty"]
     /\ UNCHANGED fifo

Next == Pop \/ \E v \in Message : Push(v)

Spec == Init /\ [][Next]_vars
=============================================================================
