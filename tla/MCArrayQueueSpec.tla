-------------------------- MODULE MCArrayQueueSpec --------------------------
(* Instance: a three-element array and two distinguishable messages. *)
EXTENDS ArrayQueueSpec
=============================================================================
