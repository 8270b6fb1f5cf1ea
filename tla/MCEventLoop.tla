---------------------------- MODULE MCEventLoop -----------------------------
(* Instance: a queue of two messages, so that pushes are refused, and room *)
(* for three events.  Message has one element, as in the kernel.           *)
EXTENDS EventLoop
=============================================================================
