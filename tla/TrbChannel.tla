----------------------------- MODULE TrbChannel -----------------------------
(***************************************************************************)
(* What a ring of kernel/usb/xhci/ring.hpp promises between the driver and *)
(* the controller: TRBs arrive complete, once each and in order.           *)
(***************************************************************************)
EXTENDS Sequences

CONSTANT Trb

VARIABLES
  pending,  \* TRBs given to the receiver and not yet taken, oldest first
  last      \* {the TRB taken last}

vars == <<pending, last>>

Init ==
  /\ pending = <<>>
  /\ last = {}

Send(v) ==
  /\ pending' = Append(pending, v)
  /\ UNCHANGED last

Receive ==
  /\ pending # <<>>
  /\ last' = {Head(pending)}
  /\ pending' = Tail(pending)

Next == Receive \/ \E v \in Trb : Send(v)

Spec == Init /\ [][Next]_vars

FairSpec == Spec /\ WF_vars(Receive)
=============================================================================
