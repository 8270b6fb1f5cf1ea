----------------------------- MODULE MCTrbRing ------------------------------
(* Instance: five entries, so that three TRBs may be pending beside a link. *)
EXTENDS TrbRing
=============================================================================
