---------------------------- MODULE MCEventRing -----------------------------
(* Instance: four entries, so that three events may be pending.            *)
EXTENDS EventRing
=============================================================================
