---------------------------- MODULE AddressLock -----------------------------
(***************************************************************************)
(* What the comment at kernel/usb/xhci/xhci.cpp:32-43 promises of the root *)
(* hub ports: between its reset and its address a port has the bus for     *)
(* itself, a port that asks meanwhile waits, and each port goes through    *)
(* the sequence once.                                                      *)
(***************************************************************************)
EXTENDS Naturals

CONSTANT Port   \* port numbers, 0 excluded

VARIABLES
  stage,  \* of each port: "idle", "waiting", "owner" or "done"
  owner   \* the port between reset and address, 0 if none

vars == <<stage, owner>>

Init ==
  /\ stage = [p \in Port |-> "idle"]
  /\ owner = 0

Acquire(p) ==
  /\ stage[p] = "idle"
  /\ owner = 0
  /\ stage' = [stage EXCEPT ![p] = "owner"]
  /\ owner' = p

Wait(p) ==
  /\ stage[p] = "idle"
  /\ owner # 0
  /\ stage' = [stage EXCEPT ![p] = "waiting"]
  /\ UNCHANGED owner

\* The owner has its address and no port takes over.
Release(p) ==
  /\ owner = p
  /\ stage' = [stage EXCEPT ![p] = "done"]
  /\ owner' = 0

\* The owner has its address and the lowest waiting port takes over at once.
HandOver(p, q) ==
  /\ owner = p
  /\ stage[q] = "waiting"
  /\ \A r \in Port : stage[r] = "waiting" => q <= r
  /\ stage' = [stage EXCEPT ![p] = "done", ![q] = "owner"]
  /\ owner' = q

Next ==
  \/ \E p \in Port : Acquire(p) \/ Wait(p) \/ Release(p)
  \/ \E p, q \in Port : HandOver(p, q)

Spec == Init /\ [][Next]_vars
=============================================================================
