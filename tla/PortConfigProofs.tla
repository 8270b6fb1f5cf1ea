-------------------------- MODULE PortConfigProofs --------------------------
(***************************************************************************)
(* What holds of the port configuration for any number of ports and slots, *)
(* any number of unplugs in any phase and, where no theorem says otherwise,*)
(* commands that fail.  Five inductive invariants, each on top of those    *)
(* before it:                                                              *)
(*                                                                         *)
(* Locked: addressing_port and the phases agree, and InitializeDevice, if  *)
(* it waits for the reset of the next port, waits for one port only.       *)
(* MessageInv: what is in the two rings.  A completion names no more than  *)
(* a kind of command and a slot; the handlers can act on it because        *)
(* OneAtATime holds, and UnderWay says what a message still in a ring      *)
(* implies about the driver's state.                                       *)
(* AddressInv: who answers to the default address.                         *)
(* SlotInv, Undisturbed: that commands find what they need, as long as no  *)
(* command fails and, for Undisturbed, nobody is unplugged.                *)
(***************************************************************************)
EXTENDS PortConfig, Integers, SequenceTheorems, FiniteSetTheorems, TLAPS

OneCall ==
  /\ cont # {} => scan > MaxPorts
  /\ \A c, d \in cont : c = d
  /\ \A c \in cont : /\ c.port # addressing_port
                     /\ phase[c.port] = "AddressingDevice"

-----------------------------------------------------------------------------
(* Types.                                                                  *)

LEMMA PortsAreIds == Port \subseteq PortId /\ 0 \in PortId /\ 0 \in Slot
BY PortConfigAssumption DEF Port, PortId, Slot

LEMMA HandledType ==
  ASSUME TypeOK, NEW e, Handling(e)
  PROVE  e \in Event /\ Tail(events) \in Seq(Event)
<1>1. events \in Seq(Event) /\ events # <<>>
  BY DEF TypeOK, Handling
<1> QED
  BY <1>1, HeadTailProperties DEF Handling

LEMMA SentType ==
  ASSUME TypeOK, NEW type \in {"EnableSlot", "AddressDevice", "ConfigureEndpoint"},
         NEW s \in Slot, Send(type, s)
  PROVE  cmds' \in Seq(Command)
<1>1. [type |-> type, slot |-> s] \in Command
  BY DEF Command
<1> QED
  BY <1>1, AppendProperties DEF TypeOK, Send

LEMMA CompletedType ==
  ASSUME TypeOK, NEW type \in {"EnableSlot", "AddressDevice", "ConfigureEndpoint"},
         NEW s \in Slot, Complete(type, s), cmds # <<>>
  PROVE  cmds' \in Seq(Command) /\ events' \in Seq(Event)
<1>1. [type |-> type, slot |-> s] \in Event
  BY DEF Event, Command
<1> QED
  BY <1>1, AppendProperties, HeadTailProperties DEF TypeOK, Complete

LEMMA AnnouncedType ==
  ASSUME TypeOK, NEW p \in Port, NEW a, NEW o, Announce(p, a, o)
  PROVE  events' \in Seq(Event)
<1>1. [type |-> "PortStatusChange", port |-> p] \in Event
  BY DEF Event
<1>2. \/ events' = Append(events, [type |-> "PortStatusChange", port |-> p])
      \/ events' = events
  BY Zenon DEF Announce
<1>3. events \in Seq(Event)
  BY DEF TypeOK
<1> QED
  BY <1>1, <1>2, <1>3, AppendProperties

LEMMA TakeLockType ==
  ASSUME TypeOK, NEW p \in Port, TakeLock(p)
  PROVE  /\ phase' \in [PortId -> ConfigPhase]
         /\ addressing_port' \in PortId
         /\ spin' \in PortId
         /\ portsc' \in [Port -> PortSC]
<1>1. portsc' \in [Port -> PortSC]
  <2>1. [portsc[p] EXCEPT !.pr = TRUE, !.ped = FALSE, !.csc = FALSE] \in PortSC
    BY DEF TypeOK, PortSC
  <2>2. portsc' = [portsc EXCEPT ![p] =
                     [portsc[p] EXCEPT !.pr = TRUE, !.ped = FALSE, !.csc = FALSE]]
    BY DEF TakeLock, TypeOK
  <2> QED
    BY <2>1, <2>2 DEF TypeOK
<1> QED
  BY <1>1, PortsAreIds DEF TypeOK, TakeLock, ConfigPhase

LEMMA ResetPortType ==
  ASSUME TypeOK, NEW p \in Port, ResetPort(p)
  PROVE  /\ phase' \in [PortId -> ConfigPhase]
         /\ addressing_port' \in PortId
         /\ spin' \in PortId
         /\ portsc' \in [Port -> PortSC]
BY PortsAreIds, TakeLockType DEF ResetPort, TypeOK, ConfigPhase

LEMMA InitializeDeviceType ==
  ASSUME TypeOK, NEW p \in PortId, NEW s \in Slot, InitializeDevice(p, s)
  PROVE  /\ phase' \in [PortId -> ConfigPhase]
         /\ initialize_phase' \in [Slot -> 0 .. 4]
         /\ transfers' \subseteq Slot
BY DEF TypeOK, InitializeDevice, ConfigPhase

LEMMA TypeInit == Init => TypeOK
<1> SUFFICES ASSUME Init PROVE TypeOK
  OBVIOUS
<1>1. /\ 1 \in 1 .. MaxPorts + 1
      /\ 0 \in 0 .. MaxUnplugs
      /\ 0 \in 0 .. 4
  BY PortConfigAssumption
<1>2. <<>> \in Seq(Command) /\ <<>> \in Seq(Event)
  BY EmptySeq
<1>3. portsc \in [Port -> PortSC]
  BY DEF Init, PortSC
<1> QED
  BY <1>1, <1>2, <1>3, PortsAreIds DEF Init, TypeOK, ConfigPhase

\* A handler that is spinning has not popped its event yet.
EventKept == spin # 0 /\ scan > MaxPorts => events # <<>>

LEMMA TypeStep == TypeOK /\ EventKept /\ [Next]_vars => TypeOK'
<1> SUFFICES ASSUME TypeOK, EventKept, [Next]_vars PROVE TypeOK'
  OBVIOUS
<1> USE PortsAreIds
<1>1. CASE ScanPort
  <2>1. scan \in Port /\ scan' \in 1 .. MaxPorts + 1
    BY <1>1, PortConfigAssumption DEF ScanPort, TypeOK, Port
  <2> QED
    BY <1>1, <2>1, ResetPortType DEF ScanPort, TypeOK, devmgr, hc
<1>2. ASSUME NEW p \in Port, OnPortConnected(p) PROVE TypeOK'
  <2>1. Tail(events) \in Seq(Event)
    BY <1>2, HandledType DEF OnPortConnected
  <2> QED
    BY <1>2, <2>1, ResetPortType DEF OnPortConnected, TypeOK, devmgr, hc
<1>3. ASSUME NEW p \in Port, OnPortReset(p) PROVE TypeOK'
  <2>1. Tail(events) \in Seq(Event) /\ cmds' \in Seq(Command)
    BY <1>3, HandledType, SentType DEF OnPortReset
  <2>2. portsc' \in [Port -> PortSC]
    <3>1. [portsc[p] EXCEPT !.prc = FALSE] \in PortSC
      BY DEF TypeOK, PortSC
    <3>2. portsc' = [portsc EXCEPT ![p] = [portsc[p] EXCEPT !.prc = FALSE]]
      BY <1>3 DEF OnPortReset, TypeOK
    <3> QED
      BY <3>1, <3>2 DEF TypeOK
  <2> QED
    BY <1>3, <2>1, <2>2 DEF OnPortReset, Return, TypeOK, devmgr, hc, ConfigPhase
<1>4. ASSUME NEW s \in Slot, OnSlotEnabled(s) PROVE TypeOK'
  <2>1. Tail(events) \in Seq(Event) /\ cmds' \in Seq(Command)
    BY <1>4, HandledType, SentType DEF OnSlotEnabled, AllocDevice, LoadDCBAA
  <2> QED
    BY <1>4, <2>1 DEF OnSlotEnabled, AllocDevice, LoadDCBAA, Return, TypeOK, hc, ConfigPhase
<1>5. ASSUME NEW s \in Slot, OnAddressedLast(s) PROVE TypeOK'
  <2>1. Tail(events) \in Seq(Event)
    BY <1>5, HandledType DEF OnAddressedLast, AddressDone
  <2>2. /\ phase' \in [PortId -> ConfigPhase]
        /\ initialize_phase' \in [Slot -> 0 .. 4]
        /\ transfers' \subseteq Slot
    BY <1>5, InitializeDeviceType DEF OnAddressedLast, TypeOK
  <2> QED
    BY <1>5, <2>1, <2>2 DEF OnAddressedLast, Return, TypeOK
<1>6. ASSUME NEW s \in Slot, OnAddressedNext(s) PROVE TypeOK'
  <2> PICK q \in Port : TakeLock(q)
    BY <1>6 DEF OnAddressedNext
  <2>1. /\ phase' \in [PortId -> ConfigPhase]
        /\ addressing_port' \in PortId
        /\ spin' \in PortId
        /\ portsc' \in [Port -> PortSC]
    BY TakeLockType
  <2>2. cont' \subseteq [port : PortId, slot : Slot]
    BY <1>6 DEF OnAddressedNext, TypeOK
  <2> QED
    BY <1>6, <2>1, <2>2 DEF OnAddressedNext, TypeOK, devmgr, hc
<1>7. ASSUME NEW s \in Slot, OnDescriptor(s) PROVE TypeOK'
  <2>1. Tail(events) \in Seq(Event)
    BY <1>7, HandledType DEF OnDescriptor
  <2>2. \/ initialize_phase' = [initialize_phase EXCEPT ![s] = 2]
        \/ initialize_phase' = [initialize_phase EXCEPT ![s] = 3]
        \/ initialize_phase' = initialize_phase
    BY <1>7, Zenon DEF OnDescriptor
  <2>3. transfers' = transfers \cup {s} \/ transfers' = transfers
    BY <1>7, Zenon DEF OnDescriptor
  <2>4. initialize_phase' \in [Slot -> 0 .. 4] /\ transfers' \subseteq Slot
    <3>1. /\ initialize_phase \in [Slot -> 0 .. 4]
          /\ transfers \subseteq Slot
          /\ 2 \in 0 .. 4 /\ 3 \in 0 .. 4
      BY DEF TypeOK
    <3> QED
      BY <2>2, <2>3, <3>1
  <2> QED
    BY <1>7, <2>1, <2>4 DEF OnDescriptor, Return, TypeOK, driver
<1>8. ASSUME NEW s \in Slot, OnConfigurationSet(s) PROVE TypeOK'
  <2>1. Tail(events) \in Seq(Event)
    BY <1>8, HandledType DEF OnConfigurationSet
  <2>2. phase' \in [PortId -> ConfigPhase] /\ cmds' \in Seq(Command)
    BY <1>8, SentType DEF OnConfigurationSet, TypeOK, ConfigPhase
  <2>3. initialize_phase' \in [Slot -> 0 .. 4]
    BY <1>8 DEF OnConfigurationSet, TypeOK
  <2> QED
    BY <1>8, <2>1, <2>2, <2>3 DEF OnConfigurationSet, Return, TypeOK, hc
<1>9. ASSUME NEW s \in Slot, OnEndpointsConfigured(s) PROVE TypeOK'
  <2>1. Tail(events) \in Seq(Event)
    BY <1>9, HandledType DEF OnEndpointsConfigured
  <2> QED
    BY <1>9, <2>1
       DEF OnEndpointsConfigured, Return, TypeOK, ConfigPhase, devmgr, hc
<1>10. CASE RefuseEvent
  <2>1. Tail(events) \in Seq(Event)
    BY <1>10, HandledType DEF RefuseEvent
  <2> QED
    BY <1>10, <2>1 DEF RefuseEvent, Return, TypeOK, driver, devmgr, hc
<1>11. CASE ResetDone
  <2>1. CASE scan <= MaxPorts
    <3>1. scan + 1 \in 1 .. MaxPorts + 1
      BY <2>1, PortConfigAssumption DEF TypeOK
    <3> QED
      BY <1>11, <2>1, <3>1, PortConfigAssumption DEF ResetDone, TypeOK
  <2>2. CASE scan > MaxPorts
    <3>1. /\ ~(scan <= MaxPorts)
          /\ events # <<>>
      BY <1>11, <2>2, PortConfigAssumption DEF ResetDone, TypeOK, EventKept
    <3>2. events' \in Seq(Event)
      <4>1. events' = Tail(events)
        BY <1>11, <3>1, Zenon DEF ResetDone, Return
      <4> QED
        BY <3>1, <4>1, HeadTailProperties DEF TypeOK
    <3>3. CASE cont = {}
      BY <1>11, <3>1, <3>2, <3>3 DEF ResetDone, TypeOK
    <3>4. CASE cont # {}
      <4> PICK c \in cont : InitializeDevice(c.port, c.slot)
        BY <1>11, <3>1, <3>4 DEF ResetDone
      <4>1. c.port \in PortId /\ c.slot \in Slot
        BY DEF TypeOK
      <4>2. /\ phase' \in [PortId -> ConfigPhase]
            /\ initialize_phase' \in [Slot -> 0 .. 4]
            /\ transfers' \subseteq Slot
        BY <4>1, InitializeDeviceType
      <4>3. cont' \subseteq [port : PortId, slot : Slot] /\ scan' = scan
        BY <1>11, <3>1, <3>4 DEF ResetDone
      <4> QED
        BY <1>11, <3>2, <4>2, <4>3 DEF ResetDone, TypeOK
    <3> QED
      BY <3>3, <3>4
  <2> QED
    BY <2>1, <2>2, PortConfigAssumption DEF TypeOK
<1>12. ASSUME NEW p \in Port, Connect(p) PROVE TypeOK'
  <2>1. portsc' \in [Port -> PortSC]
    <3>1. [portsc[p] EXCEPT !.ccs = TRUE, !.csc = TRUE] \in PortSC
      BY DEF TypeOK, PortSC
    <3>2. portsc' = [portsc EXCEPT ![p] = [portsc[p] EXCEPT !.ccs = TRUE, !.csc = TRUE]]
      BY <1>12 DEF Connect, TypeOK
    <3> QED
      BY <3>1, <3>2 DEF TypeOK
  <2> QED
    BY <1>12, <2>1, AnnouncedType DEF Connect, TypeOK, driver, devmgr, hc
<1>13. ASSUME NEW p \in Port, Unplug(p) PROVE TypeOK'
  <2>1. portsc' \in [Port -> PortSC]
    <3>1. [portsc[p] EXCEPT !.ccs = FALSE, !.ped = FALSE, !.pr = FALSE,
                            !.addr = FALSE, !.csc = TRUE] \in PortSC
      BY DEF TypeOK, PortSC
    <3>2. portsc' = [portsc EXCEPT ![p] =
            [portsc[p] EXCEPT !.ccs = FALSE, !.ped = FALSE, !.pr = FALSE,
                              !.addr = FALSE, !.csc = TRUE]]
      BY <1>13 DEF Unplug, TypeOK
    <3> QED
      BY <3>1, <3>2 DEF TypeOK
  <2>2. unplugs' \in 0 .. MaxUnplugs
    BY <1>13, PortConfigAssumption DEF Unplug, TypeOK
  <2>3. events' \in Seq(Event)
    BY <1>13, AnnouncedType DEF Unplug
  <2> QED
    BY <1>13, <2>1, <2>2, <2>3 DEF Unplug, TypeOK, driver, devmgr
<1>14. ASSUME NEW p \in Port, FinishReset(p) PROVE TypeOK'
  <2>1. portsc' \in [Port -> PortSC]
    <3>1. [portsc[p] EXCEPT !.pr = FALSE, !.ped = TRUE, !.prc = TRUE,
                            !.addr = FALSE] \in PortSC
      BY DEF TypeOK, PortSC
    <3>2. portsc' = [portsc EXCEPT ![p] =
            [portsc[p] EXCEPT !.pr = FALSE, !.ped = TRUE, !.prc = TRUE,
                              !.addr = FALSE]]
      BY <1>14 DEF FinishReset, TypeOK
    <3> QED
      BY <3>1, <3>2 DEF TypeOK
  <2>2. events' \in Seq(Event)
    BY <1>14, AnnouncedType DEF FinishReset
  <2> QED
    BY <1>14, <2>1, <2>2 DEF FinishReset, TypeOK, driver, devmgr, hc
<1>15. CASE ExecEnableSlot
  <2>1. cmds' \in Seq(Command) /\ events' \in Seq(Event)
    BY <1>15, CompletedType DEF ExecEnableSlot, Executing
  <2>2. hc_slots' \subseteq Slot
    BY <1>15 DEF ExecEnableSlot, TypeOK
  <2> QED
    BY <1>15, <2>1, <2>2 DEF ExecEnableSlot, TypeOK, driver, devmgr
<1>16. ASSUME NEW s \in Slot, ExecAddressDevice(s) PROVE TypeOK'
  <2>1. cmds' \in Seq(Command) /\ events' \in Seq(Event)
    BY <1>16, CompletedType DEF ExecAddressDevice, Executing
  <2>2. out_port' \in [Slot -> PortId]
    BY <1>16 DEF ExecAddressDevice, TypeOK
  <2>3. portsc' \in [Port -> PortSC]
    <3>1. \/ portsc' = portsc
          \/ portsc' = [portsc EXCEPT ![in_port[s]].addr = TRUE]
      BY <1>16, Zenon DEF ExecAddressDevice
    <3>2. CASE in_port[s] \in Port
      <4>0. portsc[in_port[s]] \in PortSC
        BY <3>2 DEF TypeOK
      <4>1. [portsc[in_port[s]] EXCEPT !.addr = TRUE] \in PortSC
        BY <4>0 DEF PortSC
      <4>2. \A v \in PortSC : [portsc EXCEPT ![in_port[s]] = v] \in [Port -> PortSC]
        BY <3>2 DEF TypeOK
      <4>3. [portsc EXCEPT ![in_port[s]].addr = TRUE] \in [Port -> PortSC]
        BY <4>1, <4>2, Zenon
      <4>4. portsc \in [Port -> PortSC]
        BY DEF TypeOK
      <4> QED
        BY <3>1, <4>3, <4>4, Zenon
    <3>3. CASE in_port[s] \notin Port
      <4>1. \A v : [portsc EXCEPT ![in_port[s]] = v] = portsc
        BY <3>3 DEF TypeOK
      <4>2. [portsc EXCEPT ![in_port[s]].addr = TRUE] = portsc
        BY <4>1, Zenon
      <4>3. portsc' = portsc
        BY <3>1, <4>2, Zenon
      <4> QED
        BY <4>3 DEF TypeOK
    <3> QED
      BY <3>2, <3>3
  <2> QED
    BY <1>16, <2>1, <2>2, <2>3 DEF ExecAddressDevice, TypeOK, driver, devmgr
<1>17. ASSUME NEW s \in Slot, ExecConfigureEndpoint(s) PROVE TypeOK'
  <2>1. cmds' \in Seq(Command) /\ events' \in Seq(Event)
    BY <1>17, CompletedType DEF ExecConfigureEndpoint, Executing
  <2> QED
    BY <1>17, <2>1 DEF ExecConfigureEndpoint, TypeOK, driver, devmgr, hc
<1>18. ASSUME NEW s \in Slot, CompleteTransfer(s) PROVE TypeOK'
  <2> PICK ok \in BOOLEAN :
        events' = Append(events, [type |-> "Transfer", slot |-> s, ok |-> ok])
    BY <1>18 DEF CompleteTransfer
  <2>1. [type |-> "Transfer", slot |-> s, ok |-> ok] \in Event
    BY DEF Event
  <2>2. events' \in Seq(Event)
    BY <2>1, AppendProperties DEF TypeOK
  <2> QED
    BY <1>18, <2>2 DEF CompleteTransfer, TypeOK, driver, devmgr
<1>19. CASE UNCHANGED vars
  BY <1>19 DEF vars, TypeOK, driver, devmgr, hc
<1> QED
  BY <1>1, <1>2, <1>3, <1>4, <1>5, <1>6, <1>7, <1>8, <1>9, <1>10, <1>11,
     <1>12, <1>13, <1>14, <1>15, <1>16, <1>17, <1>18, <1>19
     DEF Next, Driver, Hardware, Execute

LEMMA KeptStep == TypeOK /\ EventKept /\ [Next]_vars => EventKept'
<1> SUFFICES ASSUME TypeOK, EventKept, [Next]_vars PROVE EventKept'
  OBVIOUS
<1> USE DEF EventKept
<1>0. ASSUME NEW e PROVE Append(events, e) # <<>>
  <2>1. events \in Seq(Event \cup {e})
    BY SeqMonotonic DEF TypeOK
  <2> QED
    BY <2>1, AppendProperties
<1>1. CASE ScanPort
  BY <1>1, PortConfigAssumption DEF ScanPort, TypeOK
<1>2. ASSUME NEW p \in Port, OnPortConnected(p) PROVE EventKept'
  BY <1>2 DEF OnPortConnected, Handling
<1>3. ASSUME NEW p \in Port, OnPortReset(p) PROVE EventKept'
  BY <1>3 DEF OnPortReset, Handling
<1>4. ASSUME NEW s \in Slot, OnSlotEnabled(s) PROVE EventKept'
  BY <1>4 DEF OnSlotEnabled, AllocDevice, LoadDCBAA, Handling
<1>5. ASSUME NEW s \in Slot, OnAddressedLast(s) PROVE EventKept'
  BY <1>5 DEF OnAddressedLast, AddressDone, Handling
<1>6. ASSUME NEW s \in Slot, OnAddressedNext(s) PROVE EventKept'
  BY <1>6 DEF OnAddressedNext, AddressDone, Handling
<1>7. ASSUME NEW s \in Slot, OnDescriptor(s) PROVE EventKept'
  BY <1>7 DEF OnDescriptor, Handling, driver
<1>8. ASSUME NEW s \in Slot, OnConfigurationSet(s) PROVE EventKept'
  BY <1>8 DEF OnConfigurationSet, Handling
<1>9. ASSUME NEW s \in Slot, OnEndpointsConfigured(s) PROVE EventKept'
  BY <1>9 DEF OnEndpointsConfigured, Handling
<1>10. CASE RefuseEvent
  BY <1>10 DEF RefuseEvent, Handling, driver
<1>11. CASE ResetDone
  BY <1>11 DEF ResetDone
<1>12. CASE Hardware
  <2>1. spin' = spin /\ scan' = scan
    BY <1>12 DEF Hardware, Execute, ExecEnableSlot, ExecAddressDevice,
       ExecConfigureEndpoint, CompleteTransfer, Connect, Unplug, FinishReset,
       driver
  <2>2. events' = events \/ \E e : events' = Append(events, e)
    BY <1>12, Zenon DEF Hardware, Execute, ExecEnableSlot, ExecAddressDevice,
       ExecConfigureEndpoint, CompleteTransfer, Connect, Unplug, FinishReset,
       Complete, Announce
  <2> QED
    BY <1>0, <2>1, <2>2
<1>13. CASE UNCHANGED vars
  BY <1>13 DEF vars, driver
<1> QED
  BY <1>1, <1>2, <1>3, <1>4, <1>5, <1>6, <1>7, <1>8, <1>9, <1>10, <1>11,
     <1>12, <1>13 DEF Next, Driver

(* Every variable keeps its type: ports and slots stay in range, whatever  *)
(* the controller answers (xhci.cpp, devmgr.cpp, main.cpp:240-251).        *)
THEOREM TypeCorrect == Spec => []TypeOK
<1>1. Init => EventKept
  BY DEF Init, EventKept
<1> QED
  BY <1>1, TypeInit, TypeStep, KeptStep, PTL DEF Spec

-----------------------------------------------------------------------------
(* The lock.                                                               *)

LEMMA LockInit == Init => AddressingExclusive /\ OneCall
BY DEF Init, AddressingExclusive, OneCall, Resuming, AddressingPhase

\* Outside a spin nobody waits for InitializeDevice.
LEMMA NobodyResumes ==
  ASSUME AddressingExclusive, spin = 0
  PROVE  /\ cont = {}
         /\ \A p \in PortId :
              phase[p] \in AddressingPhase <=> p = addressing_port /\ p # 0
BY DEF AddressingExclusive, Resuming

LEMMA TakeLockStep ==
  ASSUME TypeOK, AddressingExclusive, NEW p \in Port,
         addressing_port = 0, spin = 0, TakeLock(p), cont' = cont
  PROVE  AddressingExclusive' /\ OneCall'
<1>1. p \in PortId /\ p # 0 /\ phase \in [PortId -> ConfigPhase]
  BY PortConfigAssumption DEF TypeOK, Port, PortId
<1>2. cont = {} /\ \A r \in PortId : phase[r] \notin AddressingPhase
  BY NobodyResumes
<1>3. /\ addressing_port' = p
      /\ spin' = p
      /\ phase' = [phase EXCEPT ![p] = "ResettingPort"]
  BY DEF TakeLock
<1> QED
  BY <1>1, <1>2, <1>3 DEF AddressingExclusive, OneCall, Resuming, AddressingPhase

LEMMA ResetPortStep ==
  ASSUME TypeOK, AddressingExclusive, NEW p \in Port, phase[p] = "NotConnected",
         spin = 0, ResetPort(p), cont' = cont
  PROVE  AddressingExclusive' /\ OneCall'
<1>1. p \in PortId /\ phase \in [PortId -> ConfigPhase]
  BY PortConfigAssumption DEF TypeOK, Port, PortId
<1>2. cont = {}
      /\ \A r \in PortId :
           phase[r] \in AddressingPhase <=> r = addressing_port /\ r # 0
  BY NobodyResumes
<1>3. CASE UNCHANGED <<phase, addressing_port, spin>>
  BY <1>2, <1>3 DEF AddressingExclusive, OneCall, Resuming
<1>4. CASE /\ phase' = [phase EXCEPT ![p] = "WaitingAddressed"]
           /\ UNCHANGED <<addressing_port, spin>>
  BY <1>1, <1>2, <1>4 DEF AddressingExclusive, OneCall, Resuming, AddressingPhase
<1>5. CASE addressing_port = 0 /\ TakeLock(p)
  BY <1>5, TakeLockStep
<1> QED
  BY <1>3, <1>4, <1>5 DEF ResetPort

\* A step from one phase to another on the same side of the lock.
LEMMA SameSideStep ==
  ASSUME TypeOK, AddressingExclusive, OneCall, NEW p \in PortId,
         NEW ph, phase' = [phase EXCEPT ![p] = ph],
         ph \in AddressingPhase <=> phase[p] \in AddressingPhase,
         spin = 0, spin' = 0, cont' = cont, addressing_port' = addressing_port
  PROVE  AddressingExclusive' /\ OneCall'
<1>1. /\ phase \in [PortId -> ConfigPhase]
      /\ cont = {}
      /\ \A r \in PortId :
           phase[r] \in AddressingPhase <=> r = addressing_port /\ r # 0
  BY NobodyResumes DEF TypeOK
<1>2. \A r \in PortId : phase'[r] \in AddressingPhase <=> phase[r] \in AddressingPhase
  BY <1>1
<1> QED
  BY <1>1, <1>2 DEF AddressingExclusive, OneCall, Resuming

LEMMA LockStep == TypeOK /\ AddressingExclusive /\ OneCall /\ [Next]_vars
                  => AddressingExclusive' /\ OneCall'
<1> SUFFICES ASSUME TypeOK, AddressingExclusive, OneCall, [Next]_vars
             PROVE  AddressingExclusive' /\ OneCall'
  OBVIOUS
<1> USE PortsAreIds
<1>0. phase \in [PortId -> ConfigPhase] /\ addressing_port \in PortId
  BY DEF TypeOK
<1>1. CASE ScanPort
  <2>1. scan \in Port
    BY <1>1, PortConfigAssumption DEF ScanPort, TypeOK, Port
  <2> QED
    BY <1>1, <2>1, ResetPortStep DEF ScanPort
<1>2. ASSUME NEW p \in Port, OnPortConnected(p)
      PROVE  AddressingExclusive' /\ OneCall'
  BY <1>2, ResetPortStep DEF OnPortConnected, Handling
<1>3. ASSUME NEW p \in Port, OnPortReset(p)
      PROVE  AddressingExclusive' /\ OneCall'
  <2>1. p \in PortId /\ "EnablingSlot" \in AddressingPhase
        /\ phase[p] \in AddressingPhase
    BY <1>3 DEF OnPortReset, AddressingPhase
  <2> QED
    BY <1>3, <2>1, SameSideStep DEF OnPortReset, Handling
<1>4. ASSUME NEW s \in Slot, OnSlotEnabled(s)
      PROVE  AddressingExclusive' /\ OneCall'
  <2>1. "AddressingDevice" \in AddressingPhase
        /\ phase[addressing_port] \in AddressingPhase
    BY <1>4 DEF OnSlotEnabled, AllocDevice, LoadDCBAA, AddressingPhase
  <2> QED
    BY <1>0, <1>4, <2>1, SameSideStep DEF OnSlotEnabled, AllocDevice, LoadDCBAA, Handling
<1>5. ASSUME NEW s \in Slot, OnAddressedLast(s)
      PROVE  AddressingExclusive' /\ OneCall'
  <2>1. /\ spin = 0 /\ spin' = 0 /\ cont' = cont /\ addressing_port' = 0
        /\ phase' = [phase EXCEPT ![addressing_port] = "InitializingDevice"]
    BY <1>5 DEF OnAddressedLast, AddressDone, Handling, InitializeDevice
  <2>2. /\ cont = {}
        /\ \A r \in PortId :
             phase[r] \in AddressingPhase <=> r = addressing_port /\ r # 0
    BY <2>1, NobodyResumes
  <2>3. \A r \in PortId : phase'[r] \notin AddressingPhase
    BY <1>0, <2>1, <2>2 DEF AddressingPhase
  <2> QED
    BY <2>1, <2>2, <2>3 DEF AddressingExclusive, OneCall, Resuming
<1>6. ASSUME NEW s \in Slot, OnAddressedNext(s)
      PROVE  AddressingExclusive' /\ OneCall'
  <2> PICK q \in Port : FirstWaiting(q) /\ TakeLock(q)
    BY <1>6 DEF OnAddressedNext
  <2>1. /\ spin = 0
        /\ phase[addressing_port] = "AddressingDevice"
        /\ cont' = {[port |-> addressing_port, slot |-> s]}
    BY <1>6 DEF OnAddressedNext, AddressDone, Handling
  <2>2. /\ cont = {}
        /\ \A r \in PortId :
             phase[r] \in AddressingPhase <=> r = addressing_port /\ r # 0
    BY <2>1, NobodyResumes
  <2>3. /\ addressing_port' = q
        /\ spin' = q
        /\ phase' = [phase EXCEPT ![q] = "ResettingPort"]
        /\ q \in PortId /\ q # 0 /\ q # addressing_port
    BY <2>1, PortConfigAssumption DEF TakeLock, FirstWaiting, Waiting, Port, PortId
  <2>4. Resuming' = {addressing_port}
    BY <2>1 DEF Resuming
  <2>5. \A r \in PortId \ {addressing_port} :
          phase'[r] \in AddressingPhase <=> r = q
    BY <1>0, <2>2, <2>3 DEF AddressingPhase
  <2>6. AddressingExclusive'
    BY <1>0, <2>1, <2>3, <2>4, <2>5 DEF AddressingExclusive
  <2>7. OneCall'
    <3>1. scan' > MaxPorts
      BY <1>6 DEF OnAddressedNext, AddressDone, Handling
    <3> QED
      BY <1>0, <2>1, <2>3, <3>1 DEF OneCall
  <2> QED
    BY <2>6, <2>7
<1>7. ASSUME NEW s \in Slot, OnDescriptor(s)
      PROVE  AddressingExclusive' /\ OneCall'
  BY <1>7 DEF OnDescriptor, driver, AddressingExclusive, OneCall, Resuming
<1>8. ASSUME NEW s \in Slot, OnConfigurationSet(s)
      PROVE  AddressingExclusive' /\ OneCall'
  <2>1. CASE phase' = phase
    BY <1>8, <2>1 DEF OnConfigurationSet, AddressingExclusive, OneCall, Resuming
  <2>2. CASE phase' = [phase EXCEPT ![out_port[s]] = "ConfiguringEndpoints"]
    <3>1. /\ out_port[s] \in PortId
          /\ "ConfiguringEndpoints" \notin AddressingPhase
          /\ phase[out_port[s]] \notin AddressingPhase
      BY <1>8 DEF OnConfigurationSet, AddressingPhase, TypeOK
    <3> QED
      BY <1>8, <2>2, <3>1, SameSideStep DEF OnConfigurationSet, Handling
  <2> QED
    BY <1>8, <2>1, <2>2, Zenon DEF OnConfigurationSet
<1>9. ASSUME NEW s \in Slot, OnEndpointsConfigured(s)
      PROVE  AddressingExclusive' /\ OneCall'
  <2>1. /\ out_port[s] \in PortId
        /\ "Configured" \notin AddressingPhase
        /\ phase[out_port[s]] \notin AddressingPhase
    BY <1>9 DEF OnEndpointsConfigured, AddressingPhase, TypeOK
  <2> QED
    BY <1>9, <2>1, SameSideStep DEF OnEndpointsConfigured, Handling
<1>10. CASE RefuseEvent
  BY <1>10 DEF RefuseEvent, driver, AddressingExclusive, OneCall, Resuming
<1>11. CASE ResetDone
  <2>1. spin # 0 /\ spin' = 0 /\ addressing_port' = addressing_port
    BY <1>11 DEF ResetDone
  <2>2. CASE cont = {}
    <3>1. phase' = phase /\ cont' = {}
      BY <1>11, <2>2 DEF ResetDone
    <3> QED
      BY <2>1, <2>2, <3>1 DEF AddressingExclusive, OneCall, Resuming
  <2>3. CASE cont # {} /\ scan <= MaxPorts
    BY <2>3, PortConfigAssumption DEF OneCall, TypeOK
  <2>4. CASE \E c \in cont : InitializeDevice(c.port, c.slot) /\ cont' = {}
    <3> PICK c \in cont : InitializeDevice(c.port, c.slot) /\ cont' = {}
      BY <2>4
    <3>1. /\ phase' = [phase EXCEPT ![c.port] = "InitializingDevice"]
          /\ c.port \in PortId
          /\ c.port # addressing_port
          /\ Resuming = {c.port}
      BY DEF InitializeDevice, OneCall, TypeOK, Resuming
    <3>2. \A r \in PortId :
            phase'[r] \in AddressingPhase <=> r = addressing_port /\ r # 0
      BY <1>0, <3>1 DEF AddressingExclusive, AddressingPhase
    <3> QED
      BY <2>1, <3>2 DEF AddressingExclusive, OneCall, Resuming
  <2> QED
    BY <1>11, <2>2, <2>3, <2>4 DEF ResetDone
<1>12. CASE Hardware
  <2>1. UNCHANGED driver
    BY <1>12 DEF Hardware, Execute, ExecEnableSlot, ExecAddressDevice,
       ExecConfigureEndpoint, CompleteTransfer, Connect, Unplug, FinishReset
  <2> QED
    BY <2>1 DEF driver, AddressingExclusive, OneCall, Resuming
<1>13. CASE UNCHANGED vars
  BY <1>13 DEF vars, driver, AddressingExclusive, OneCall, Resuming
<1> QED
  BY <1>1, <1>2, <1>3, <1>4, <1>5, <1>6, <1>7, <1>8, <1>9, <1>10, <1>11,
     <1>12, <1>13 DEF Next, Driver

(* addressing_port and the phases agree about the one port between reset   *)
(* and address, for any number of ports, with devices coming and going and *)
(* commands failing (xhci.cpp:32-43, ResetPort, OnEvent).                  *)
THEOREM AddressingIsExclusive == Spec => []AddressingExclusive
<1>1. Init => EventKept
  BY DEF Init, EventKept
<1> QED
  BY <1>1, TypeInit, TypeStep, KeptStep, LockInit, LockStep, PTL DEF Spec

-----------------------------------------------------------------------------
(* Refinement.                                                             *)

\* A step that leaves the driver's view of the ports alone stutters.
LEMMA SameStageStutters ==
  ASSUME \A p \in Port : Stage(p)' = Stage(p), addressing_port' = addressing_port
  PROVE  UNCHANGED Lock!vars
BY DEF Lock!vars

LEMMA LockRefined == TypeOK /\ AddressingExclusive /\ OneCall /\ [Next]_vars
                     => [Lock!Next]_(Lock!vars)
<1> SUFFICES ASSUME TypeOK, AddressingExclusive, OneCall, [Next]_vars
             PROVE  [Lock!Next]_(Lock!vars)
  OBVIOUS
<1> USE PortsAreIds
<1>0. phase \in [PortId -> ConfigPhase] /\ addressing_port \in PortId
  BY DEF TypeOK
<1>a. ASSUME NEW p \in Port, phase[p] = "NotConnected", ResetPort(p), spin = 0
      PROVE  [Lock!Next]_(Lock!vars)
  <2>1. CASE UNCHANGED <<phase, addressing_port>>
    BY <2>1, SameStageStutters DEF Stage
  <2>2. CASE /\ addressing_port # 0
             /\ phase' = [phase EXCEPT ![p] = "WaitingAddressed"]
             /\ UNCHANGED addressing_port
    <3>1. Stage(p) = "idle" /\ Stage(p)' = "waiting"
      BY <1>0, <1>a, <2>2 DEF Stage
    <3>2. \A r \in Port : r # p => Stage(r)' = Stage(r)
      BY <1>0, <2>2 DEF Stage
    <3>3. Lock!Wait(p)
      BY <2>2, <3>1, <3>2 DEF Lock!Wait
    <3> QED
      BY <3>3 DEF Lock!Next
  <2>3. CASE addressing_port = 0 /\ TakeLock(p)
    <3>1. phase' = [phase EXCEPT ![p] = "ResettingPort"] /\ addressing_port' = p
      BY <2>3 DEF TakeLock
    <3>2. Stage(p) = "idle" /\ Stage(p)' = "owner"
      BY <1>0, <1>a, <3>1 DEF Stage
    <3>3. 0 \notin Port
      BY PortConfigAssumption DEF Port
    <3>4. \A r \in Port : r # p => Stage(r)' = Stage(r)
      BY <1>0, <2>3, <3>1, <3>3 DEF Stage
    <3>5. Lock!Acquire(p)
      BY <2>3, <3>1, <3>2, <3>4 DEF Lock!Acquire
    <3> QED
      BY <3>5 DEF Lock!Next
  <2> QED
    BY <1>a, <2>1, <2>2, <2>3 DEF ResetPort
<1>1. CASE ScanPort
  <2>1. scan \in Port
    BY <1>1, PortConfigAssumption DEF ScanPort, TypeOK, Port
  <2> QED
    BY <1>1, <1>a, <2>1 DEF ScanPort
<1>2. ASSUME NEW p \in Port, OnPortConnected(p) PROVE [Lock!Next]_(Lock!vars)
  BY <1>2, <1>a DEF OnPortConnected, Handling
\* Phases past the lock, and phases within it, all map to one stage.
<1>b. ASSUME NEW p \in PortId, NEW ph \in ConfigPhase,
             phase' = [phase EXCEPT ![p] = ph], addressing_port' = addressing_port,
             ph \notin {"NotConnected", "WaitingAddressed"},
             phase[p] \notin {"NotConnected", "WaitingAddressed"}
      PROVE  [Lock!Next]_(Lock!vars)
  <2>1. \A r \in Port : Stage(r)' = Stage(r)
    BY <1>0, <1>b DEF Stage
  <2> QED
    BY <1>b, <2>1, SameStageStutters
<1>3. ASSUME NEW p \in Port, OnPortReset(p) PROVE [Lock!Next]_(Lock!vars)
  <2>1. /\ p \in PortId /\ phase[p] = "ResettingPort"
        /\ phase' = [phase EXCEPT ![p] = "EnablingSlot"]
        /\ addressing_port' = addressing_port
    BY <1>3 DEF OnPortReset
  <2> QED
    BY <1>b, <2>1 DEF ConfigPhase
<1>4. ASSUME NEW s \in Slot, OnSlotEnabled(s) PROVE [Lock!Next]_(Lock!vars)
  <2>1. /\ phase[addressing_port] = "EnablingSlot"
        /\ phase' = [phase EXCEPT ![addressing_port] = "AddressingDevice"]
        /\ addressing_port' = addressing_port
    BY <1>4 DEF OnSlotEnabled, AllocDevice, LoadDCBAA
  <2> QED
    BY <1>0, <1>b, <2>1 DEF ConfigPhase
<1>5. ASSUME NEW s \in Slot, OnAddressedLast(s) PROVE [Lock!Next]_(Lock!vars)
  <2>1. /\ spin = 0 /\ addressing_port' = 0
        /\ phase[addressing_port] = "AddressingDevice"
        /\ phase' = [phase EXCEPT ![addressing_port] = "InitializingDevice"]
    BY <1>5 DEF OnAddressedLast, AddressDone, Handling, InitializeDevice
  <2>2. addressing_port \in Port /\ 0 \notin Port
    <3>1. addressing_port # 0
      BY <1>0, <2>1, NobodyResumes DEF AddressingPhase
    <3> QED
      BY <1>0, <3>1, PortConfigAssumption DEF Port, PortId
  <2>3. Stage(addressing_port) = "owner"
        /\ (\A r \in Port : Stage(r)' = IF r = addressing_port THEN "done" ELSE Stage(r))
    BY <1>0, <2>1, <2>2 DEF Stage
  <2>4. Lock!Release(addressing_port)
    BY <2>1, <2>2, <2>3 DEF Lock!Release
  <2> QED
    BY <2>2, <2>4 DEF Lock!Next
<1>6. ASSUME NEW s \in Slot, OnAddressedNext(s) PROVE [Lock!Next]_(Lock!vars)
  <2> PICK q \in Port : FirstWaiting(q) /\ TakeLock(q)
    BY <1>6 DEF OnAddressedNext
  <2>1. /\ spin = 0 /\ addressing_port' = q
        /\ phase[addressing_port] = "AddressingDevice"
        /\ phase[q] = "WaitingAddressed"
        /\ phase' = [phase EXCEPT ![q] = "ResettingPort"]
    BY <1>6 DEF OnAddressedNext, AddressDone, Handling, TakeLock, FirstWaiting, Waiting
  <2>2. addressing_port \in Port /\ q # addressing_port
    <3>1. addressing_port # 0
      BY <1>0, <2>1, NobodyResumes DEF AddressingPhase
    <3> QED
      BY <1>0, <2>1, <3>1, PortConfigAssumption DEF Port, PortId
  <2>3. \A r \in Port : Stage(r) = "waiting" <=> phase[r] = "WaitingAddressed"
    BY <1>0 DEF Stage
  <2>4. Stage(q) = "waiting" /\ \A r \in Port : Stage(r) = "waiting" => q <= r
    BY <2>1, <2>3 DEF FirstWaiting, Waiting
  <2>5. \A r \in Port : Stage(r)' = IF r = q THEN "owner"
                                   ELSE IF r = addressing_port THEN "done"
                                   ELSE Stage(r)
    BY <1>0, <2>1, <2>2 DEF Stage
  <2>6. Lock!HandOver(addressing_port, q)
    BY <2>1, <2>2, <2>4, <2>5 DEF Lock!HandOver
  <2> QED
    BY <2>2, <2>6 DEF Lock!Next
<1>7. ASSUME NEW s \in Slot, OnConfigurationSet(s) PROVE [Lock!Next]_(Lock!vars)
  <2>1. CASE phase' = phase
    BY <1>7, <2>1, SameStageStutters DEF OnConfigurationSet, Stage
  <2>2. CASE phase' = [phase EXCEPT ![out_port[s]] = "ConfiguringEndpoints"]
    <3>1. /\ out_port[s] \in PortId /\ phase[out_port[s]] = "InitializingDevice"
          /\ addressing_port' = addressing_port
      BY <1>7 DEF OnConfigurationSet, TypeOK
    <3> QED
      BY <1>b, <2>2, <3>1 DEF ConfigPhase
  <2> QED
    BY <1>7, <2>1, <2>2, Zenon DEF OnConfigurationSet
<1>8. ASSUME NEW s \in Slot, OnEndpointsConfigured(s) PROVE [Lock!Next]_(Lock!vars)
  <2>1. /\ out_port[s] \in PortId /\ phase[out_port[s]] = "ConfiguringEndpoints"
        /\ phase' = [phase EXCEPT ![out_port[s]] = "Configured"]
        /\ addressing_port' = addressing_port
    BY <1>8 DEF OnEndpointsConfigured, TypeOK
  <2> QED
    BY <1>b, <2>1 DEF ConfigPhase
<1>9. CASE ResetDone
  <2>1. addressing_port' = addressing_port
    BY <1>9 DEF ResetDone
  <2>2. CASE phase' = phase
    BY <2>1, <2>2, SameStageStutters DEF Stage
  <2>3. CASE \E c \in cont : InitializeDevice(c.port, c.slot)
    <3> PICK c \in cont : InitializeDevice(c.port, c.slot)
      BY <2>3
    <3>1. /\ c.port \in PortId /\ phase[c.port] = "AddressingDevice"
          /\ phase' = [phase EXCEPT ![c.port] = "InitializingDevice"]
      BY DEF OneCall, TypeOK, InitializeDevice
    <3> QED
      BY <1>b, <2>1, <3>1 DEF ConfigPhase
  <2> QED
    BY <1>9, <2>2, <2>3 DEF ResetDone
<1>10. CASE UNCHANGED driver
  BY <1>10, SameStageStutters DEF driver, Stage
<1>11. CASE Hardware
  <2>1. UNCHANGED driver
    BY <1>11 DEF Hardware, Execute, ExecEnableSlot, ExecAddressDevice,
       ExecConfigureEndpoint, CompleteTransfer, Connect, Unplug, FinishReset
  <2> QED
    BY <1>10, <2>1
<1>12. ASSUME NEW s \in Slot, OnDescriptor(s) PROVE [Lock!Next]_(Lock!vars)
  BY <1>10, <1>12 DEF OnDescriptor
<1>13. CASE RefuseEvent
  BY <1>10, <1>13 DEF RefuseEvent
<1>14. CASE UNCHANGED vars
  BY <1>10, <1>14 DEF vars
<1> QED
  BY <1>1, <1>2, <1>3, <1>4, <1>5, <1>6, <1>7, <1>8, <1>9, <1>11,
     <1>12, <1>13, <1>14 DEF Next, Driver

(* The event handlers implement the lock of AddressLock: one owner, each   *)
(* port at most once, the lowest waiting port first (xhci.cpp:32-43 and    *)
(* 254-263), for any number of ports and whatever fails.                   *)
THEOREM DriverImplementsLock == Spec => ImplementsLock
<1>1. Init => EventKept
  BY DEF Init, EventKept
<1>2. Init => Lock!Init
  <2> SUFFICES ASSUME Init PROVE Lock!Init
    OBVIOUS
  <2>1. \A p \in Port : Stage(p) = "idle"
    BY PortsAreIds DEF Init, Stage
  <2> QED
    BY <2>1 DEF Init, Lock!Init
<1> QED
  BY <1>1, <1>2, TypeInit, TypeStep, KeptStep, LockInit, LockStep, LockRefined, PTL
     DEF Spec, ImplementsLock, Lock!Spec

-----------------------------------------------------------------------------
(* Commands and their completions.  The completion of a command says no    *)
(* more than its kind and a slot, so that the handlers rely on there being *)
(* one at a time: one Enable Slot or Address Device of the port with the   *)
(* lock, one Configure Endpoint for a slot.                                *)

Clash(x, y) ==
  \/ /\ x.type \in {"EnableSlot", "AddressDevice"}
     /\ y.type \in {"EnableSlot", "AddressDevice"}
  \/ x.type = "ConfigureEndpoint" /\ y.type = "ConfigureEndpoint" /\ x.slot = y.slot

OneAtATime ==
  /\ \A i, j \in DOMAIN cmds : Clash(cmds[i], cmds[j]) => i = j
  /\ \A i, j \in DOMAIN events : Clash(events[i], events[j]) => i = j
  /\ \A c \in Range(cmds), e \in Range(events) : ~Clash(c, e)

LEMMA RangeOfTail ==
  ASSUME NEW S, NEW q \in Seq(S), q # <<>>
  PROVE  /\ Range(Tail(q)) \subseteq Range(q)
         /\ Head(q) \in Range(q)
         /\ \A i \in DOMAIN Tail(q) : i + 1 \in DOMAIN q /\ Tail(q)[i] = q[i + 1]
         /\ Head(q) = q[1] /\ 1 \in DOMAIN q
<1>1. /\ Len(q) \in Nat \ {0} /\ DOMAIN q = 1 .. Len(q)
      /\ DOMAIN Tail(q) = 1 .. Len(q) - 1
      /\ \A i \in 1 .. Len(q) - 1 : Tail(q)[i] = q[i + 1]
  BY HeadTailProperties, LenProperties, EmptySeq
<1> QED
  BY <1>1 DEF Range

LEMMA RangeOfAppend ==
  ASSUME NEW S, NEW q \in Seq(S), NEW x \in S
  PROVE  /\ Range(Append(q, x)) = Range(q) \cup {x}
         /\ \A i \in DOMAIN Append(q, x) :
              \/ i \in DOMAIN q /\ Append(q, x)[i] = q[i]
              \/ i = Len(q) + 1 /\ Append(q, x)[i] = x
         /\ Len(q) + 1 \notin DOMAIN q
<1>1. /\ Len(q) \in Nat /\ DOMAIN q = 1 .. Len(q)
      /\ DOMAIN Append(q, x) = 1 .. Len(q) + 1
      /\ \A i \in 1 .. Len(q) : Append(q, x)[i] = q[i]
      /\ Append(q, x)[Len(q) + 1] = x
  BY AppendProperties, LenProperties
<1>2. Range(q) \cup {x} \subseteq Range(Append(q, x))
  BY <1>1 DEF Range
<1> QED
  BY <1>1, <1>2 DEF Range

LEMMA RangeTypes ==
  ASSUME TypeOK
  PROVE  /\ Range(cmds) \subseteq Command
         /\ Range(events) \subseteq Event
         /\ Command \subseteq Event
         /\ cmds \in Seq(Event)
BY LenProperties, SeqMonotonic DEF TypeOK, Range, Event

\* What is left in the ring does not clash with the event that is handled.
LEMMA HeadAlone ==
  ASSUME TypeOK, OneAtATime, events # <<>>
  PROVE  /\ \A e \in Range(Tail(events)) : ~Clash(Head(events), e)
         /\ \A c \in Range(cmds) : ~Clash(c, Head(events))
<1>1. /\ Head(events) = events[1] /\ 1 \in DOMAIN events /\ Head(events) \in Range(events)
      /\ \A i \in DOMAIN Tail(events) :
           i + 1 \in DOMAIN events /\ Tail(events)[i] = events[i + 1]
  BY RangeOfTail DEF TypeOK
<1>2. DOMAIN Tail(events) \subseteq Nat \ {0}
  BY HeadTailProperties, LenProperties DEF TypeOK
<1>3. ASSUME NEW i \in DOMAIN Tail(events), Clash(Head(events), Tail(events)[i])
      PROVE  FALSE
  BY <1>1, <1>2, <1>3 DEF OneAtATime
<1> QED
  BY <1>1, <1>3 DEF OneAtATime, Range

LEMMA ClashSymmetric == \A x, y : Clash(x, y) <=> Clash(y, x)
BY DEF Clash

\* A handler returns, and may have sent a command.
LEMMA ReturnKeepsApart ==
  ASSUME TypeOK, OneAtATime, events # <<>>, events' = Tail(events),
         \/ cmds' = cmds
         \/ \E c \in Command :
              /\ cmds' = Append(cmds, c)
              /\ \A d \in Range(cmds) : ~Clash(d, c)
              /\ \A e \in Range(Tail(events)) : ~Clash(c, e)
  PROVE  OneAtATime'
<1>1. /\ Range(events') \subseteq Range(events)
      /\ \A i \in DOMAIN events' : i + 1 \in DOMAIN events /\ events'[i] = events[i + 1]
  BY RangeOfTail DEF TypeOK
<1>2. DOMAIN events' \subseteq Nat
  BY HeadTailProperties, LenProperties DEF TypeOK
<1>3. \A i, j \in DOMAIN events' : Clash(events'[i], events'[j]) => i = j
  BY <1>1, <1>2 DEF OneAtATime
<1>4. CASE cmds' = cmds
  BY <1>1, <1>3, <1>4 DEF OneAtATime
<1>5. ASSUME NEW c \in Command, cmds' = Append(cmds, c),
             \A d \in Range(cmds) : ~Clash(d, c),
             \A e \in Range(Tail(events)) : ~Clash(c, e)
      PROVE  OneAtATime'
  <2>1. /\ Range(cmds') = Range(cmds) \cup {c}
        /\ \A i \in DOMAIN cmds' : \/ i \in DOMAIN cmds /\ cmds'[i] = cmds[i]
                                   \/ i = Len(cmds) + 1 /\ cmds'[i] = c
    BY <1>5, RangeOfAppend DEF TypeOK
  <2>2. \A i, j \in DOMAIN cmds' : Clash(cmds'[i], cmds'[j]) => i = j
    BY <1>5, <2>1, ClashSymmetric DEF OneAtATime, Range
  <2> QED
    BY <1>1, <1>3, <1>5, <2>1, <2>2 DEF OneAtATime
<1> QED
  BY <1>4, <1>5

\* The controller executes a command; a new slot does not make it another kind.
LEMMA CompleteKeepsApart ==
  ASSUME TypeOK, OneAtATime, cmds # <<>>,
         NEW type \in {"EnableSlot", "AddressDevice", "ConfigureEndpoint"},
         NEW s \in Slot, Complete(type, s), Head(cmds).type = type,
         type = "ConfigureEndpoint" => Head(cmds).slot = s
  PROVE  OneAtATime'
<1> DEFINE e == [type |-> type, slot |-> s]
<1>1. e \in Event /\ events' = Append(events, e) /\ cmds' = Tail(cmds)
  BY DEF Complete, Event, Command
<1>2. \A x : (Clash(x, e) <=> Clash(x, Head(cmds))) /\ (Clash(e, x) <=> Clash(Head(cmds), x))
  BY DEF Clash
<1>3. /\ Range(events') = Range(events) \cup {e}
      /\ \A i \in DOMAIN events' : \/ i \in DOMAIN events /\ events'[i] = events[i]
                                   \/ i = Len(events) + 1 /\ events'[i] = e
  BY <1>1, RangeOfAppend DEF TypeOK
<1>4. /\ Range(cmds') \subseteq Range(cmds)
      /\ Head(cmds) = cmds[1] /\ 1 \in DOMAIN cmds /\ Head(cmds) \in Range(cmds)
      /\ \A i \in DOMAIN cmds' : i + 1 \in DOMAIN cmds /\ cmds'[i] = cmds[i + 1]
  BY <1>1, RangeOfTail DEF TypeOK
<1>5. DOMAIN cmds' \subseteq Nat \ {0}
  BY <1>1, HeadTailProperties, LenProperties DEF TypeOK
<1>6. \A i, j \in DOMAIN cmds' : Clash(cmds'[i], cmds'[j]) => i = j
  BY <1>4, <1>5 DEF OneAtATime
<1>7. \A c \in Range(cmds') : ~Clash(c, e)
  <2>1. \A i \in DOMAIN cmds' : ~Clash(cmds'[i], Head(cmds))
    BY <1>4, <1>5 DEF OneAtATime
  <2> QED
    BY <1>2, <2>1 DEF Range
<1>8. \A x \in Range(events) : ~Clash(x, e) /\ ~Clash(e, x)
  BY <1>2, <1>4, ClashSymmetric DEF OneAtATime
<1>9. \A i, j \in DOMAIN events' : Clash(events'[i], events'[j]) => i = j
  BY <1>3, <1>8 DEF OneAtATime, Range
<1> QED
  BY <1>3, <1>4, <1>6, <1>7, <1>9 DEF OneAtATime

\* Other events clash with nothing.
LEMMA OtherEventsKeepApart ==
  ASSUME TypeOK, OneAtATime, UNCHANGED cmds, NEW e \in Event,
         e.type \in {"PortStatusChange", "Transfer"},
         events' = Append(events, e) \/ events' = events
  PROVE  OneAtATime'
<1>1. CASE events' = events
  BY <1>1 DEF OneAtATime
<1>2. CASE events' = Append(events, e)
  <2>1. /\ Range(events') = Range(events) \cup {e}
        /\ \A i \in DOMAIN events' : \/ i \in DOMAIN events /\ events'[i] = events[i]
                                     \/ i = Len(events) + 1 /\ events'[i] = e
    BY <1>2, RangeOfAppend DEF TypeOK
  <2>2. \A x : ~Clash(x, e) /\ ~Clash(e, x)
    BY DEF Clash
  <2> QED
    BY <2>1, <2>2 DEF OneAtATime
<1> QED
  BY <1>1, <1>2

LEMMA HeadCommandAlone ==
  ASSUME TypeOK, OneAtATime, cmds # <<>>
  PROVE  /\ \A c \in Range(Tail(cmds)) : ~Clash(Head(cmds), c)
         /\ \A e \in Range(events) : ~Clash(Head(cmds), e)
<1>1. /\ Head(cmds) = cmds[1] /\ 1 \in DOMAIN cmds /\ Head(cmds) \in Range(cmds)
      /\ \A i \in DOMAIN Tail(cmds) : i + 1 \in DOMAIN cmds /\ Tail(cmds)[i] = cmds[i + 1]
  BY RangeOfTail DEF TypeOK
<1>2. DOMAIN Tail(cmds) \subseteq Nat \ {0}
  BY HeadTailProperties, LenProperties DEF TypeOK
<1>3. ASSUME NEW i \in DOMAIN Tail(cmds), Clash(Head(cmds), Tail(cmds)[i])
      PROVE  FALSE
  BY <1>1, <1>2, <1>3 DEF OneAtATime
<1> QED
  BY <1>1, <1>3 DEF OneAtATime, Range

-----------------------------------------------------------------------------
(* What the driver may conclude from a command or its completion.          *)

PastLock == {"AddressingDevice", "InitializingDevice", "ConfiguringEndpoints", "Configured"}

Sent(c) ==
  /\ c.type = "EnableSlot" => phase[addressing_port] = "EnablingSlot"
  /\ c.type = "AddressDevice" =>
       /\ phase[addressing_port] = "AddressingDevice"
       /\ c.slot \in devices
       /\ dcbaa[c.slot] = "context"
       /\ in_port[c.slot] = addressing_port
       /\ initialize_phase[c.slot] = 0
       /\ \A s \in Slot : out_port[s] # addressing_port
  /\ c.type = "ConfigureEndpoint" =>
       /\ c.slot \in devices
       /\ initialize_phase[c.slot] = 4
       /\ phase[out_port[c.slot]] = "ConfiguringEndpoints"

Answered(e) ==
  /\ e.type = "EnableSlot" =>
       /\ phase[addressing_port] = "EnablingSlot"
       /\ initialize_phase[e.slot] = 0
  /\ e.type = "AddressDevice" =>
       /\ cont = {} => phase[addressing_port] = "AddressingDevice"
       /\ initialize_phase[e.slot] = 0
  /\ e.type = "ConfigureEndpoint" =>
       /\ e.slot \in devices
       /\ initialize_phase[e.slot] = 4
       /\ phase[out_port[e.slot]] = "ConfiguringEndpoints"
  /\ e.type = "Transfer" => e.slot \in devices

UnderWay ==
  /\ \A c \in Range(cmds) : Sent(c)
  /\ \A e \in Range(events) : Answered(e)

\* A slot belongs to one port, for good; slot 0 to none.
SlotsInUse ==
  /\ 0 \notin hc_slots
  /\ \A s \in Slot :
       /\ out_port[s] # 0 => s \in hc_slots /\ phase[out_port[s]] \in PastLock
       /\ initialize_phase[s] # 0 => out_port[s] # 0
       /\ s \in transfers => s \in devices /\ out_port[s] # 0
       /\ \A t \in Slot : out_port[s] = out_port[t] /\ out_port[s] # 0 => s = t
  /\ \A c \in cont :
       /\ events # <<>> /\ Head(events) = [type |-> "AddressDevice", slot |-> c.slot]
       /\ c.slot \in devices
       /\ out_port[c.slot] = c.port /\ c.port # 0

Locked == TypeOK /\ EventKept /\ AddressingExclusive /\ OneCall

MessageInv == OneAtATime /\ UnderWay /\ SlotsInUse

LEMMA MessageInit == Init => MessageInv
<1> SUFFICES ASSUME Init PROVE MessageInv
  OBVIOUS
<1>1. Range(cmds) = {} /\ Range(events) = {} /\ DOMAIN cmds = {} /\ DOMAIN events = {}
  BY DEF Init, Range
<1> QED
  BY <1>1 DEF Init, MessageInv, OneAtATime, UnderWay, SlotsInUse

\* The port of a command other than Configure Endpoint has the lock.
LEMMA LockOfCommand ==
  ASSUME Locked, MessageInv, phase[addressing_port] \in {"EnablingSlot", "AddressingDevice"}
  PROVE  /\ spin = 0 /\ cont = {} /\ addressing_port \in Port /\ addressing_port # 0
<1>1. spin = 0 /\ addressing_port \in PortId
  BY DEF Locked, AddressingExclusive, TypeOK
<1>2. cont = {} /\ addressing_port # 0
  BY <1>1, NobodyResumes DEF Locked, AddressingPhase
<1> QED
  BY <1>1, <1>2, PortConfigAssumption DEF Port, PortId

LEMMA ResetPortMessages ==
  ASSUME Locked, MessageInv, NEW p \in Port, phase[p] = "NotConnected", spin = 0,
         ResetPort(p), UNCHANGED <<cont, devmgr, hc, cmds>>,
         events' = events \/ (events # <<>> /\ events' = Tail(events))
  PROVE  MessageInv'
<1> USE PortsAreIds
<1>0. /\ phase \in [PortId -> ConfigPhase] /\ addressing_port \in PortId
      /\ out_port \in [Slot -> PortId]
      /\ p \in PortId /\ p # 0
      /\ cont = {} /\ cont' = {}
      /\ \A r \in PortId : phase[r] \in AddressingPhase <=> r = addressing_port /\ r # 0
  BY NobodyResumes, PortConfigAssumption DEF Locked, TypeOK, Port
<1>1. p # addressing_port
  BY <1>0 DEF AddressingPhase
<1>2. \/ UNCHANGED <<phase, addressing_port>>
      \/ phase' = [phase EXCEPT ![p] = "WaitingAddressed"] /\ UNCHANGED addressing_port
      \/ /\ addressing_port = 0 /\ phase' = [phase EXCEPT ![p] = "ResettingPort"]
         /\ \A r \in PortId : phase[r] \notin AddressingPhase
  BY <1>0 DEF ResetPort, TakeLock
<1>3. \A r \in PortId : phase[r] # "NotConnected" => phase'[r] = phase[r]
  BY <1>0, <1>2
<1>4. OneAtATime'
  BY ReturnKeepsApart DEF Locked, MessageInv, OneAtATime
<1>5. Range(events') \subseteq Range(events)
  BY RangeOfTail DEF Locked, TypeOK
<1>6. \A c \in Command : Sent(c) => Sent(c)'
  BY <1>0, <1>2, <1>3 DEF Sent, devmgr, hc, Command, AddressingPhase
<1>7. \A e \in Event : Answered(e) => Answered(e)'
  BY <1>0, <1>2, <1>3 DEF Answered, devmgr, hc, Event, Command, AddressingPhase
<1>8. UnderWay'
  BY <1>5, <1>6, <1>7, RangeTypes DEF Locked, MessageInv, UnderWay
<1>9. SlotsInUse'
  BY <1>0, <1>3 DEF MessageInv, SlotsInUse, PastLock, devmgr, hc
<1> QED
  BY <1>4, <1>8, <1>9 DEF MessageInv

\* Sending a command adds it to the ring.
LEMMA SentRange ==
  ASSUME TypeOK, NEW type \in {"EnableSlot", "AddressDevice", "ConfigureEndpoint"},
         NEW s \in Slot, Send(type, s)
  PROVE  /\ [type |-> type, slot |-> s] \in Command
         /\ Range(cmds') = Range(cmds) \cup {[type |-> type, slot |-> s]}
<1>1. [type |-> type, slot |-> s] \in Command
  BY DEF Command
<1> QED
  BY <1>1, RangeOfAppend DEF TypeOK, Send

LEMMA PortResetMessages ==
  ASSUME Locked, MessageInv, NEW p \in Port, OnPortReset(p)
  PROVE  MessageInv'
<1> USE PortsAreIds
<1>0. /\ phase \in [PortId -> ConfigPhase] /\ addressing_port \in PortId
      /\ out_port \in [Slot -> PortId]
      /\ spin = 0 /\ cont = {} /\ events # <<>>
      /\ p = addressing_port /\ p # 0
      /\ phase[p] = "ResettingPort" /\ phase' = [phase EXCEPT ![p] = "EnablingSlot"]
  <2>1. spin = 0 /\ events # <<>> /\ phase[p] = "ResettingPort"
    BY DEF OnPortReset, Handling
  <2> QED
    BY <2>1, NobodyResumes DEF OnPortReset, AddressingPhase, Locked, TypeOK
<1>1. /\ \A c \in Range(cmds) : c.type = "ConfigureEndpoint"
      /\ \A e \in Range(events) : e.type \notin {"EnableSlot", "AddressDevice"}
  BY <1>0, RangeTypes DEF MessageInv, UnderWay, Sent, Answered, Locked, Command
<1>2. Range(events') \subseteq Range(events)
  BY <1>0, RangeOfTail DEF OnPortReset, Return, Locked, TypeOK
<1> DEFINE c == [type |-> "EnableSlot", slot |-> 0]
<1>3. c \in Command /\ Range(cmds') = Range(cmds) \cup {c} /\ cmds' = Append(cmds, c)
  BY SentRange DEF OnPortReset, Locked, Send
<1>4. OneAtATime'
  <2>1. \A d \in Range(cmds) : ~Clash(d, c)
    BY <1>1 DEF Clash
  <2>2. \A e \in Range(Tail(events)) : ~Clash(c, e)
    BY <1>0, <1>1, RangeOfTail DEF Clash, Locked, TypeOK
  <2> QED
    BY <1>0, <1>3, <2>1, <2>2, ReturnKeepsApart DEF OnPortReset, Return, Locked, MessageInv
<1>5. \A d \in Range(cmds') : Sent(d)'
  <2>1. Sent(c)'
    BY <1>0 DEF Sent, OnPortReset
  <2>2. ASSUME NEW d \in Range(cmds) PROVE Sent(d)'
    BY <1>0, <1>1, RangeTypes DEF MessageInv, UnderWay, Sent, OnPortReset, devmgr, hc,
       Locked, Command
  <2> QED
    BY <1>3, <2>1, <2>2
<1>6. \A e \in Range(events') : Answered(e)'
  BY <1>0, <1>1, <1>2, RangeTypes DEF MessageInv, UnderWay, Answered, OnPortReset,
     devmgr, hc, Locked, Event, Command
<1>7. SlotsInUse'
  BY <1>0 DEF MessageInv, SlotsInUse, PastLock, OnPortReset, devmgr, hc
<1> QED
  BY <1>4, <1>5, <1>6, <1>7 DEF MessageInv, UnderWay

LEMMA SlotEnabledMessages ==
  ASSUME Locked, MessageInv, NEW s \in Slot, OnSlotEnabled(s)
  PROVE  MessageInv'
<1> USE PortsAreIds
<1> DEFINE c == [type |-> "AddressDevice", slot |-> s]
<1>0. /\ phase \in [PortId -> ConfigPhase] /\ addressing_port \in PortId
      /\ out_port \in [Slot -> PortId] /\ initialize_phase \in [Slot -> 0 .. 4]
      /\ in_port \in [Slot -> PortId] /\ dcbaa \in [Slot -> {"null", "scratchpad", "context"}]
      /\ cont = {} /\ events # <<>> /\ addressing_port # 0
      /\ Head(events) = [type |-> "EnableSlot", slot |-> s]
      /\ phase[addressing_port] = "EnablingSlot"
      /\ phase' = [phase EXCEPT ![addressing_port] = "AddressingDevice"]
      /\ addressing_port' = addressing_port /\ cont' = cont
      /\ devices' = devices \cup {s}
      /\ in_port' = [in_port EXCEPT ![s] = addressing_port]
      /\ dcbaa' = [dcbaa EXCEPT ![s] = "context"]
      /\ UNCHANGED <<initialize_phase, out_port, transfers, hc_slots>>
      /\ events' = Tail(events) /\ Send("AddressDevice", s)
  BY LockOfCommand DEF OnSlotEnabled, Handling, AllocDevice, LoadDCBAA, Return, Locked,
     TypeOK, hc
<1>1. /\ \A d \in Range(cmds) : d.type = "ConfigureEndpoint"
      /\ \A e \in Range(events') : e.type \notin {"EnableSlot", "AddressDevice"}
  BY <1>0, HeadAlone, RangeTypes DEF MessageInv, Locked, Clash, Command
<1>2. Range(events') \subseteq Range(events) /\ Head(events) \in Range(events)
  BY <1>0, RangeOfTail DEF Locked, TypeOK
<1>3. c \in Command /\ Range(cmds') = Range(cmds) \cup {c} /\ cmds' = Append(cmds, c)
  BY <1>0, SentRange DEF Locked, Send
<1>4. OneAtATime'
  <2>1. \A d \in Range(cmds) : ~Clash(d, c)
    BY <1>1 DEF Clash
  <2>2. \A e \in Range(Tail(events)) : ~Clash(c, e)
    BY <1>0, <1>1 DEF Clash
  <2> QED
    BY <1>0, <1>3, <2>1, <2>2, ReturnKeepsApart DEF Locked, MessageInv
<1>5. \A d \in Range(cmds') : Sent(d)'
  <2>1. Sent(c)'
    <3>1. initialize_phase[s] = 0
      BY <1>0, <1>2 DEF MessageInv, UnderWay, Answered
    <3>2. \A t \in Slot : out_port[t] # addressing_port
      BY <1>0 DEF MessageInv, SlotsInUse, PastLock
    <3> QED
      BY <1>0, <3>1, <3>2 DEF Sent
  <2>2. ASSUME NEW d \in Range(cmds) PROVE Sent(d)'
    BY <1>0, <1>1, RangeTypes DEF MessageInv, UnderWay, Sent, Locked, Command
  <2> QED
    BY <1>3, <2>1, <2>2
<1>6. \A e \in Range(events') : Answered(e)'
  BY <1>0, <1>1, <1>2, RangeTypes DEF MessageInv, UnderWay, Answered, Locked, Event, Command
<1>7. SlotsInUse'
  BY <1>0 DEF MessageInv, SlotsInUse, PastLock
<1> QED
  BY <1>4, <1>5, <1>6, <1>7 DEF MessageInv, UnderWay

LEMMA AddressedLastMessages ==
  ASSUME Locked, MessageInv, NEW s \in Slot, OnAddressedLast(s)
  PROVE  MessageInv'
<1> USE PortsAreIds
<1>0. /\ phase \in [PortId -> ConfigPhase] /\ addressing_port \in PortId
      /\ out_port \in [Slot -> PortId] /\ initialize_phase \in [Slot -> 0 .. 4]
      /\ cont = {} /\ events # <<>> /\ addressing_port # 0
      /\ Head(events) = [type |-> "AddressDevice", slot |-> s]
      /\ s \in devices /\ out_port[s] = addressing_port
      /\ phase[addressing_port] = "AddressingDevice"
      /\ phase' = [phase EXCEPT ![addressing_port] = "InitializingDevice"]
      /\ initialize_phase' = [initialize_phase EXCEPT ![s] = 1]
      /\ transfers' = transfers \cup {s}
      /\ UNCHANGED <<devices, in_port, dcbaa, out_port, hc_slots, cont, cmds>>
      /\ events' = Tail(events)
  BY LockOfCommand DEF OnAddressedLast, AddressDone, Handling, InitializeDevice, Return,
     Locked, TypeOK
<1>1. /\ \A d \in Range(cmds) : d.type = "ConfigureEndpoint"
      /\ \A e \in Range(events') : e.type \notin {"EnableSlot", "AddressDevice"}
  BY <1>0, HeadAlone, RangeTypes DEF MessageInv, Locked, Clash, Command
<1>2. Range(events') \subseteq Range(events) /\ Head(events) \in Range(events)
  BY <1>0, RangeOfTail DEF Locked, TypeOK
<1>3. initialize_phase[s] = 0
  BY <1>0, <1>2 DEF MessageInv, UnderWay, Answered
<1>4. OneAtATime'
  BY <1>0, ReturnKeepsApart DEF Locked, MessageInv
<1>5. \A d \in Range(cmds') : Sent(d)'
  BY <1>0, <1>1, <1>3, RangeTypes DEF MessageInv, UnderWay, Sent, Locked, Command
<1>6. \A e \in Range(events') : Answered(e)'
  BY <1>0, <1>1, <1>2, <1>3, RangeTypes
     DEF MessageInv, UnderWay, Answered, Locked, Event, Command
<1>7. SlotsInUse'
  BY <1>0 DEF MessageInv, SlotsInUse, PastLock
<1> QED
  BY <1>4, <1>5, <1>6, <1>7 DEF MessageInv, UnderWay

LEMMA AddressedNextMessages ==
  ASSUME Locked, MessageInv, NEW s \in Slot, OnAddressedNext(s)
  PROVE  MessageInv'
<1> USE PortsAreIds
<1> PICK q \in Port : FirstWaiting(q) /\ TakeLock(q)
  BY DEF OnAddressedNext
<1>0. /\ phase \in [PortId -> ConfigPhase] /\ addressing_port \in PortId
      /\ out_port \in [Slot -> PortId] /\ initialize_phase \in [Slot -> 0 .. 4]
      /\ cont = {} /\ events # <<>> /\ addressing_port # 0
      /\ Head(events) = [type |-> "AddressDevice", slot |-> s]
      /\ s \in devices /\ out_port[s] = addressing_port
      /\ phase[addressing_port] = "AddressingDevice"
      /\ phase[q] = "WaitingAddressed" /\ q \in PortId
      /\ phase' = [phase EXCEPT ![q] = "ResettingPort"]
      /\ addressing_port' = q
      /\ cont' = {[port |-> addressing_port, slot |-> s]}
      /\ UNCHANGED <<devices, in_port, dcbaa, out_port, initialize_phase, transfers,
                     hc_slots, cmds, events>>
  BY LockOfCommand DEF OnAddressedNext, AddressDone, Handling, TakeLock, FirstWaiting,
     Waiting, Locked, TypeOK, devmgr, hc
<1>1. /\ \A d \in Range(cmds) : d.type = "ConfigureEndpoint"
      /\ \A e \in Range(events) : e.type # "EnableSlot"
  <2>1. \A e \in Range(events) : e.type # "EnableSlot"
    BY <1>0 DEF MessageInv, UnderWay, Answered
  <2> QED
    BY <1>0, <2>1, HeadAlone, RangeTypes DEF MessageInv, Locked, Clash, Command
<1>2. OneAtATime'
  BY <1>0 DEF MessageInv, OneAtATime
<1>3. \A d \in Range(cmds') : Sent(d)'
  BY <1>0, <1>1, RangeTypes DEF MessageInv, UnderWay, Sent, Locked, Command
<1>4. \A e \in Range(events') : Answered(e)'
  BY <1>0, <1>1, RangeTypes DEF MessageInv, UnderWay, Answered, Locked, Event, Command
<1>5. SlotsInUse'
  BY <1>0 DEF MessageInv, SlotsInUse, PastLock
<1> QED
  BY <1>2, <1>3, <1>4, <1>5 DEF MessageInv, UnderWay

\* The rest of the device's initialisation.
LEMMA DescriptorMessages ==
  ASSUME Locked, MessageInv, NEW s \in Slot, OnDescriptor(s)
  PROVE  MessageInv'
<1>0. /\ out_port \in [Slot -> PortId] /\ initialize_phase \in [Slot -> 0 .. 4]
      /\ cont = {} /\ events # <<>> /\ s \in devices
      /\ UNCHANGED <<phase, addressing_port, devices, in_port, dcbaa, out_port, hc_slots,
                     cont, cmds>>
      /\ events' = Tail(events)
  BY NobodyResumes DEF OnDescriptor, Handling, Return, driver, Locked, TypeOK
<1>1. /\ initialize_phase[s] \in {1, 2}
      /\ \/ /\ \E n \in {2, 3} : initialize_phase' = [initialize_phase EXCEPT ![s] = n]
            /\ transfers' = transfers \cup {s}
         \/ UNCHANGED <<initialize_phase, transfers>>
  <2>1. CASE initialize_phase[s] = 1
    BY <2>1 DEF OnDescriptor
  <2>2. CASE initialize_phase[s] = 2 /\ out_port[s] \notin NoDriverPorts
    BY <2>2 DEF OnDescriptor
  <2>3. CASE initialize_phase[s] = 2 /\ out_port[s] \in NoDriverPorts
    BY <2>3 DEF OnDescriptor
  <2> QED
    BY <2>1, <2>2, <2>3 DEF OnDescriptor
<1>2. \A t \in Slot : /\ initialize_phase[t] \in {0, 4} => initialize_phase'[t] = initialize_phase[t]
                      /\ initialize_phase'[t] # 0 => initialize_phase[t] # 0
  BY <1>0, <1>1
<1>3. Range(events') \subseteq Range(events)
  BY <1>0, RangeOfTail DEF Locked, TypeOK
<1>4. OneAtATime'
  BY <1>0, ReturnKeepsApart DEF Locked, MessageInv
<1>5. \A d \in Command : Sent(d) => Sent(d)'
  BY <1>0, <1>2 DEF Sent, Command
<1>6. \A e \in Event : Answered(e) => Answered(e)'
  BY <1>0, <1>2 DEF Answered, Event, Command
<1>7. UnderWay'
  BY <1>0, <1>3, <1>5, <1>6, RangeTypes DEF MessageInv, UnderWay, Locked
<1>8. SlotsInUse'
  <2>1. out_port[s] # 0
    BY <1>1 DEF MessageInv, SlotsInUse
  <2>2. transfers' \subseteq transfers \cup {s}
    BY <1>1
  <2> QED
    BY <1>0, <1>2, <2>1, <2>2 DEF MessageInv, SlotsInUse
<1> QED
  BY <1>4, <1>7, <1>8 DEF MessageInv

LEMMA ConfigurationSetMessages ==
  ASSUME Locked, MessageInv, NEW s \in Slot, OnConfigurationSet(s)
  PROVE  MessageInv'
<1> DEFINE c == [type |-> "ConfigureEndpoint", slot |-> s]
<1>0. /\ phase \in [PortId -> ConfigPhase] /\ addressing_port \in PortId
      /\ out_port \in [Slot -> PortId] /\ initialize_phase \in [Slot -> 0 .. 4]
      /\ cont = {} /\ events # <<>> /\ s \in devices
      /\ initialize_phase[s] = 3
      /\ phase[out_port[s]] = "InitializingDevice"
      /\ initialize_phase' = [initialize_phase EXCEPT ![s] = 4]
      /\ UNCHANGED <<addressing_port, devices, in_port, dcbaa, out_port, transfers,
                     hc_slots, cont>>
      /\ events' = Tail(events)
  BY NobodyResumes DEF OnConfigurationSet, Handling, Return, hc, Locked, TypeOK
<1>1. \/ /\ phase' = [phase EXCEPT ![out_port[s]] = "ConfiguringEndpoints"]
         /\ Send("ConfigureEndpoint", s)
      \/ UNCHANGED <<phase, cmds>>
  BY DEF OnConfigurationSet
<1>2. \A r \in PortId : phase[r] # "InitializingDevice" => phase'[r] = phase[r]
  BY <1>0, <1>1
<1>3. Range(events') \subseteq Range(events)
  BY <1>0, RangeOfTail DEF Locked, TypeOK
<1>4. \A d \in Range(cmds) \cup Range(events) :
        d.type = "ConfigureEndpoint" => d.slot # s
  BY <1>0 DEF MessageInv, UnderWay, Sent, Answered
<1>5. OneAtATime'
  <2>1. CASE cmds' = cmds
    BY <1>0, <2>1, ReturnKeepsApart DEF Locked, MessageInv
  <2>2. CASE Send("ConfigureEndpoint", s)
    <3>1. c \in Command /\ cmds' = Append(cmds, c)
      BY <2>2 DEF Send, Command
    <3>2. \A d \in Range(cmds) : ~Clash(d, c)
      BY <1>4 DEF Clash
    <3>3. \A e \in Range(Tail(events)) : ~Clash(c, e)
      BY <1>0, <1>3, <1>4 DEF Clash
    <3> QED
      BY <1>0, <3>1, <3>2, <3>3, ReturnKeepsApart DEF Locked, MessageInv
  <2> QED
    BY <1>1, <2>1, <2>2
<1>6. \A d \in Range(cmds) : Sent(d)'
  BY <1>0, <1>2, <1>4, RangeTypes DEF MessageInv, UnderWay, Sent, Command, Locked
<1>7. \A d \in Range(cmds') : Sent(d)'
  <2>1. CASE cmds' = cmds
    BY <1>6, <2>1
  <2>2. CASE /\ phase' = [phase EXCEPT ![out_port[s]] = "ConfiguringEndpoints"]
             /\ Send("ConfigureEndpoint", s)
    <3>1. Sent(c)'
      BY <1>0, <2>2 DEF Sent
    <3> QED
      BY <1>6, <2>2, <3>1, SentRange DEF Locked
  <2> QED
    BY <1>1, <2>1, <2>2
<1>8. \A e \in Range(events') : Answered(e)'
  BY <1>0, <1>2, <1>3, <1>4, RangeTypes
     DEF MessageInv, UnderWay, Answered, Locked, Event, Command
<1>9. SlotsInUse'
  <2>1. \A r \in PortId : phase[r] \in PastLock => phase'[r] \in PastLock
    BY <1>0, <1>1 DEF PastLock
  <2>2. out_port[s] # 0
    BY <1>0 DEF MessageInv, SlotsInUse
  <2> QED
    BY <1>0, <2>1, <2>2 DEF MessageInv, SlotsInUse
<1> QED
  BY <1>5, <1>7, <1>8, <1>9 DEF MessageInv, UnderWay

LEMMA EndpointsConfiguredMessages ==
  ASSUME Locked, MessageInv, NEW s \in Slot, OnEndpointsConfigured(s)
  PROVE  MessageInv'
<1>0. /\ phase \in [PortId -> ConfigPhase] /\ addressing_port \in PortId
      /\ out_port \in [Slot -> PortId] /\ initialize_phase \in [Slot -> 0 .. 4]
      /\ cont = {} /\ events # <<>> /\ s \in devices
      /\ Head(events) = [type |-> "ConfigureEndpoint", slot |-> s]
      /\ phase[out_port[s]] = "ConfiguringEndpoints"
      /\ phase' = [phase EXCEPT ![out_port[s]] = "Configured"]
      /\ UNCHANGED <<addressing_port, devices, in_port, dcbaa, out_port, transfers,
                     initialize_phase, hc_slots, cont, cmds>>
      /\ events' = Tail(events)
  BY NobodyResumes DEF OnEndpointsConfigured, Handling, Return, devmgr, hc, Locked, TypeOK
<1>1. Range(events') \subseteq Range(events) /\ Head(events) \in Range(events)
  BY <1>0, RangeOfTail DEF Locked, TypeOK
<1>2. \A d \in Range(cmds) \cup Range(events') :
        d.type = "ConfigureEndpoint" => d.slot # s
  BY <1>0, HeadAlone DEF MessageInv, Locked, Clash
<1>3. out_port[s] # 0
  BY <1>0, <1>1 DEF MessageInv, SlotsInUse, UnderWay, Answered
<1>4. OneAtATime'
  BY <1>0, ReturnKeepsApart DEF Locked, MessageInv
<1>5. \A t \in Slot : t # s => out_port[t] # out_port[s]
  BY <1>3 DEF MessageInv, SlotsInUse
<1>6. \A d \in Range(cmds') : Sent(d)'
  BY <1>0, <1>2, <1>5, RangeTypes DEF MessageInv, UnderWay, Sent, Command, Locked
<1>7. \A e \in Range(events') : Answered(e)'
  BY <1>0, <1>1, <1>2, <1>5, RangeTypes
     DEF MessageInv, UnderWay, Answered, Locked, Event, Command
<1>8. SlotsInUse'
  BY <1>0 DEF MessageInv, SlotsInUse, PastLock
<1> QED
  BY <1>4, <1>6, <1>7, <1>8 DEF MessageInv, UnderWay

LEMMA RefusedMessages ==
  ASSUME Locked, MessageInv, RefuseEvent
  PROVE  MessageInv'
<1>0. cont = {} /\ events # <<>> /\ events' = Tail(events) /\ cmds' = cmds
      /\ UNCHANGED <<driver, devmgr, hc>>
  BY NobodyResumes DEF RefuseEvent, Handling, Return, Locked, TypeOK
<1>1. Range(events') \subseteq Range(events)
  BY <1>0, RangeOfTail DEF Locked, TypeOK
<1>2. OneAtATime'
  BY <1>0, ReturnKeepsApart DEF Locked, MessageInv
<1>3. UnderWay'
  BY <1>0, <1>1 DEF MessageInv, UnderWay, Sent, Answered, driver, devmgr, hc
<1>4. SlotsInUse'
  BY <1>0 DEF MessageInv, SlotsInUse, driver, devmgr, hc
<1> QED
  BY <1>2, <1>3, <1>4 DEF MessageInv

LEMMA ResetDoneMessages ==
  ASSUME Locked, MessageInv, ResetDone
  PROVE  MessageInv'
<1>0. /\ phase \in [PortId -> ConfigPhase] /\ addressing_port \in PortId
      /\ out_port \in [Slot -> PortId] /\ initialize_phase \in [Slot -> 0 .. 4]
      /\ phase[addressing_port] = "ResettingPort"
      /\ UNCHANGED <<addressing_port, devices, in_port, dcbaa, out_port, hc_slots, cmds>>
  BY DEF ResetDone, Locked, TypeOK, AddressingExclusive
<1>1. CASE cont = {}
  <2>1. UNCHANGED <<phase, cont, initialize_phase, transfers>>
    BY <1>1 DEF ResetDone
  <2>2. events' = events \/ (events # <<>> /\ events' = Tail(events))
    <3>1. CASE events' = events
      BY <3>1
    <3>2. CASE scan > MaxPorts /\ events' = Tail(events)
      BY <3>2 DEF ResetDone, Locked, EventKept
    <3> QED
      BY <3>1, <3>2 DEF ResetDone, Return
  <2>3. Range(events') \subseteq Range(events)
    BY <2>2, RangeOfTail DEF Locked, TypeOK
  <2>4. OneAtATime'
    BY <1>0, <2>2, ReturnKeepsApart DEF Locked, MessageInv, OneAtATime
  <2>5. UnderWay'
    BY <1>0, <2>1, <2>3 DEF MessageInv, UnderWay, Sent, Answered
  <2>6. SlotsInUse'
    BY <1>0, <1>1, <2>1 DEF MessageInv, SlotsInUse
  <2> QED
    BY <2>4, <2>5, <2>6 DEF MessageInv
<1>2. CASE cont # {}
  <2>1. scan > MaxPorts /\ ~(scan <= MaxPorts)
    BY <1>2, PortConfigAssumption DEF Locked, OneCall, TypeOK
  <2> PICK c \in cont : InitializeDevice(c.port, c.slot)
    BY <1>2, <2>1 DEF ResetDone
  <2>2. /\ c.port \in PortId /\ c.slot \in Slot /\ c.port # addressing_port
        /\ phase[c.port] = "AddressingDevice"
        /\ phase' = [phase EXCEPT ![c.port] = "InitializingDevice"]
        /\ initialize_phase' = [initialize_phase EXCEPT ![c.slot] = 1]
        /\ transfers' = transfers \cup {c.slot}
        /\ cont' = {} /\ events # <<>> /\ events' = Tail(events)
        /\ Head(events) = [type |-> "AddressDevice", slot |-> c.slot]
        /\ c.slot \in devices /\ out_port[c.slot] = c.port /\ c.port # 0
    BY <1>2, <2>1 DEF ResetDone, Return, InitializeDevice, Locked, TypeOK, OneCall,
       MessageInv, SlotsInUse
  <2>3. Range(events') \subseteq Range(events) /\ Head(events) \in Range(events)
    BY <2>2, RangeOfTail DEF Locked, TypeOK
  <2>4. initialize_phase[c.slot] = 0
    BY <2>2, <2>3 DEF MessageInv, UnderWay, Answered
  <2>5. /\ \A d \in Range(cmds) : d.type = "ConfigureEndpoint"
        /\ \A e \in Range(events') : e.type \notin {"EnableSlot", "AddressDevice"}
    <3>1. \A e \in Range(events') : e.type \notin {"EnableSlot", "AddressDevice"}
      BY <2>2, HeadAlone DEF MessageInv, Locked, Clash
    <3> QED
      BY <1>0, <3>1, RangeTypes DEF MessageInv, UnderWay, Sent, Locked, Command
  <2>6. OneAtATime'
    BY <1>0, <2>2, ReturnKeepsApart DEF Locked, MessageInv
  <2>7. \A d \in Range(cmds') : Sent(d)'
    BY <1>0, <2>2, <2>4, <2>5, RangeTypes DEF MessageInv, UnderWay, Sent, Locked, Command
  <2>8. \A e \in Range(events') : Answered(e)'
    BY <1>0, <2>2, <2>3, <2>4, <2>5, RangeTypes
       DEF MessageInv, UnderWay, Answered, Locked, Event, Command
  <2>9. SlotsInUse'
    BY <1>0, <2>2 DEF MessageInv, SlotsInUse, PastLock
  <2> QED
    BY <2>6, <2>7, <2>8, <2>9 DEF MessageInv, UnderWay
<1> QED
  BY <1>1, <1>2

\* What the controller and the ports write into the event ring.
LEMMA OtherEventMessages ==
  ASSUME Locked, MessageInv, UNCHANGED <<driver, devmgr, out_port, hc_slots, cmds>>,
         transfers' \subseteq transfers,
         NEW e \in Event, e.type \in {"PortStatusChange", "Transfer"},
         e.type = "Transfer" => e.slot \in devices,
         events' = Append(events, e) \/ events' = events
  PROVE  MessageInv'
<1>1. OneAtATime'
  BY OtherEventsKeepApart DEF Locked, MessageInv
<1>2. /\ Range(events') \subseteq Range(events) \cup {e}
      /\ events # <<>> => events' # <<>> /\ Head(events') = Head(events)
  <2>1. events \in Seq(Event)
    BY DEF Locked, TypeOK
  <2>2. Append(events, e) # <<>> /\ (events # <<>> => Head(Append(events, e)) = Head(events))
    BY <2>1, AppendProperties, HeadTailProperties, LenProperties, EmptySeq
  <2>3. CASE events' = events
    BY <2>3
  <2>4. CASE events' = Append(events, e)
    BY <2>1, <2>2, <2>4, RangeOfAppend
  <2> QED
    BY <2>3, <2>4
<1>3. \A c \in Range(cmds') : Sent(c)'
  BY DEF MessageInv, UnderWay, Sent, driver, devmgr
<1>4. Answered(e)'
  BY DEF Answered, devmgr
<1>5. \A x \in Range(events) : Answered(x)'
  BY DEF MessageInv, UnderWay, Answered, driver, devmgr
<1>6. SlotsInUse'
  BY <1>2 DEF MessageInv, SlotsInUse, driver, devmgr
<1> QED
  BY <1>1, <1>2, <1>3, <1>4, <1>5, <1>6 DEF MessageInv, UnderWay

LEMMA AnnounceMessages ==
  ASSUME Locked, MessageInv, UNCHANGED <<driver, devmgr, out_port, hc_slots, transfers, cmds>>,
         NEW p \in Port, NEW a, NEW o, Announce(p, a, o)
  PROVE  MessageInv'
<1> DEFINE e == [type |-> "PortStatusChange", port |-> p]
<1>1. e \in Event /\ e.type = "PortStatusChange"
  BY DEF Event
<1>2. events' = Append(events, e) \/ events' = events
  BY Zenon DEF Announce
<1> HIDE DEF e
<1> QED
  BY <1>1, <1>2, OtherEventMessages

LEMMA TransferMessages ==
  ASSUME Locked, MessageInv, NEW s \in Slot, CompleteTransfer(s)
  PROVE  MessageInv'
<1> PICK ok \in BOOLEAN :
      events' = Append(events, [type |-> "Transfer", slot |-> s, ok |-> ok])
  BY DEF CompleteTransfer
<1> DEFINE e == [type |-> "Transfer", slot |-> s, ok |-> ok]
<1>1. e \in Event /\ e.type = "Transfer" /\ e.slot = s /\ events' = Append(events, e)
  BY DEF Event
<1>2. s \in devices
  BY DEF CompleteTransfer, MessageInv, SlotsInUse
<1>3. UNCHANGED <<driver, devmgr, out_port, hc_slots, cmds>> /\ transfers' \subseteq transfers
  BY DEF CompleteTransfer
<1> HIDE DEF e
<1> QED
  BY <1>1, <1>2, <1>3, OtherEventMessages

LEMMA ExecutedMessages ==
  ASSUME Locked, MessageInv, cmds # <<>>,
         NEW type \in {"EnableSlot", "AddressDevice", "ConfigureEndpoint"},
         NEW s \in Slot, Complete(type, s), Head(cmds).type = type,
         type = "ConfigureEndpoint" => Head(cmds).slot = s
  PROVE  /\ OneAtATime'
         /\ Range(cmds') \subseteq Range(cmds)
         /\ \A c \in Range(cmds') : ~Clash(Head(cmds), c)
         /\ \A e \in Range(events) : ~Clash(Head(cmds), e)
         /\ Range(events') = Range(events) \cup {[type |-> type, slot |-> s]}
         /\ events # <<>> => events' # <<>> /\ Head(events') = Head(events)
         /\ Sent(Head(cmds))
<1> DEFINE e == [type |-> type, slot |-> s]
<1>1. e \in Event /\ events' = Append(events, e) /\ cmds' = Tail(cmds) /\ events \in Seq(Event)
  BY DEF Complete, Event, Command, Locked, TypeOK
<1>2. events # <<>> => events' # <<>> /\ Head(events') = Head(events)
  BY <1>1, AppendProperties, HeadTailProperties, LenProperties, EmptySeq
<1>3. Head(cmds) \in Range(cmds) /\ Range(cmds') \subseteq Range(cmds)
  BY <1>1, RangeOfTail DEF Locked, TypeOK
<1> QED
  BY <1>1, <1>2, <1>3, RangeOfAppend, CompleteKeepsApart, HeadCommandAlone
     DEF Locked, MessageInv, UnderWay

LEMMA EnableSlotMessages ==
  ASSUME Locked, MessageInv, ExecEnableSlot
  PROVE  MessageInv'
<1> USE PortsAreIds
<1> PICK s \in Slot : /\ Complete("EnableSlot", s)
                      /\ \/ s = 0 /\ UNCHANGED hc_slots
                         \/ s \notin hc_slots /\ s # 0 /\ hc_slots' = hc_slots \cup {s}
  BY DEF ExecEnableSlot
<1>1. /\ cmds # <<>> /\ Head(cmds) = [type |-> "EnableSlot", slot |-> 0]
      /\ UNCHANGED <<driver, devmgr, out_port, transfers>>
  BY DEF ExecEnableSlot, Executing
<1> DEFINE e == [type |-> "EnableSlot", slot |-> s]
<1>2. /\ OneAtATime' /\ Sent(Head(cmds))
      /\ Range(cmds') \subseteq Range(cmds) /\ Range(events') = Range(events) \cup {e}
      /\ events # <<>> => events' # <<>> /\ Head(events') = Head(events)
  BY <1>1, ExecutedMessages
<1>3. \A c \in Range(cmds') : Sent(c)'
  BY <1>1, <1>2 DEF MessageInv, UnderWay, Sent, driver, devmgr
<1>4. Answered(e)'
  <2>1. initialize_phase[s] = 0
    BY DEF MessageInv, SlotsInUse
  <2> QED
    BY <1>1, <1>2, <2>1 DEF Sent, Answered, driver, devmgr
<1>5. \A x \in Range(events) : Answered(x)'
  BY <1>1 DEF MessageInv, UnderWay, Answered, driver, devmgr
<1>6. SlotsInUse'
  BY <1>1, <1>2 DEF MessageInv, SlotsInUse, driver, devmgr
<1> QED
  BY <1>2, <1>3, <1>4, <1>5, <1>6 DEF MessageInv, UnderWay

LEMMA AddressDeviceMessages ==
  ASSUME Locked, MessageInv, NEW s \in Slot, ExecAddressDevice(s)
  PROVE  MessageInv'
<1> USE PortsAreIds
<1> DEFINE e == [type |-> "AddressDevice", slot |-> s]
<1>1. /\ cmds # <<>> /\ Head(cmds) = e /\ Complete("AddressDevice", s)
      /\ UNCHANGED <<driver, devmgr, transfers, hc_slots>>
      /\ \/ s \in hc_slots /\ out_port' = [out_port EXCEPT ![s] = in_port[s]]
         \/ UNCHANGED out_port
  BY DEF ExecAddressDevice, Executing
<1>2. /\ OneAtATime' /\ Sent(Head(cmds))
      /\ Range(cmds') \subseteq Range(cmds)
      /\ \A c \in Range(cmds') : ~Clash(Head(cmds), c)
      /\ \A x \in Range(events) : ~Clash(Head(cmds), x)
      /\ Range(events') = Range(events) \cup {e}
  BY <1>1, ExecutedMessages
<1>3. /\ phase[addressing_port] = "AddressingDevice"
      /\ in_port[s] = addressing_port /\ initialize_phase[s] = 0
      /\ \A t \in Slot : out_port[t] # addressing_port
  BY <1>1, <1>2 DEF Sent
<1>4. /\ cont = {} /\ addressing_port # 0 /\ out_port \in [Slot -> PortId]
  BY <1>3, LockOfCommand DEF Locked, TypeOK
<1>5. \A t \in Slot : t # s => out_port'[t] = out_port[t]
  BY <1>1, <1>4
<1>6. /\ \A c \in Range(cmds') : c.type = "ConfigureEndpoint"
      /\ \A x \in Range(events) : x.type \notin {"EnableSlot", "AddressDevice"}
  BY <1>1, <1>2, RangeTypes DEF Clash, Locked, Command
<1>7. \A c \in Range(cmds') : Sent(c)'
  BY <1>1, <1>2, <1>3, <1>5, <1>6, RangeTypes
     DEF MessageInv, UnderWay, Sent, driver, devmgr, Locked, Command
<1>8. Answered(e)'
  BY <1>1, <1>3 DEF Answered, driver, devmgr
<1>9. \A x \in Range(events) : Answered(x)'
  BY <1>1, <1>3, <1>5, <1>6, RangeTypes
     DEF MessageInv, UnderWay, Answered, driver, devmgr, Locked, Event, Command
<1>10. SlotsInUse'
  <2>1. CASE UNCHANGED out_port
    BY <1>1, <1>4, <2>1 DEF MessageInv, SlotsInUse, driver, devmgr
  <2>2. CASE s \in hc_slots /\ out_port' = [out_port EXCEPT ![s] = addressing_port]
    BY <1>1, <1>3, <1>4, <2>2 DEF MessageInv, SlotsInUse, driver, devmgr, PastLock
  <2> QED
    BY <1>1, <1>3, <2>1, <2>2
<1> QED
  BY <1>2, <1>7, <1>8, <1>9, <1>10 DEF MessageInv, UnderWay

LEMMA ConfigureEndpointMessages ==
  ASSUME Locked, MessageInv, NEW s \in Slot, ExecConfigureEndpoint(s)
  PROVE  MessageInv'
<1> DEFINE e == [type |-> "ConfigureEndpoint", slot |-> s]
<1>1. /\ cmds # <<>> /\ Head(cmds) = e /\ Complete("ConfigureEndpoint", s)
      /\ UNCHANGED <<driver, devmgr, hc>>
  BY DEF ExecConfigureEndpoint, Executing
<1>2. /\ OneAtATime' /\ Sent(Head(cmds))
      /\ Range(cmds') \subseteq Range(cmds) /\ Range(events') = Range(events) \cup {e}
      /\ events # <<>> => events' # <<>> /\ Head(events') = Head(events)
  BY <1>1, ExecutedMessages
<1>3. \A c \in Range(cmds') : Sent(c)'
  BY <1>1, <1>2 DEF MessageInv, UnderWay, Sent, driver, devmgr, hc
<1>4. Answered(e)'
  BY <1>1, <1>2 DEF Sent, Answered, driver, devmgr, hc
<1>5. \A x \in Range(events) : Answered(x)'
  BY <1>1 DEF MessageInv, UnderWay, Answered, driver, devmgr, hc
<1>6. SlotsInUse'
  BY <1>1, <1>2 DEF MessageInv, SlotsInUse, driver, devmgr, hc
<1> QED
  BY <1>2, <1>3, <1>4, <1>5, <1>6 DEF MessageInv, UnderWay

LEMMA MessageStep == Locked /\ MessageInv /\ [Next]_vars => MessageInv'
<1> SUFFICES ASSUME Locked, MessageInv, [Next]_vars PROVE MessageInv'
  OBVIOUS
<1>1. CASE ScanPort
  <2>1. scan \in Port
    BY <1>1, PortConfigAssumption DEF ScanPort, Locked, TypeOK, Port
  <2> QED
    BY <1>1, <2>1, ResetPortMessages DEF ScanPort
<1>2. ASSUME NEW p \in Port, OnPortConnected(p) PROVE MessageInv'
  <2>1. events' = events \/ (events # <<>> /\ events' = Tail(events))
    BY <1>2 DEF OnPortConnected, Handling
  <2>2. phase[p] = "NotConnected" /\ spin = 0 /\ ResetPort(p)
        /\ UNCHANGED <<cont, devmgr, hc, cmds>>
    BY <1>2 DEF OnPortConnected, Handling
  <2> QED
    BY <2>1, <2>2, ResetPortMessages
<1>3. ASSUME NEW p \in Port, OnPortReset(p) PROVE MessageInv'
  BY <1>3, PortResetMessages
<1>4. ASSUME NEW s \in Slot, OnSlotEnabled(s) PROVE MessageInv'
  BY <1>4, SlotEnabledMessages
<1>5. ASSUME NEW s \in Slot, OnAddressedLast(s) PROVE MessageInv'
  BY <1>5, AddressedLastMessages
<1>6. ASSUME NEW s \in Slot, OnAddressedNext(s) PROVE MessageInv'
  BY <1>6, AddressedNextMessages
<1>7. ASSUME NEW s \in Slot, OnDescriptor(s) PROVE MessageInv'
  BY <1>7, DescriptorMessages
<1>8. ASSUME NEW s \in Slot, OnConfigurationSet(s) PROVE MessageInv'
  BY <1>8, ConfigurationSetMessages
<1>9. ASSUME NEW s \in Slot, OnEndpointsConfigured(s) PROVE MessageInv'
  BY <1>9, EndpointsConfiguredMessages
<1>10. CASE RefuseEvent
  BY <1>10, RefusedMessages
<1>11. CASE ResetDone
  BY <1>11, ResetDoneMessages
<1>12. ASSUME NEW p \in Port, Connect(p) \/ FinishReset(p) \/ Unplug(p) PROVE MessageInv'
  <2>1. UNCHANGED <<driver, devmgr, out_port, hc_slots, transfers, cmds>>
    BY <1>12 DEF Connect, FinishReset, Unplug, hc
  <2> QED
    BY <1>12, <2>1, AnnounceMessages DEF Connect, FinishReset, Unplug
<1>13. CASE ExecEnableSlot
  BY <1>13, EnableSlotMessages
<1>14. ASSUME NEW s \in Slot, ExecAddressDevice(s) PROVE MessageInv'
  BY <1>14, AddressDeviceMessages
<1>15. ASSUME NEW s \in Slot, ExecConfigureEndpoint(s) PROVE MessageInv'
  BY <1>15, ConfigureEndpointMessages
<1>16. ASSUME NEW s \in Slot, CompleteTransfer(s) PROVE MessageInv'
  BY <1>16, TransferMessages
<1>17. CASE UNCHANGED vars
  BY <1>17 DEF vars, driver, devmgr, hc, MessageInv, OneAtATime, UnderWay, Sent, Answered,
     SlotsInUse
<1> QED
  BY <1>1, <1>2, <1>3, <1>4, <1>5, <1>6, <1>7, <1>8, <1>9, <1>10, <1>11,
     <1>12, <1>13, <1>14, <1>15, <1>16, <1>17 DEF Next, Driver, Hardware, Execute

LEMMA LockedInit == Init => Locked
BY TypeInit, LockInit DEF Locked, Init, EventKept

LEMMA LockedStep == Locked /\ [Next]_vars => Locked'
BY TypeStep, KeptStep, LockStep DEF Locked

\* Of the indices of a ring those of one kind are at most one.
LEMMA AtMostOne ==
  ASSUME NEW S, \A x, y \in S : x = y
  PROVE  Cardinality(S) <= 1
<1>1. CASE S = {}
  BY <1>1, FS_EmptySet
<1>2. CASE S # {}
  <2> PICK x \in S : TRUE
    BY <1>2
  <2>1. S = {x}
    OBVIOUS
  <2> QED
    BY <2>1, FS_Singleton
<1> QED
  BY <1>1, <1>2

(* Whatever fails and whoever is unplugged, one command of the port with   *)
(* the lock and one Configure Endpoint for each slot are in the command    *)
(* ring at most (EnableSlot, AddressDevice, ConfigureEndpoints of          *)
(* xhci.cpp).                                                              *)
THEOREM CommandsAlwaysFit == Spec => []CommandsFitRing
<1>1. ASSUME Locked, MessageInv PROVE CommandsFitRing
  <2>1. \A i \in DOMAIN cmds : cmds[i] \in Command
    BY <1>1, RangeTypes DEF Locked, Range
  <2>2. \A i, j \in DOMAIN cmds : cmds[i] = cmds[j] => i = j
    BY <1>1, <2>1 DEF MessageInv, OneAtATime, Clash, Command
  <2>3. \A i, j \in {k \in DOMAIN cmds : cmds[k].type # "ConfigureEndpoint"} : i = j
    BY <1>1, <2>1 DEF MessageInv, OneAtATime, Clash, Command
  <2> QED
    BY <2>2, <2>3, AtMostOne DEF CommandsFitRing
<1> QED
  BY <1>1, LockedInit, LockedStep, MessageInit, MessageStep, PTL DEF Spec

-----------------------------------------------------------------------------
(* The default address.                                                    *)

PortsInReset == \A p \in Port : portsc[p].pr => spin = p

\* A device at the default address is that of the port with the lock, and a
\* port the controller has written to a device context is past it.
DefaultAddress ==
  /\ \A p \in Port : portsc[p].ped /\ ~portsc[p].addr => p = addressing_port
  /\ \A s \in Slot : out_port[s] # 0 /\ portsc[out_port[s]].ped => portsc[out_port[s]].addr

AddressInv == PortsInReset /\ DefaultAddress

LEMMA AddressInit == Init => AddressInv
BY DEF Init, AddressInv, PortsInReset, DefaultAddress

\* What the steps do to the port registers, field by field.
LEMMA TakeLockFields ==
  ASSUME TypeOK, NEW p \in Port, TakeLock(p)
  PROVE  /\ \A q \in Port : q # p => portsc'[q] = portsc[q]
         /\ portsc'[p].pr /\ ~portsc'[p].ped /\ portsc'[p].addr = portsc[p].addr
<1>1. portsc' = [portsc EXCEPT ![p] =
                   [portsc[p] EXCEPT !.pr = TRUE, !.ped = FALSE, !.csc = FALSE]]
  BY DEF TakeLock, TypeOK
<1>2. portsc[p] \in PortSC /\ portsc \in [Port -> PortSC]
  BY DEF TypeOK
<1> QED
  BY <1>1, <1>2 DEF PortSC

LEMMA HandledFields ==
  ASSUME TypeOK, NEW p \in Port, OnPortReset(p)
  PROVE  \A q \in Port : /\ portsc'[q].pr = portsc[q].pr
                         /\ portsc'[q].ped = portsc[q].ped
                         /\ portsc'[q].addr = portsc[q].addr
<1>1. portsc' = [portsc EXCEPT ![p] = [portsc[p] EXCEPT !.prc = FALSE]]
  BY DEF OnPortReset, TypeOK
<1>2. portsc[p] \in PortSC /\ portsc \in [Port -> PortSC]
  BY DEF TypeOK
<1> QED
  BY <1>1, <1>2 DEF PortSC

LEMMA ConnectFields ==
  ASSUME TypeOK, NEW p \in Port, Connect(p)
  PROVE  \A q \in Port : /\ portsc'[q].pr = portsc[q].pr
                         /\ portsc'[q].ped = portsc[q].ped
                         /\ portsc'[q].addr = portsc[q].addr
<1>1. portsc' = [portsc EXCEPT ![p] = [portsc[p] EXCEPT !.ccs = TRUE, !.csc = TRUE]]
  BY DEF Connect, TypeOK
<1>2. portsc[p] \in PortSC /\ portsc \in [Port -> PortSC]
  BY DEF TypeOK
<1> QED
  BY <1>1, <1>2 DEF PortSC

LEMMA UnplugFields ==
  ASSUME TypeOK, NEW p \in Port, Unplug(p)
  PROVE  /\ \A q \in Port : q # p => portsc'[q] = portsc[q]
         /\ ~portsc'[p].pr /\ ~portsc'[p].ped
<1>1. portsc' = [portsc EXCEPT ![p] =
                   [portsc[p] EXCEPT !.ccs = FALSE, !.ped = FALSE, !.pr = FALSE,
                                     !.addr = FALSE, !.csc = TRUE]]
  BY DEF Unplug, TypeOK
<1>2. portsc[p] \in PortSC /\ portsc \in [Port -> PortSC]
  BY DEF TypeOK
<1> QED
  BY <1>1, <1>2 DEF PortSC

LEMMA FinishResetFields ==
  ASSUME TypeOK, NEW p \in Port, FinishReset(p)
  PROVE  /\ \A q \in Port : q # p => portsc'[q] = portsc[q]
         /\ ~portsc'[p].pr /\ portsc'[p].ped /\ ~portsc'[p].addr
<1>1. portsc' = [portsc EXCEPT ![p] =
                   [portsc[p] EXCEPT !.pr = FALSE, !.ped = TRUE, !.prc = TRUE,
                                     !.addr = FALSE]]
  BY DEF FinishReset, TypeOK
<1>2. portsc[p] \in PortSC /\ portsc \in [Port -> PortSC]
  BY DEF TypeOK
<1> QED
  BY <1>1, <1>2 DEF PortSC

\* For slot and port of a command that is being executed, see Sent.
LEMMA AddressDeviceFields ==
  ASSUME Locked, MessageInv, NEW s \in Slot, ExecAddressDevice(s)
  PROVE  /\ addressing_port \in Port
         /\ phase[addressing_port] = "AddressingDevice"
         /\ cont = {} /\ s \in devices
         /\ \/ /\ portsc[addressing_port].ped
               /\ out_port' = [out_port EXCEPT ![s] = addressing_port]
               /\ \A q \in Port : /\ portsc'[q].pr = portsc[q].pr
                                  /\ portsc'[q].ped = portsc[q].ped
                                  /\ portsc'[q].addr = IF q = addressing_port THEN TRUE
                                                       ELSE portsc[q].addr
            \/ /\ MayFail \/ s \notin hc_slots \/ ~portsc[addressing_port].ped
               /\ \/ UNCHANGED out_port
                  \/ s \in hc_slots /\ out_port' = [out_port EXCEPT ![s] = addressing_port]
               /\ UNCHANGED portsc
<1>1. cmds # <<>> /\ Head(cmds) = [type |-> "AddressDevice", slot |-> s]
  BY DEF ExecAddressDevice, Executing
<1>2. Head(cmds) \in Range(cmds)
  BY <1>1, RangeOfTail DEF Locked, TypeOK
<1>3. /\ phase[addressing_port] = "AddressingDevice" /\ s \in devices
      /\ in_port[s] = addressing_port
  BY <1>1, <1>2 DEF MessageInv, UnderWay, Sent
<1>4. addressing_port \in Port /\ cont = {}
  BY <1>3, LockOfCommand
<1>5. portsc \in [Port -> PortSC] /\ portsc[addressing_port] \in PortSC
  BY <1>4 DEF Locked, TypeOK
<1>6. ASSUME portsc' = [portsc EXCEPT ![in_port[s]].addr = TRUE]
      PROVE  \A q \in Port : /\ portsc'[q].pr = portsc[q].pr
                             /\ portsc'[q].ped = portsc[q].ped
                             /\ portsc'[q].addr = IF q = addressing_port THEN TRUE
                                                  ELSE portsc[q].addr
  <2>1. portsc' = [portsc EXCEPT ![addressing_port] =
                     [portsc[addressing_port] EXCEPT !.addr = TRUE]]
    BY <1>3, <1>6, Zenon
  <2> QED
    BY <1>5, <2>1 DEF PortSC
<1>7. \/ /\ portsc[addressing_port].ped
         /\ out_port' = [out_port EXCEPT ![s] = addressing_port]
         /\ portsc' = [portsc EXCEPT ![in_port[s]].addr = TRUE]
      \/ /\ MayFail \/ s \notin hc_slots \/ ~portsc[addressing_port].ped
         /\ \/ UNCHANGED out_port
            \/ s \in hc_slots /\ out_port' = [out_port EXCEPT ![s] = addressing_port]
         /\ UNCHANGED portsc
  BY <1>3, Zenon DEF ExecAddressDevice
<1> QED
  BY <1>3, <1>4, <1>6, <1>7, Zenon

\* The lock passes from nobody, or from a port that has its address.
LEMMA TakeLockAddress ==
  ASSUME Locked, MessageInv, AddressInv, NEW p \in Port, TakeLock(p), spin = 0,
         UNCHANGED out_port, phase[p] \notin PastLock,
         addressing_port # 0 => \E s \in Slot : out_port[s] = addressing_port
  PROVE  AddressInv'
<1>1. /\ spin' = p /\ addressing_port' = p /\ 0 \notin Port
      /\ addressing_port \in PortId /\ out_port \in [Slot -> PortId]
  BY PortConfigAssumption DEF TakeLock, Port, Locked, TypeOK
<1>2. /\ \A q \in Port : q # p => portsc'[q] = portsc[q]
      /\ portsc'[p].pr /\ ~portsc'[p].ped
  BY TakeLockFields DEF Locked
<1>3. PortsInReset'
  BY <1>1, <1>2 DEF AddressInv, PortsInReset
<1>4. ASSUME NEW q \in Port, portsc'[q].ped, ~portsc'[q].addr PROVE q = addressing_port'
  <2>1. q # p /\ portsc'[q] = portsc[q]
    BY <1>2, <1>4
  <2>2. q = addressing_port
    BY <1>4, <2>1 DEF AddressInv, DefaultAddress
  <2> QED
    BY <1>1, <1>4, <2>1, <2>2 DEF AddressInv, DefaultAddress
<1>5. ASSUME NEW s \in Slot, out_port[s] # 0, portsc'[out_port[s]].ped
      PROVE  portsc'[out_port[s]].addr
  <2>1. out_port[s] # p /\ out_port[s] \in Port
    BY <1>1, <1>5, PortConfigAssumption DEF MessageInv, SlotsInUse, Port, PortId
  <2> QED
    BY <1>2, <1>5, <2>1 DEF AddressInv, DefaultAddress
<1> QED
  BY <1>3, <1>4, <1>5 DEF AddressInv, DefaultAddress

LEMMA AddressStep ==
  ASSUME ~MayFail
  PROVE  Locked /\ MessageInv /\ AddressInv /\ [Next]_vars => AddressInv'
<1> SUFFICES ASSUME Locked, MessageInv, AddressInv, [Next]_vars PROVE AddressInv'
  OBVIOUS
<1>0. /\ 0 \notin Port /\ addressing_port \in PortId /\ out_port \in [Slot -> PortId]
      /\ spin \in PortId /\ Port \subseteq PortId /\ \A p \in PortId : p # 0 => p \in Port
  BY PortConfigAssumption DEF Locked, TypeOK, Port, PortId
<1>a. CASE UNCHANGED <<portsc, addressing_port, out_port, spin>>
  BY <1>a DEF AddressInv, PortsInReset, DefaultAddress
<1>b. ASSUME NEW p \in Port, phase[p] = "NotConnected", spin = 0, ResetPort(p),
             UNCHANGED out_port
      PROVE  AddressInv'
  <2>1. CASE UNCHANGED <<portsc, addressing_port, spin>>
    BY <1>a, <1>b, <2>1
  <2>2. CASE addressing_port = 0 /\ TakeLock(p)
    BY <1>b, <2>2, TakeLockAddress DEF PastLock
  <2> QED
    BY <1>b, <2>1, <2>2 DEF ResetPort
<1>1. CASE ScanPort
  <2>1. scan \in Port
    BY <1>1, PortConfigAssumption DEF ScanPort, Locked, TypeOK, Port
  <2> QED
    BY <1>1, <1>b, <2>1 DEF ScanPort, hc
<1>2. ASSUME NEW p \in Port, OnPortConnected(p) PROVE AddressInv'
  BY <1>2, <1>b DEF OnPortConnected, Handling, hc
<1>3. ASSUME NEW p \in Port, OnPortReset(p) PROVE AddressInv'
  <2>1. \A q \in Port : /\ portsc'[q].pr = portsc[q].pr
                        /\ portsc'[q].ped = portsc[q].ped
                        /\ portsc'[q].addr = portsc[q].addr
    BY <1>3, HandledFields DEF Locked
  <2>2. UNCHANGED <<addressing_port, out_port, spin>>
    BY <1>3 DEF OnPortReset, hc
  <2> QED
    BY <1>0, <2>1, <2>2 DEF AddressInv, PortsInReset, DefaultAddress
<1>4. ASSUME NEW s \in Slot, OnSlotEnabled(s) PROVE AddressInv'
  BY <1>4, <1>a DEF OnSlotEnabled, AllocDevice, LoadDCBAA, hc
<1>5. ASSUME NEW s \in Slot, OnAddressedLast(s) PROVE AddressInv'
  <2>1. /\ UNCHANGED <<portsc, out_port, spin>>
        /\ addressing_port' = 0 /\ out_port[s] = addressing_port
    BY <1>5 DEF OnAddressedLast, AddressDone
  <2>2. \A p \in Port : ~(portsc[p].ped /\ ~portsc[p].addr)
    BY <1>0, <2>1 DEF AddressInv, DefaultAddress
  <2> QED
    BY <2>1, <2>2 DEF AddressInv, PortsInReset, DefaultAddress
<1>6. ASSUME NEW s \in Slot, OnAddressedNext(s) PROVE AddressInv'
  <2> PICK q \in Port : FirstWaiting(q) /\ TakeLock(q)
    BY <1>6 DEF OnAddressedNext
  <2>1. /\ spin = 0 /\ UNCHANGED out_port
        /\ phase[q] \notin PastLock /\ out_port[s] = addressing_port
    BY <1>6 DEF OnAddressedNext, AddressDone, Handling, FirstWaiting, Waiting, PastLock, hc
  <2> QED
    BY <2>1, TakeLockAddress
<1>7. ASSUME NEW s \in Slot, OnDescriptor(s) PROVE AddressInv'
  BY <1>7, <1>a DEF OnDescriptor, driver
<1>8. ASSUME NEW s \in Slot, OnConfigurationSet(s) PROVE AddressInv'
  BY <1>8, <1>a DEF OnConfigurationSet, hc
<1>9. ASSUME NEW s \in Slot, OnEndpointsConfigured(s) PROVE AddressInv'
  BY <1>9, <1>a DEF OnEndpointsConfigured, hc
<1>10. CASE RefuseEvent
  BY <1>10, <1>a DEF RefuseEvent, driver, hc
<1>11. CASE ResetDone
  <2>1. /\ UNCHANGED <<portsc, addressing_port, out_port>>
        /\ spin # 0 /\ ~portsc[spin].pr
    BY <1>11 DEF ResetDone
  <2>2. \A p \in Port : ~portsc[p].pr
    BY <2>1 DEF AddressInv, PortsInReset
  <2> QED
    BY <2>1, <2>2 DEF AddressInv, PortsInReset, DefaultAddress
<1>12. ASSUME NEW p \in Port, Connect(p) PROVE AddressInv'
  <2>1. \A q \in Port : /\ portsc'[q].pr = portsc[q].pr
                        /\ portsc'[q].ped = portsc[q].ped
                        /\ portsc'[q].addr = portsc[q].addr
    BY <1>12, ConnectFields DEF Locked
  <2>2. UNCHANGED <<addressing_port, out_port, spin>>
    BY <1>12 DEF Connect, driver, hc
  <2> QED
    BY <1>0, <2>1, <2>2 DEF AddressInv, PortsInReset, DefaultAddress
<1>13. ASSUME NEW p \in Port, Unplug(p) PROVE AddressInv'
  <2>1. /\ \A q \in Port : q # p => portsc'[q] = portsc[q]
        /\ ~portsc'[p].pr /\ ~portsc'[p].ped
    BY <1>13, UnplugFields DEF Locked
  <2>2. UNCHANGED <<addressing_port, out_port, spin>>
    BY <1>13 DEF Unplug, driver
  <2> QED
    BY <1>0, <2>1, <2>2 DEF AddressInv, PortsInReset, DefaultAddress
<1>14. ASSUME NEW p \in Port, FinishReset(p) PROVE AddressInv'
  <2>1. /\ \A q \in Port : q # p => portsc'[q] = portsc[q]
        /\ ~portsc'[p].pr /\ portsc'[p].ped /\ ~portsc'[p].addr
    BY <1>14, FinishResetFields DEF Locked
  <2>2. UNCHANGED <<addressing_port, out_port, spin>> /\ portsc[p].pr
    BY <1>14 DEF FinishReset, driver, hc
  <2>3. p = addressing_port /\ phase[p] = "ResettingPort"
    BY <1>0, <2>2 DEF AddressInv, PortsInReset, Locked, AddressingExclusive
  <2>4. \A s \in Slot : out_port[s] # 0 => out_port[s] # p /\ out_port[s] \in Port
    BY <1>0, <2>3 DEF MessageInv, SlotsInUse, PastLock
  <2> QED
    BY <1>0, <2>1, <2>2, <2>3, <2>4 DEF AddressInv, PortsInReset, DefaultAddress
<1>15. CASE ExecEnableSlot
  BY <1>15, <1>a DEF ExecEnableSlot, driver
<1>16. ASSUME NEW s \in Slot, ExecAddressDevice(s) PROVE AddressInv'
  <2>1. UNCHANGED <<addressing_port, spin>> /\ addressing_port \in Port
    BY <1>16, AddressDeviceFields DEF ExecAddressDevice, driver
  <2>2. CASE /\ out_port' = [out_port EXCEPT ![s] = addressing_port]
             /\ \A q \in Port : /\ portsc'[q].pr = portsc[q].pr
                                /\ portsc'[q].ped = portsc[q].ped
                                /\ portsc'[q].addr = IF q = addressing_port THEN TRUE
                                                     ELSE portsc[q].addr
    BY <1>0, <2>1, <2>2 DEF AddressInv, PortsInReset, DefaultAddress
  <2>3. CASE UNCHANGED <<portsc, out_port>>
    BY <1>a, <2>1, <2>3
  <2>4. CASE /\ ~portsc[addressing_port].ped /\ UNCHANGED portsc
             /\ out_port' = [out_port EXCEPT ![s] = addressing_port]
    BY <1>0, <2>1, <2>4 DEF AddressInv, PortsInReset, DefaultAddress
  <2> QED
    BY <1>16, <2>2, <2>3, <2>4, AddressDeviceFields
<1>17. ASSUME NEW s \in Slot, ExecConfigureEndpoint(s) PROVE AddressInv'
  BY <1>17, <1>a DEF ExecConfigureEndpoint, driver, hc
<1>18. ASSUME NEW s \in Slot, CompleteTransfer(s) PROVE AddressInv'
  BY <1>18, <1>a DEF CompleteTransfer, driver
<1>19. CASE UNCHANGED vars
  BY <1>19, <1>a DEF vars, driver, hc
<1> QED
  BY <1>1, <1>2, <1>3, <1>4, <1>5, <1>6, <1>7, <1>8, <1>9, <1>10, <1>11, <1>12, <1>13,
     <1>14, <1>15, <1>16, <1>17, <1>18, <1>19 DEF Next, Driver, Hardware, Execute

(* If no command fails, at most one device on the bus answers to the       *)
(* default address, a device being reset included, for any number of ports *)
(* and whoever is unplugged in the meantime (xhci.cpp:32-36).              *)
THEOREM OneDefaultDeviceOnly == ASSUME ~MayFail PROVE Spec => []OneDefaultDevice
<1>1. ASSUME Locked, AddressInv PROVE OneDefaultDevice
  <2>1. \A p \in Port : portsc[p].pr => p = addressing_port
    BY <1>1, PortConfigAssumption
       DEF AddressInv, PortsInReset, Locked, AddressingExclusive, Port
  <2>2. \A p \in Port : portsc[p].ped /\ ~portsc[p].addr => p = addressing_port
    BY <1>1 DEF AddressInv, DefaultAddress
  <2> QED
    BY <2>1, <2>2 DEF OneDefaultDevice
<1> QED
  BY <1>1, LockedInit, LockedStep, MessageInit, MessageStep, AddressInit, AddressStep, PTL
     DEF Spec

-----------------------------------------------------------------------------
(* Slots.  As long as no command fails, an Enable Slot finds a slot: a     *)
(* port asks for one once, and there are as many slots as ports.           *)

Faultless == ~MayFail /\ MaxPorts <= MaxSlots

\* Ports that have asked for their slot.
Asked == {p \in Port : phase[p] \in PastLock \cup {"EnablingSlot"}}

SlotsLeft ==
  /\ Cardinality(hc_slots) <= Cardinality(Asked)
  /\ \A c \in Range(cmds) : c.type = "EnableSlot" => Cardinality(hc_slots) < Cardinality(Asked)

SlotsGranted ==
  /\ dcbaa[0] = "scratchpad"
  /\ \A e \in Range(events) : e.type = "EnableSlot" => e.slot \in hc_slots
  /\ \A c \in Range(cmds) : c.type = "AddressDevice" => c.slot \in hc_slots

SlotInv == SlotsLeft /\ SlotsGranted

LEMMA FiniteCounts ==
  ASSUME TypeOK
  PROVE  /\ IsFiniteSet(hc_slots) /\ Cardinality(hc_slots) \in Nat
         /\ IsFiniteSet(Asked) /\ Cardinality(Asked) \in Nat
         /\ Cardinality(Asked) <= MaxPorts
         /\ IsFiniteSet(Slot)
<1>1. IsFiniteSet(Slot) /\ IsFiniteSet(Port) /\ Cardinality(Port) = MaxPorts
  BY FS_Interval, PortConfigAssumption DEF Slot, Port
<1>2. hc_slots \in SUBSET Slot /\ Asked \in SUBSET Port
  BY DEF TypeOK, Asked
<1>3. IsFiniteSet(hc_slots) /\ IsFiniteSet(Asked) /\ Cardinality(Asked) <= MaxPorts
  BY <1>1, <1>2, FS_Subset
<1> QED
  BY <1>1, <1>3, FS_CardinalityType

LEMMA SlotInit == Init => SlotInv
<1> SUFFICES ASSUME Init PROVE SlotInv
  OBVIOUS
<1>1. TypeOK /\ hc_slots = {} /\ Range(cmds) = {} /\ Range(events) = {}
  BY TypeInit DEF Init, Range
<1>2. Cardinality(hc_slots) <= Cardinality(Asked)
  BY <1>1, FiniteCounts, FS_EmptySet
<1> QED
  BY <1>1, <1>2, PortsAreIds DEF SlotInv, SlotsLeft, SlotsGranted, Init

\* A free slot for an Enable Slot command.
LEMMA FreeSlot ==
  ASSUME Faultless, Locked, SlotInv, NEW c \in Range(cmds), c.type = "EnableSlot"
  PROVE  ~(Slot \subseteq hc_slots \cup {0})
<1>1. Cardinality(hc_slots) < MaxSlots
  BY FiniteCounts, PortConfigAssumption DEF Locked, SlotInv, SlotsLeft, Faultless
<1>2. 1 .. MaxSlots \subseteq Slot /\ Cardinality(1 .. MaxSlots) = MaxSlots
  BY FS_Interval, PortConfigAssumption DEF Slot
<1>3. ASSUME Slot \subseteq hc_slots \cup {0} PROVE FALSE
  <2>1. 1 .. MaxSlots \in SUBSET hc_slots
    BY <1>2, <1>3
  <2>2. Cardinality(1 .. MaxSlots) <= Cardinality(hc_slots)
    BY <2>1, FiniteCounts, FS_Subset DEF Locked
  <2> QED
    BY <1>1, <1>2, <2>2, FiniteCounts, PortConfigAssumption DEF Locked
<1> QED
  BY <1>3

\* Steps by which no port asks for a slot and none is given.
LEMMA SlotsKept ==
  ASSUME Locked, SlotInv, hc_slots' = hc_slots, Asked' = Asked, dcbaa'[0] = dcbaa[0],
         \A c \in Range(cmds') : c \in Range(cmds) \/ c.type = "ConfigureEndpoint",
         \A e \in Range(events') : e \in Range(events) \/ e.type # "EnableSlot"
  PROVE  SlotInv'
BY DEF SlotInv, SlotsLeft, SlotsGranted

LEMMA AskedKept ==
  ASSUME Locked, NEW p \in PortId, NEW ph, phase' = [phase EXCEPT ![p] = ph],
         phase[p] \in PastLock \cup {"EnablingSlot"} <=> ph \in PastLock \cup {"EnablingSlot"}
  PROVE  Asked' = Asked
<1>1. \A r \in Port : phase'[r] = IF r = p THEN ph ELSE phase[r]
  BY PortsAreIds DEF Locked, TypeOK
<1> QED
  BY <1>1 DEF Asked

LEMMA ResetPortAsked ==
  ASSUME Locked, NEW p \in Port, ResetPort(p), phase[p] = "NotConnected"
  PROVE  Asked' = Asked
<1>1. CASE UNCHANGED phase
  BY <1>1 DEF Asked
<1>2. ASSUME NEW ph \in {"WaitingAddressed", "ResettingPort"}, phase' = [phase EXCEPT ![p] = ph]
      PROVE  Asked' = Asked
  BY <1>2, AskedKept, PortsAreIds DEF PastLock
<1> QED
  BY <1>1, <1>2 DEF ResetPort, TakeLock

LEMMA SlotStep ==
  ASSUME Faultless
  PROVE  Locked /\ MessageInv /\ SlotInv /\ [Next]_vars => SlotInv'
<1> SUFFICES ASSUME Locked, MessageInv, SlotInv, [Next]_vars PROVE SlotInv'
  OBVIOUS
<1> USE PortsAreIds
<1>0. /\ phase \in [PortId -> ConfigPhase] /\ addressing_port \in PortId
      /\ out_port \in [Slot -> PortId] /\ dcbaa \in [Slot -> {"null", "scratchpad", "context"}]
      /\ cmds \in Seq(Command) /\ events \in Seq(Event)
  BY DEF Locked, TypeOK
<1>r. events # <<>> => Range(Tail(events)) \subseteq Range(events) /\ Head(events) \in Range(events)
  BY <1>0, RangeOfTail
\* The rings, when no command is sent and at most an event is popped.
<1>a. ASSUME events' = events \/ (events # <<>> /\ events' = Tail(events)),
             UNCHANGED <<cmds, dcbaa, hc_slots>>, Asked' = Asked
      PROVE  SlotInv'
  BY <1>a, <1>r, SlotsKept
<1>1. CASE ScanPort
  <2>1. scan \in Port
    BY <1>1, PortConfigAssumption DEF ScanPort, Locked, TypeOK, Port
  <2>2. Asked' = Asked
    BY <1>1, <2>1, ResetPortAsked DEF ScanPort
  <2> QED
    BY <1>1, <1>a, <2>2 DEF ScanPort, devmgr, hc
<1>2. ASSUME NEW p \in Port, OnPortConnected(p) PROVE SlotInv'
  <2>1. Asked' = Asked
    BY <1>2, ResetPortAsked DEF OnPortConnected
  <2> QED
    BY <1>2, <1>a, <2>1 DEF OnPortConnected, Handling, devmgr, hc
<1>3. ASSUME NEW p \in Port, OnPortReset(p) PROVE SlotInv'
  <2>1. /\ phase[p] = "ResettingPort" /\ phase' = [phase EXCEPT ![p] = "EnablingSlot"]
        /\ events # <<>> /\ events' = Tail(events) /\ Send("EnableSlot", 0)
        /\ UNCHANGED <<dcbaa, hc_slots>>
    BY <1>3 DEF OnPortReset, Handling, Return, devmgr, hc
  <2>2. Range(cmds') = Range(cmds) \cup {[type |-> "EnableSlot", slot |-> 0]}
    BY <2>1, SentRange DEF Locked
  <2>3. Asked' = Asked \cup {p} /\ p \notin Asked
    <3>1. \A r \in Port : phase'[r] = IF r = p THEN "EnablingSlot" ELSE phase[r]
      BY <1>0, <2>1
    <3> QED
      BY <2>1, <3>1 DEF Asked, PastLock
  <2>4. /\ Cardinality(hc_slots) < Cardinality(Asked')
        /\ Cardinality(hc_slots) <= Cardinality(Asked')
    <3>1. /\ IsFiniteSet(Asked) /\ Cardinality(Asked) \in Nat /\ Cardinality(hc_slots) \in Nat
          /\ Cardinality(hc_slots) <= Cardinality(Asked)
      BY FiniteCounts DEF Locked, SlotInv, SlotsLeft
    <3>2. Cardinality(Asked \cup {p}) = Cardinality(Asked) + 1
      BY <2>3, <3>1, FS_AddElement
    <3>3. Cardinality(Asked') = Cardinality(Asked) + 1
      BY <2>3, <3>2, Zenon
    <3> QED
      BY <3>1, <3>3
  <2>5. SlotsLeft'
    BY <2>1, <2>4 DEF SlotsLeft
  <2>6. SlotsGranted'
    BY <1>r, <2>1, <2>2 DEF SlotInv, SlotsGranted
  <2> QED
    BY <2>5, <2>6 DEF SlotInv
<1>4. ASSUME NEW s \in Slot, OnSlotEnabled(s) PROVE SlotInv'
  <2>1. /\ phase[addressing_port] = "EnablingSlot"
        /\ phase' = [phase EXCEPT ![addressing_port] = "AddressingDevice"]
        /\ events # <<>> /\ events' = Tail(events) /\ Send("AddressDevice", s)
        /\ Head(events) = [type |-> "EnableSlot", slot |-> s]
        /\ dcbaa' = [dcbaa EXCEPT ![s] = "context"]
        /\ UNCHANGED <<hc_slots>>
    BY <1>4 DEF OnSlotEnabled, Handling, AllocDevice, LoadDCBAA, Return, hc
  <2>2. s \in hc_slots /\ s # 0
    BY <1>r, <2>1 DEF SlotInv, SlotsGranted, MessageInv, SlotsInUse
  <2>3. Range(cmds') = Range(cmds) \cup {[type |-> "AddressDevice", slot |-> s]}
    BY <2>1, SentRange DEF Locked
  <2>4. Asked' = Asked
    BY <1>0, <2>1, AskedKept DEF PastLock
  <2> QED
    BY <1>0, <1>r, <2>1, <2>2, <2>3, <2>4 DEF SlotInv, SlotsLeft, SlotsGranted
<1>5. ASSUME NEW s \in Slot, OnAddressedLast(s) PROVE SlotInv'
  <2>1. /\ phase[addressing_port] = "AddressingDevice"
        /\ phase' = [phase EXCEPT ![addressing_port] = "InitializingDevice"]
        /\ events # <<>> /\ events' = Tail(events) /\ UNCHANGED <<cmds, dcbaa, hc_slots>>
    BY <1>5 DEF OnAddressedLast, AddressDone, Handling, InitializeDevice, Return
  <2>2. Asked' = Asked
    BY <1>0, <2>1, AskedKept DEF PastLock
  <2> QED
    BY <1>a, <2>1, <2>2
<1>6. ASSUME NEW s \in Slot, OnAddressedNext(s) PROVE SlotInv'
  <2> PICK q \in Port : FirstWaiting(q) /\ TakeLock(q)
    BY <1>6 DEF OnAddressedNext
  <2>1. /\ phase[q] = "WaitingAddressed" /\ phase' = [phase EXCEPT ![q] = "ResettingPort"]
        /\ UNCHANGED <<cmds, events, dcbaa, hc_slots>>
    BY <1>6 DEF OnAddressedNext, FirstWaiting, Waiting, TakeLock, devmgr, hc
  <2>2. Asked' = Asked
    BY <2>1, AskedKept DEF PastLock
  <2> QED
    BY <1>a, <2>1, <2>2
<1>7. ASSUME NEW s \in Slot, OnDescriptor(s) PROVE SlotInv'
  <2>1. /\ events # <<>> /\ events' = Tail(events) /\ UNCHANGED <<phase, cmds, dcbaa, hc_slots>>
    BY <1>7 DEF OnDescriptor, Handling, Return, driver
  <2> QED
    BY <1>a, <2>1 DEF Asked
<1>8. ASSUME NEW s \in Slot, OnConfigurationSet(s) PROVE SlotInv'
  <2>1. /\ events # <<>> /\ events' = Tail(events) /\ UNCHANGED <<dcbaa, hc_slots>>
        /\ phase[out_port[s]] = "InitializingDevice"
        /\ \/ /\ phase' = [phase EXCEPT ![out_port[s]] = "ConfiguringEndpoints"]
              /\ Send("ConfigureEndpoint", s)
           \/ UNCHANGED <<phase, cmds>>
    BY <1>8 DEF OnConfigurationSet, Handling, Return, hc
  <2>2. CASE UNCHANGED <<phase, cmds>>
    BY <1>a, <2>1, <2>2 DEF Asked
  <2>3. CASE /\ phase' = [phase EXCEPT ![out_port[s]] = "ConfiguringEndpoints"]
             /\ Send("ConfigureEndpoint", s)
    <3>1. Asked' = Asked
      BY <1>0, <2>1, <2>3, AskedKept DEF PastLock
    <3>2. Range(cmds') = Range(cmds) \cup {[type |-> "ConfigureEndpoint", slot |-> s]}
      BY <2>3, SentRange DEF Locked
    <3> QED
      BY <1>r, <2>1, <3>1, <3>2, SlotsKept
  <2> QED
    BY <2>1, <2>2, <2>3
<1>9. ASSUME NEW s \in Slot, OnEndpointsConfigured(s) PROVE SlotInv'
  <2>1. /\ events # <<>> /\ events' = Tail(events) /\ UNCHANGED <<cmds, dcbaa, hc_slots>>
        /\ phase[out_port[s]] = "ConfiguringEndpoints"
        /\ phase' = [phase EXCEPT ![out_port[s]] = "Configured"]
    BY <1>9 DEF OnEndpointsConfigured, Handling, Return, devmgr, hc
  <2>2. Asked' = Asked
    BY <1>0, <2>1, AskedKept DEF PastLock
  <2> QED
    BY <1>a, <2>1, <2>2
<1>10. CASE RefuseEvent
  <2>1. events # <<>> /\ events' = Tail(events) /\ UNCHANGED <<phase, cmds, dcbaa, hc_slots>>
    BY <1>10 DEF RefuseEvent, Handling, Return, driver, devmgr, hc
  <2> QED
    BY <1>a, <2>1 DEF Asked
<1>11. CASE ResetDone
  <2>1. UNCHANGED <<cmds, dcbaa, hc_slots>>
    BY <1>11 DEF ResetDone
  <2>2. events' = events \/ (events # <<>> /\ events' = Tail(events))
    <3>1. CASE scan > MaxPorts /\ events' = Tail(events)
      BY <1>11, <3>1 DEF ResetDone, Locked, EventKept
    <3> QED
      BY <1>11, <3>1 DEF ResetDone, Return
  <2>3. Asked' = Asked
    <3>1. ASSUME NEW c \in cont, InitializeDevice(c.port, c.slot) PROVE Asked' = Asked
      <4>1. /\ c.port \in PortId /\ phase[c.port] = "AddressingDevice"
            /\ phase' = [phase EXCEPT ![c.port] = "InitializingDevice"]
        BY <3>1 DEF InitializeDevice, Locked, OneCall, TypeOK
      <4> QED
        BY <4>1, AskedKept DEF PastLock
    <3>2. CASE UNCHANGED phase
      BY <3>2 DEF Asked
    <3> QED
      BY <1>11, <3>1, <3>2 DEF ResetDone
  <2> QED
    BY <1>a, <2>1, <2>2, <2>3
\* The controller writes an event that is no Enable Slot completion.
<1>b. ASSUME NEW e \in Event, e.type # "EnableSlot",
             events' = events \/ events' = Append(events, e),
             cmds' = cmds \/ (cmds # <<>> /\ cmds' = Tail(cmds)),
             UNCHANGED <<phase, dcbaa, hc_slots>>
      PROVE  SlotInv'
  <2>1. Range(events') \subseteq Range(events) \cup {e}
    <3>1. Range(Append(events, e)) = Range(events) \cup {e}
      BY <1>0, RangeOfAppend
    <3> QED
      BY <1>b, <3>1
  <2>2. Range(cmds') \subseteq Range(cmds)
    BY <1>0, <1>b, RangeOfTail
  <2> QED
    BY <1>b, <2>1, <2>2, SlotsKept DEF Asked
<1>12. ASSUME NEW p \in Port, Connect(p) \/ FinishReset(p) \/ Unplug(p) PROVE SlotInv'
  <2> DEFINE e == [type |-> "PortStatusChange", port |-> p]
  <2>1. e \in Event /\ e.type # "EnableSlot"
    BY DEF Event
  <2>2. events' = events \/ events' = Append(events, e)
    BY <1>12, Zenon DEF Connect, FinishReset, Unplug, Announce
  <2>3. UNCHANGED <<phase, dcbaa, hc_slots, cmds>>
    BY <1>12 DEF Connect, FinishReset, Unplug, driver, devmgr, hc
  <2> HIDE DEF e
  <2> QED
    BY <1>b, <2>1, <2>2, <2>3
<1>13. CASE ExecEnableSlot
  <2>1. /\ cmds # <<>> /\ Head(cmds) = [type |-> "EnableSlot", slot |-> 0]
        /\ UNCHANGED <<phase, dcbaa>>
    BY <1>13 DEF ExecEnableSlot, Executing, driver, devmgr
  <2>2. Head(cmds) \in Range(cmds)
    BY <1>0, <2>1, RangeOfTail
  <2>3. PICK s \in Slot \ (hc_slots \cup {0}) :
          hc_slots' = hc_slots \cup {s} /\ Complete("EnableSlot", s)
    <3>1. ~MayFail /\ ~(Slot \subseteq hc_slots \cup {0})
      BY <2>1, <2>2, FreeSlot DEF Faultless
    <3> QED
      BY <1>13, <3>1 DEF ExecEnableSlot
  <2>4. /\ Range(cmds') \subseteq Range(cmds)
        /\ \A c \in Range(cmds') : ~Clash(Head(cmds), c)
        /\ Range(events') = Range(events) \cup {[type |-> "EnableSlot", slot |-> s]}
    BY <2>1, <2>3, ExecutedMessages
  <2>5. \A c \in Range(cmds') : c.type # "EnableSlot"
    BY <2>1, <2>4 DEF Clash
  <2>6. Cardinality(hc_slots') <= Cardinality(Asked) /\ Asked' = Asked
    <3>1. Cardinality(hc_slots) < Cardinality(Asked)
      BY <2>1, <2>2 DEF SlotInv, SlotsLeft
    <3>2. Cardinality(hc_slots') = Cardinality(hc_slots) + 1
      BY <2>3, FiniteCounts, FS_AddElement DEF Locked
    <3> QED
      BY <2>1, <3>1, <3>2, FiniteCounts DEF Locked, Asked
  <2> QED
    BY <2>1, <2>3, <2>4, <2>5, <2>6 DEF SlotInv, SlotsLeft, SlotsGranted
<1>14. ASSUME NEW s \in Slot, ExecAddressDevice(s) PROVE SlotInv'
  <2>1. /\ [type |-> "AddressDevice", slot |-> s] \in Event
        /\ events' = Append(events, [type |-> "AddressDevice", slot |-> s])
        /\ cmds # <<>> /\ cmds' = Tail(cmds) /\ UNCHANGED <<phase, dcbaa, hc_slots>>
    BY <1>14 DEF ExecAddressDevice, Executing, Complete, driver, devmgr, Event, Command
  <2> QED
    BY <1>b, <2>1
<1>15. ASSUME NEW s \in Slot, ExecConfigureEndpoint(s) PROVE SlotInv'
  <2>1. /\ [type |-> "ConfigureEndpoint", slot |-> s] \in Event
        /\ events' = Append(events, [type |-> "ConfigureEndpoint", slot |-> s])
        /\ cmds # <<>> /\ cmds' = Tail(cmds) /\ UNCHANGED <<phase, dcbaa, hc_slots>>
    BY <1>15 DEF ExecConfigureEndpoint, Executing, Complete, driver, devmgr, hc, Event, Command
  <2> QED
    BY <1>b, <2>1
<1>16. ASSUME NEW s \in Slot, CompleteTransfer(s) PROVE SlotInv'
  <2> PICK ok \in BOOLEAN :
        events' = Append(events, [type |-> "Transfer", slot |-> s, ok |-> ok])
    BY <1>16 DEF CompleteTransfer
  <2>1. [type |-> "Transfer", slot |-> s, ok |-> ok] \in Event
    BY DEF Event
  <2>2. UNCHANGED <<phase, dcbaa, hc_slots, cmds>>
    BY <1>16 DEF CompleteTransfer, driver, devmgr
  <2> QED
    BY <1>b, <2>1, <2>2
<1>17. CASE UNCHANGED vars
  BY <1>17, <1>a DEF vars, driver, devmgr, hc, Asked
<1> QED
  BY <1>1, <1>2, <1>3, <1>4, <1>5, <1>6, <1>7, <1>8, <1>9, <1>10, <1>11, <1>12, <1>13,
     <1>14, <1>15, <1>16, <1>17 DEF Next, Driver, Hardware, Execute

(* If no command fails and there are slots for all ports, DCBAA[0] keeps   *)
(* pointing to the scratchpad buffers, and an Address Device command in    *)
(* the ring finds the context of its device (xhci.cpp:131-164 and 367).    *)
THEOREM ContextAlwaysReady == ASSUME Faultless PROVE Spec => []ContextReady
<1>1. ASSUME Locked, MessageInv, SlotInv PROVE ContextReady
  <2>1. \A i \in DOMAIN cmds : cmds[i] \in Range(cmds)
    BY DEF Range
  <2> QED
    BY <1>1, <2>1 DEF ContextReady, SlotInv, SlotsGranted, MessageInv, UnderWay, Sent
<1> QED
  BY <1>1, LockedInit, LockedStep, MessageInit, MessageStep, SlotInit, SlotStep, PTL DEF Spec

-----------------------------------------------------------------------------
(* As long as nobody is unplugged either, commands and transfers succeed.  *)

Undisturbed ==
  unplugs = 0 =>
    /\ phase[addressing_port] \in {"EnablingSlot", "AddressingDevice"} =>
         portsc[addressing_port].ped
    /\ \A s \in Slot : out_port[s] # 0 => portsc[out_port[s]].addr
    /\ \A e \in Range(events) :
         /\ e.type = "AddressDevice" /\ cont = {} =>
              e.slot \in devices /\ out_port[e.slot] = addressing_port
         /\ e.type = "Transfer" => e.ok

\* A port takes the lock: no Address Device is answered, unless to the caller.
LEMMA TakeLockUndisturbed ==
  ASSUME Locked, MessageInv, Undisturbed, NEW p \in Port, TakeLock(p), spin = 0,
         UNCHANGED <<out_port, unplugs, events>>, phase[p] \notin PastLock,
         addressing_port = 0 \/ cont' # {}
  PROVE  Undisturbed'
<1>0. /\ phase \in [PortId -> ConfigPhase] /\ p \in PortId /\ addressing_port \in PortId
      /\ phase' = [phase EXCEPT ![p] = "ResettingPort"] /\ addressing_port' = p
  BY PortsAreIds DEF TakeLock, Locked, TypeOK
<1>1. \A e \in Range(events) : ~(e.type = "AddressDevice" /\ cont' = {})
  <2>1. CASE cont' # {}
    BY <2>1
  <2>2. CASE addressing_port = 0
    BY <2>2, NobodyResumes, PortsAreIds
       DEF Locked, MessageInv, UnderWay, Answered, AddressingPhase
  <2> QED
    BY <2>1, <2>2
<1>2. \A s \in Slot : out_port[s] # 0 => out_port[s] # p /\ out_port[s] \in Port
  BY PortConfigAssumption DEF MessageInv, SlotsInUse, Locked, TypeOK, Port, PortId
<1>3. \A q \in Port : q # p => portsc'[q] = portsc[q]
  BY TakeLockFields DEF Locked
<1> QED
  BY <1>0, <1>1, <1>2, <1>3 DEF Undisturbed

\* An event is handled, or the next port goes on.
LEMMA ReturnUndisturbed ==
  ASSUME Locked, MessageInv, Undisturbed,
         UNCHANGED <<out_port, unplugs, portsc, addressing_port, cont>>,
         events' = events \/ (events # <<>> /\ events' = Tail(events)),
         devices \subseteq devices',
         \/ phase' = phase
         \/ \E p \in PortId, ph \in ConfigPhase :
              /\ phase' = [phase EXCEPT ![p] = ph]
              /\ ph \notin {"EnablingSlot", "AddressingDevice"} \/ phase[p] = "EnablingSlot"
  PROVE  Undisturbed'
<1>1. Range(events') \subseteq Range(events)
  BY RangeOfTail DEF Locked, TypeOK
<1>2. phase'[addressing_port] \in {"EnablingSlot", "AddressingDevice"} =>
        phase[addressing_port] \in {"EnablingSlot", "AddressingDevice"}
  BY DEF Locked, TypeOK
<1> QED
  BY <1>1, <1>2 DEF Undisturbed

\* InitializeDevice: the completion of Address Device is handled.
LEMMA InitializeUndisturbed ==
  ASSUME Locked, MessageInv, Undisturbed, NEW p \in PortId, p # 0, NEW s \in Slot,
         UNCHANGED <<out_port, unplugs, portsc, devices>>,
         phase' = [phase EXCEPT ![p] = "InitializingDevice"],
         events # <<>>, events' = Tail(events), Head(events).type = "AddressDevice",
         addressing_port' = addressing_port \/ addressing_port' = 0, cont' = {},
         phase[0] \notin AddressingPhase
  PROVE  Undisturbed'
<1>1. Range(events') \subseteq Range(events)
  BY RangeOfTail DEF Locked, TypeOK
<1>2. \A e \in Range(events') : e.type # "AddressDevice"
  BY HeadAlone DEF Locked, MessageInv, Clash
<1>3. phase'[addressing_port'] \in {"EnablingSlot", "AddressingDevice"} =>
        /\ phase[addressing_port] \in {"EnablingSlot", "AddressingDevice"}
        /\ addressing_port' = addressing_port
  BY PortsAreIds DEF Locked, TypeOK, AddressingPhase
<1> QED
  BY <1>1, <1>2, <1>3 DEF Undisturbed

\* An event is written that no failure caused.
LEMMA EventUndisturbed ==
  ASSUME Locked, MessageInv, Undisturbed,
         UNCHANGED <<out_port, unplugs, phase, addressing_port, cont, devices>>,
         \A q \in Port : portsc'[q].ped = portsc[q].ped /\ portsc'[q].addr = portsc[q].addr,
         NEW e \in Event, e.type # "AddressDevice", unplugs = 0 /\ e.type = "Transfer" => e.ok,
         events' = events \/ events' = Append(events, e)
  PROVE  Undisturbed'
<1>1. Range(events') \subseteq Range(events) \cup {e}
  <2>1. Range(Append(events, e)) = Range(events) \cup {e}
    BY RangeOfAppend DEF Locked, TypeOK
  <2> QED
    BY <2>1
<1>2. /\ phase[addressing_port] \in {"EnablingSlot", "AddressingDevice"} => addressing_port \in Port
      /\ \A s \in Slot : out_port[s] # 0 => out_port[s] \in Port
  BY LockOfCommand, PortConfigAssumption DEF Locked, TypeOK, Port, PortId
<1> QED
  BY <1>1, <1>2 DEF Undisturbed

LEMMA UndisturbedStep ==
  ASSUME Faultless
  PROVE  Locked /\ MessageInv /\ AddressInv /\ SlotInv /\ Undisturbed /\ [Next]_vars
         => Undisturbed'
<1> SUFFICES ASSUME Locked, MessageInv, AddressInv, SlotInv, Undisturbed, [Next]_vars
             PROVE  Undisturbed'
  OBVIOUS
<1>0. /\ phase \in [PortId -> ConfigPhase] /\ addressing_port \in PortId
      /\ out_port \in [Slot -> PortId] /\ unplugs \in Nat /\ cont \subseteq [port : PortId, slot : Slot]
      /\ Port \subseteq PortId /\ 0 \in PortId
  BY PortsAreIds, PortConfigAssumption DEF Locked, TypeOK
<1>a. ASSUME NEW p \in Port, phase[p] = "NotConnected", spin = 0, ResetPort(p),
             UNCHANGED <<cont, devices, out_port, unplugs>>,
             \/ events' = events
             \/ events # <<>> /\ events' = Tail(events) /\ spin' = 0
      PROVE  Undisturbed'
  <2>1. p \in PortId
    BY <1>0
  <2>2. CASE \/ UNCHANGED <<phase, addressing_port, portsc, spin>>
             \/ /\ phase' = [phase EXCEPT ![p] = "WaitingAddressed"]
                /\ UNCHANGED <<addressing_port, portsc, spin>>
    <3>1. phase' = phase \/ phase' = [phase EXCEPT ![p] = "WaitingAddressed"]
      BY <2>2
    <3>2. UNCHANGED <<addressing_port, portsc>> /\ devices \subseteq devices'
      BY <1>a, <2>2
    <3>3. events' = events \/ (events # <<>> /\ events' = Tail(events))
      BY <1>a
    <3> QED
      BY <1>a, <2>1, <3>1, <3>2, <3>3, ReturnUndisturbed DEF ConfigPhase
  <2>3. CASE addressing_port = 0 /\ TakeLock(p)
    <3>1. spin' # 0 /\ events' = events
      BY <1>a, <2>3, PortConfigAssumption DEF TakeLock, Port
    <3> QED
      BY <1>a, <2>3, <3>1, TakeLockUndisturbed DEF PastLock
  <2> QED
    BY <1>a, <2>2, <2>3 DEF ResetPort
<1>1. CASE ScanPort
  <2>1. scan \in Port
    BY <1>1, PortConfigAssumption DEF ScanPort, Locked, TypeOK, Port
  <2> QED
    BY <1>1, <1>a, <2>1 DEF ScanPort, devmgr, hc
<1>2. ASSUME NEW p \in Port, OnPortConnected(p) PROVE Undisturbed'
  BY <1>2, <1>a DEF OnPortConnected, Handling, devmgr, hc
<1>3. ASSUME NEW p \in Port, OnPortReset(p) PROVE Undisturbed'
  <2>1. /\ phase[p] = "ResettingPort" /\ phase' = [phase EXCEPT ![p] = "EnablingSlot"]
        /\ events # <<>> /\ events' = Tail(events) /\ spin = 0 /\ portsc[p].ped
        /\ UNCHANGED <<addressing_port, cont, devices, out_port, unplugs>>
    BY <1>3 DEF OnPortReset, Handling, Return, devmgr, hc
  <2>2. addressing_port = p
    BY <1>0, <2>1, NobodyResumes DEF Locked, AddressingPhase
  <2>3. \A q \in Port : portsc'[q].ped = portsc[q].ped /\ portsc'[q].addr = portsc[q].addr
    BY <1>3, HandledFields DEF Locked
  <2>4. Range(events') \subseteq Range(events)
    BY <2>1, RangeOfTail DEF Locked, TypeOK
  <2>5. \A s \in Slot : out_port[s] # 0 => out_port[s] \in Port
    BY <1>0, PortConfigAssumption DEF Port, PortId
  <2> QED
    BY <2>1, <2>2, <2>3, <2>4, <2>5 DEF Undisturbed
<1>4. ASSUME NEW s \in Slot, OnSlotEnabled(s) PROVE Undisturbed'
  <2>1. /\ phase[addressing_port] = "EnablingSlot"
        /\ phase' = [phase EXCEPT ![addressing_port] = "AddressingDevice"]
        /\ events # <<>> /\ events' = Tail(events) /\ devices \subseteq devices'
        /\ UNCHANGED <<addressing_port, cont, portsc, out_port, unplugs>>
    BY <1>4 DEF OnSlotEnabled, Handling, AllocDevice, LoadDCBAA, Return, hc
  <2> QED
    BY <1>0, <2>1, ReturnUndisturbed DEF ConfigPhase
<1>5. ASSUME NEW s \in Slot, OnAddressedLast(s) PROVE Undisturbed'
  <2>1. /\ events # <<>> /\ events' = Tail(events) /\ Head(events).type = "AddressDevice"
        /\ phase[addressing_port] = "AddressingDevice" /\ spin = 0
        /\ phase' = [phase EXCEPT ![addressing_port] = "InitializingDevice"]
        /\ addressing_port' = 0 /\ UNCHANGED <<out_port, unplugs, portsc, devices, cont>>
    BY <1>5 DEF OnAddressedLast, AddressDone, Handling, InitializeDevice, Return
  <2>2. cont = {} /\ phase[0] \notin AddressingPhase /\ addressing_port # 0
    BY <1>0, <2>1, NobodyResumes DEF Locked, AddressingPhase
  <2> QED
    BY <1>0, <2>1, <2>2, InitializeUndisturbed
<1>6. ASSUME NEW s \in Slot, OnAddressedNext(s) PROVE Undisturbed'
  <2> PICK q \in Port : FirstWaiting(q) /\ TakeLock(q)
    BY <1>6 DEF OnAddressedNext
  <2>1. /\ spin = 0 /\ UNCHANGED <<out_port, unplugs, events>> /\ cont' # {}
        /\ phase[q] \notin PastLock
    BY <1>6 DEF OnAddressedNext, AddressDone, Handling, FirstWaiting, Waiting, PastLock, hc
  <2> QED
    BY <2>1, TakeLockUndisturbed
<1>7. ASSUME NEW s \in Slot, OnDescriptor(s) PROVE Undisturbed'
  <2>1. /\ events # <<>> /\ events' = Tail(events) /\ devices \subseteq devices'
        /\ UNCHANGED <<phase, addressing_port, cont, portsc, out_port, unplugs>>
    BY <1>7 DEF OnDescriptor, Handling, Return, driver
  <2> QED
    BY <1>0, <2>1, ReturnUndisturbed DEF ConfigPhase
<1>8. ASSUME NEW s \in Slot, OnConfigurationSet(s) PROVE Undisturbed'
  <2>1. /\ events # <<>> /\ events' = Tail(events) /\ devices \subseteq devices'
        /\ UNCHANGED <<addressing_port, cont, portsc, out_port, unplugs>>
        /\ phase' = phase \/ phase' = [phase EXCEPT ![out_port[s]] = "ConfiguringEndpoints"]
    BY <1>8 DEF OnConfigurationSet, Handling, Return, hc
  <2> QED
    BY <1>0, <2>1, ReturnUndisturbed DEF ConfigPhase
<1>9. ASSUME NEW s \in Slot, OnEndpointsConfigured(s) PROVE Undisturbed'
  <2>1. /\ events # <<>> /\ events' = Tail(events) /\ devices \subseteq devices'
        /\ UNCHANGED <<addressing_port, cont, portsc, out_port, unplugs>>
        /\ phase' = [phase EXCEPT ![out_port[s]] = "Configured"]
    BY <1>9 DEF OnEndpointsConfigured, Handling, Return, devmgr, hc
  <2> QED
    BY <1>0, <2>1, ReturnUndisturbed DEF ConfigPhase
<1>10. CASE RefuseEvent
  <2>1. /\ events # <<>> /\ events' = Tail(events) /\ devices \subseteq devices'
        /\ UNCHANGED <<phase, addressing_port, cont, portsc, out_port, unplugs>>
    BY <1>10 DEF RefuseEvent, Handling, Return, driver, devmgr, hc
  <2> QED
    BY <1>0, <2>1, ReturnUndisturbed DEF ConfigPhase
<1>11. CASE ResetDone
  <2>0. UNCHANGED <<out_port, unplugs, portsc, addressing_port, devices>>
    BY <1>11 DEF ResetDone
  <2>1. CASE cont = {}
    <3>1. phase' = phase /\ cont' = cont /\ devices \subseteq devices'
      BY <1>11, <2>0, <2>1 DEF ResetDone
    <3>2. events' = events \/ (events # <<>> /\ events' = Tail(events))
      <4>1. CASE scan > MaxPorts /\ events' = Tail(events)
        BY <1>11, <4>1 DEF ResetDone, Locked, EventKept
      <4> QED
        BY <1>11, <4>1 DEF ResetDone, Return
    <3> QED
      BY <1>0, <2>0, <3>1, <3>2, ReturnUndisturbed DEF ConfigPhase
  <2>2. CASE cont # {}
    <3>1. ~(scan <= MaxPorts) /\ cont # {}
      BY <2>2, PortConfigAssumption DEF Locked, OneCall, TypeOK
    <3> PICK c \in cont : InitializeDevice(c.port, c.slot)
      BY <1>11, <3>1 DEF ResetDone
    <3>2. /\ c.port \in PortId /\ c.slot \in Slot /\ c.port # 0
          /\ phase' = [phase EXCEPT ![c.port] = "InitializingDevice"]
          /\ events # <<>> /\ Head(events).type = "AddressDevice"
      BY <1>0 DEF InitializeDevice, MessageInv, SlotsInUse
    <3>3. cont' = {} /\ events' = Tail(events)
      BY <1>11, <3>1 DEF ResetDone, Return
    <3>4. phase[0] \notin AddressingPhase
      <4>1. 0 \notin Resuming
        BY DEF Resuming, MessageInv, SlotsInUse
      <4> QED
        BY <1>0, <4>1 DEF Locked, AddressingExclusive
    <3> QED
      BY <2>0, <3>2, <3>3, <3>4, InitializeUndisturbed
  <2> QED
    BY <2>1, <2>2
<1>12. ASSUME NEW p \in Port, Connect(p) PROVE Undisturbed'
  <2> DEFINE e == [type |-> "PortStatusChange", port |-> p]
  <2>1. e \in Event /\ e.type = "PortStatusChange"
    BY DEF Event
  <2>2. events' = events \/ events' = Append(events, e)
    BY <1>12, Zenon DEF Connect, Announce
  <2>3. /\ UNCHANGED <<out_port, unplugs, phase, addressing_port, cont, devices>>
        /\ \A q \in Port : portsc'[q].ped = portsc[q].ped /\ portsc'[q].addr = portsc[q].addr
    BY <1>12, ConnectFields DEF Connect, driver, devmgr, hc, Locked
  <2> HIDE DEF e
  <2> QED
    BY <2>1, <2>2, <2>3, EventUndisturbed
<1>13. ASSUME NEW p \in Port, Unplug(p) PROVE Undisturbed'
  <2>1. unplugs' # 0
    BY <1>0, <1>13 DEF Unplug
  <2> QED
    BY <2>1 DEF Undisturbed
<1>14. ASSUME NEW p \in Port, FinishReset(p) PROVE Undisturbed'
  <2> DEFINE e == [type |-> "PortStatusChange", port |-> p]
  <2>1. e \in Event /\ e.type = "PortStatusChange"
    BY DEF Event
  <2>2. events' = events \/ events' = Append(events, e)
    BY <1>14, Zenon DEF FinishReset, Announce
  <2>3. Range(events') \subseteq Range(events) \cup {e}
    <3>1. Range(Append(events, e)) = Range(events) \cup {e}
      BY <2>1, RangeOfAppend DEF Locked, TypeOK
    <3> QED
      BY <2>2, <3>1
  <2>4. /\ \A q \in Port : q # p => portsc'[q] = portsc[q]
        /\ UNCHANGED <<out_port, unplugs, phase, addressing_port, cont, devices>>
        /\ portsc[p].pr
    BY <1>14, FinishResetFields DEF FinishReset, driver, devmgr, hc, Locked
  <2>5. p = addressing_port /\ phase[p] = "ResettingPort"
    BY <2>4, PortConfigAssumption
       DEF AddressInv, PortsInReset, Locked, AddressingExclusive, Port
  <2>6. \A s \in Slot : out_port[s] # 0 => out_port[s] # p /\ out_port[s] \in Port
    BY <1>0, <2>5, PortConfigAssumption DEF MessageInv, SlotsInUse, PastLock, Port, PortId
  <2> HIDE DEF e
  <2> QED
    BY <2>1, <2>3, <2>4, <2>5, <2>6 DEF Undisturbed
<1>15. CASE ExecEnableSlot
  <2> PICK s \in Slot : Complete("EnableSlot", s)
    BY <1>15, <1>0, PortsAreIds DEF ExecEnableSlot
  <2> DEFINE e == [type |-> "EnableSlot", slot |-> s]
  <2>1. e \in Event /\ e.type = "EnableSlot" /\ events' = Append(events, e)
    BY DEF Event, Command, Complete
  <2>2. UNCHANGED <<out_port, unplugs, phase, addressing_port, cont, devices, portsc>>
    BY <1>15 DEF ExecEnableSlot, driver, devmgr
  <2> HIDE DEF e
  <2> QED
    BY <2>1, <2>2, EventUndisturbed
<1>16. ASSUME NEW s \in Slot, ExecAddressDevice(s) PROVE Undisturbed'
  <2> DEFINE e == [type |-> "AddressDevice", slot |-> s]
  <2>1. /\ cmds # <<>> /\ Head(cmds) = e /\ Complete("AddressDevice", s)
        /\ UNCHANGED <<phase, addressing_port, cont, devices, unplugs>>
    BY <1>16 DEF ExecAddressDevice, Executing, driver, devmgr
  <2>2. /\ Range(events') = Range(events) \cup {e}
        /\ \A x \in Range(events) : x.type # "AddressDevice"
    BY <2>1, ExecutedMessages DEF Clash
  <2>3. /\ addressing_port \in Port /\ s \in devices
        /\ phase[addressing_port] = "AddressingDevice"
    BY <1>16, AddressDeviceFields
  <2>4. s \in hc_slots
    <3>1. Head(cmds) \in Range(cmds)
      BY <2>1, RangeOfTail DEF Locked, TypeOK
    <3> QED
      BY <2>1, <3>1 DEF SlotInv, SlotsGranted
  <2>5. ASSUME unplugs = 0
        PROVE  /\ portsc[addressing_port].ped
               /\ out_port' = [out_port EXCEPT ![s] = addressing_port]
               /\ \A q \in Port : /\ portsc'[q].ped = portsc[q].ped
                                  /\ portsc'[q].addr = IF q = addressing_port THEN TRUE
                                                       ELSE portsc[q].addr
    BY <1>16, <2>3, <2>4, <2>5, AddressDeviceFields DEF Undisturbed, Faultless
  <2>6. \A t \in Slot : out_port[t] # 0 => out_port[t] \in Port
    BY <1>0, PortConfigAssumption DEF Port, PortId
  <2>7. ASSUME unplugs = 0, NEW t \in Slot, out_port'[t] # 0 PROVE portsc'[out_port'[t]].addr
    <3>1. CASE t = s
      BY <1>0, <2>3, <2>5, <2>7, <3>1
    <3>2. CASE t # s
      <4>1. out_port'[t] = out_port[t]
        BY <1>0, <2>5, <2>7, <3>2
      <4> QED
        BY <2>5, <2>6, <2>7, <4>1 DEF Undisturbed
    <3> QED
      BY <3>1, <3>2
  <2>8. ASSUME unplugs = 0 PROVE s \in devices' /\ out_port'[s] = addressing_port'
    BY <1>0, <2>1, <2>3, <2>5, <2>8
  <2>9. ASSUME unplugs = 0, NEW x \in Range(events')
        PROVE  /\ x.type = "AddressDevice" =>
                    x.slot \in devices' /\ out_port'[x.slot] = addressing_port'
               /\ x.type = "Transfer" => x.ok
    <3>1. CASE x = e
      BY <2>8, <2>9, <3>1
    <3>2. CASE x \in Range(events)
      BY <2>2, <2>9, <3>2 DEF Undisturbed
    <3> QED
      BY <2>2, <2>9, <3>1, <3>2
  <2>10. unplugs = 0 => portsc'[addressing_port'].ped
    BY <2>1, <2>3, <2>5
  <2> QED
    BY <2>1, <2>7, <2>9, <2>10 DEF Undisturbed
<1>17. ASSUME NEW s \in Slot, ExecConfigureEndpoint(s) PROVE Undisturbed'
  <2> DEFINE e == [type |-> "ConfigureEndpoint", slot |-> s]
  <2>1. e \in Event /\ e.type = "ConfigureEndpoint" /\ events' = Append(events, e)
    BY <1>17 DEF ExecConfigureEndpoint, Complete, Event, Command
  <2>2. UNCHANGED <<out_port, unplugs, phase, addressing_port, cont, devices, portsc>>
    BY <1>17 DEF ExecConfigureEndpoint, driver, devmgr, hc
  <2> HIDE DEF e
  <2> QED
    BY <2>1, <2>2, EventUndisturbed
<1>18. ASSUME NEW s \in Slot, CompleteTransfer(s) PROVE Undisturbed'
  <2> PICK ok \in BOOLEAN :
        /\ ~ok => MayFail \/ ~portsc[out_port[s]].addr
        /\ events' = Append(events, [type |-> "Transfer", slot |-> s, ok |-> ok])
    BY <1>18 DEF CompleteTransfer
  <2> DEFINE e == [type |-> "Transfer", slot |-> s, ok |-> ok]
  <2>1. e \in Event /\ e.type = "Transfer" /\ e.ok = ok /\ events' = Append(events, e)
    BY DEF Event
  <2>2. UNCHANGED <<out_port, unplugs, phase, addressing_port, cont, devices, portsc>>
    BY <1>18 DEF CompleteTransfer, driver, devmgr
  <2>3. unplugs = 0 => ok
    <3>1. out_port[s] # 0
      BY <1>18 DEF CompleteTransfer, MessageInv, SlotsInUse
    <3> QED
      BY <3>1 DEF Undisturbed, Faultless
  <2> HIDE DEF e
  <2> QED
    BY <2>1, <2>2, <2>3, EventUndisturbed
<1>19. CASE UNCHANGED vars
  BY <1>19 DEF vars, driver, devmgr, hc, Undisturbed
<1> QED
  BY <1>1, <1>2, <1>3, <1>4, <1>5, <1>6, <1>7, <1>8, <1>9, <1>10, <1>11, <1>12, <1>13,
     <1>14, <1>15, <1>16, <1>17, <1>18, <1>19 DEF Next, Driver, Hardware, Execute

(* As long as nothing fails, nothing is unplugged and there are slots for  *)
(* all ports, no completion of a command or transfer arrives in a phase    *)
(* that refuses it, however many ports come up at once (OnEvent).          *)
THEOREM CompletionsAlwaysAccepted ==
  ASSUME Faultless PROVE Spec => []CompletionsAccepted
<1>1. ASSUME Locked, MessageInv, Undisturbed PROVE CompletionsAccepted
  <2> SUFFICES ASSUME unplugs = 0, NEW e \in Event, Handling(e),
                      e.type # "PortStatusChange"
               PROVE  ~Refused(e)
    BY DEF CompletionsAccepted
  <2>1. e \in Range(events)
    BY <1>1, RangeOfTail DEF Handling, Locked, TypeOK
  <2>2. cont = {}
    BY <1>1, NobodyResumes DEF Handling, Locked
  <2> QED
    BY <1>1, <2>1, <2>2 DEF Refused, MessageInv, UnderWay, Answered, Undisturbed
<1>2. Init => Undisturbed
  <2> SUFFICES ASSUME Init PROVE Undisturbed
    OBVIOUS
  <2>1. Range(events) = {} /\ phase[0] = "NotConnected"
    BY PortsAreIds DEF Init, Range
  <2> QED
    BY <2>1 DEF Init, Undisturbed
<1>3. ~MayFail
  BY DEF Faultless
<1> QED
  BY <1>1, <1>2, <1>3, LockedInit, LockedStep, MessageInit, MessageStep, AddressInit, AddressStep,
     SlotInit, SlotStep, UndisturbedStep, PTL DEF Spec
=============================================================================
