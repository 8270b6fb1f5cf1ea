----------------------------- MODULE PortConfig -----------------------------
(***************************************************************************)
(* How the driver brings a device on a root hub port from "connected" to   *)
(* "configured": the event handlers of kernel/usb/xhci/xhci.cpp, the port  *)
(* scan of KernelMainNewStack, the device table of devmgr.cpp and the      *)
(* standard part of the device initialisation of kernel/usb/device.cpp.    *)
(*                                                                         *)
(* The driver is one thread.  It handles the events of the event ring in   *)
(* order, one handler at a time; a handler that resets a port spins until  *)
(* the controller has cleared PORTSC.PR, and the controller goes on        *)
(* meanwhile.  The controller, the ports and the devices are external.     *)
(* The ports are USB2 ports: reset is what enables them.                   *)
(***************************************************************************)
EXTENDS Naturals, Sequences, FiniteSets

CONSTANTS
  MaxPorts,      \* root hub ports
  MaxSlots,      \* kDeviceSize, written to CONFIG.MaxSlotsEn
  MaxUnplugs,    \* bound: devices unplugged in a behaviour
  UnplugPhases,  \* phases of a port in which its device may be unplugged
  MayFail,       \* may a command or a transfer to a present device fail?
  NoDriverPorts  \* ports whose device has no class driver

Port   == 1 .. MaxPorts
PortId == 0 .. MaxPorts
Slot   == 0 .. MaxSlots

ConfigPhase == {"NotConnected", "WaitingAddressed", "ResettingPort",
                "EnablingSlot", "AddressingDevice", "InitializingDevice",
                "ConfiguringEndpoints", "Configured"}

\* The phases the comment at xhci.cpp:40-42 gives to one port at a time.
AddressingPhase == {"ResettingPort", "EnablingSlot", "AddressingDevice"}

ASSUME PortConfigAssumption ==
  /\ MaxPorts \in Nat \ {0}
  /\ MaxSlots \in Nat
  /\ MaxUnplugs \in Nat
  /\ UnplugPhases \subseteq ConfigPhase
  /\ MayFail \in BOOLEAN
  /\ NoDriverPorts \subseteq Port

VARIABLES
  phase,             \* port_config_phase, an entry 0 included
  addressing_port,
  scan,              \* i of the port loop of KernelMainNewStack
  spin,              \* the port whose PR Port::Reset is polling, 0 if none
  cont,              \* {the call of InitializeDevice that follows the spin}
  portsc,            \* the PORTSC register of each port
  devices,           \* slots with an entry in DeviceManager::devices_
  dcbaa,             \* DeviceManager::device_context_pointers_
  in_port,           \* root_hub_port_num of the input context of a slot
  out_port,          \* ... and of the device context the controller wrote
  initialize_phase,  \* Device::initialize_phase_ of a slot
  transfers,         \* slots with a control transfer on EP0
  hc_slots,          \* slots the controller has enabled
  cmds,              \* commands the controller has not executed
  events,            \* the primary event ring
  unplugs            \* counts to MaxUnplugs

driver   == <<phase, addressing_port, scan, spin, cont>>
devmgr   == <<devices, dcbaa, in_port, initialize_phase>>
hc       == <<out_port, transfers, hc_slots, unplugs>>
vars     == <<driver, portsc, devmgr, hc, cmds, events>>

-----------------------------------------------------------------------------
Command == [type : {"EnableSlot", "AddressDevice", "ConfigureEndpoint"},
            slot : Slot]

Event == [type : {"PortStatusChange"}, port : Port]
         \cup [type : {"Transfer"}, slot : Slot, ok : BOOLEAN]
         \cup Command   \* a command completion names the command and the slot

\* ccs: connected; ped: enabled; pr: reset running; csc, prc: change bits.
\* addr is not in PORTSC: the device at the port has left the default address.
PortSC == [ccs : BOOLEAN, ped : BOOLEAN, pr : BOOLEAN, csc : BOOLEAN,
           prc : BOOLEAN, addr : BOOLEAN]

Init ==
  /\ phase = [p \in PortId |-> "NotConnected"]
  /\ addressing_port = 0
  /\ scan = 1
  /\ spin = 0
  /\ cont = {}
  /\ portsc = [p \in Port |-> [ccs |-> FALSE, ped |-> FALSE, pr |-> FALSE,
                               csc |-> FALSE, prc |-> FALSE, addr |-> FALSE]]
  /\ devices = {}
  /\ dcbaa = [s \in Slot |-> IF s = 0 THEN "scratchpad" ELSE "null"]
  /\ in_port = [s \in Slot |-> 0]
  /\ out_port = [s \in Slot |-> 0]
  /\ initialize_phase = [s \in Slot |-> 0]
  /\ transfers = {}
  /\ hc_slots = {}
  /\ cmds = <<>>
  /\ events = <<>>
  /\ unplugs = 0

Send(type, s) == cmds' = Append(cmds, [type |-> type, slot |-> s])

-----------------------------------------------------------------------------
(* ResetPort.  Its kInvalidPhase exit cannot be taken: its three callers   *)
(* pass a port that is NotConnected or WaitingAddressed.                   *)

\* Port::Reset writes PR and CSC, then polls PR.
TakeLock(p) ==
  /\ portsc[p].ccs
  /\ addressing_port' = p
  /\ phase' = [phase EXCEPT ![p] = "ResettingPort"]
  /\ portsc' = [portsc EXCEPT ![p].pr = TRUE, ![p].ped = FALSE, ![p].csc = FALSE]
  /\ spin' = p

\* A mutated operator: a port that finds the lock taken resets all the same.
ResetPortNoLock(p) ==
  \/ /\ ~portsc[p].ccs
     /\ UNCHANGED <<phase, addressing_port, portsc, spin>>
  \/ TakeLock(p)

ResetPort(p) ==
  \/ /\ ~portsc[p].ccs
     /\ UNCHANGED <<phase, addressing_port, portsc, spin>>
  \/ /\ portsc[p].ccs
     /\ addressing_port # 0
     /\ phase' = [phase EXCEPT ![p] = "WaitingAddressed"]
     /\ UNCHANGED <<addressing_port, portsc, spin>>
  \/ /\ addressing_port = 0
     /\ TakeLock(p)

-----------------------------------------------------------------------------
(* The port loop of KernelMainNewStack; events are handled after it.       *)

ScanPort ==
  /\ scan <= MaxPorts
  /\ spin = 0
  /\ phase[scan] = "NotConnected"   \* ConfigurePort; no event was handled yet
  /\ ResetPort(scan)
  /\ scan' = IF spin' = 0 THEN scan + 1 ELSE scan
  /\ UNCHANGED <<cont, devmgr, hc, cmds, events>>

-----------------------------------------------------------------------------
(* ProcessEvent: one action per outcome of the three OnEvent functions.    *)
(* The event is popped when its handler returns.                           *)

Handling(e) ==
  /\ scan > MaxPorts
  /\ spin = 0
  /\ events # <<>>
  /\ e = Head(events)

Return == events' = Tail(events)

OnPortConnected(p) ==
  /\ Handling([type |-> "PortStatusChange", port |-> p])
  /\ phase[p] = "NotConnected"
  /\ ResetPort(p)
  /\ events' = IF spin' = 0 THEN Tail(events) ELSE events
  /\ UNCHANGED <<scan, cont, devmgr, hc, cmds>>

\* EnableSlot
OnPortReset(p) ==
  /\ Handling([type |-> "PortStatusChange", port |-> p])
  /\ phase[p] = "ResettingPort"
  /\ portsc[p].ped /\ portsc[p].prc
  /\ portsc' = [portsc EXCEPT ![p].prc = FALSE]
  /\ phase' = [phase EXCEPT ![p] = "EnablingSlot"]
  /\ Send("EnableSlot", 0)
  /\ Return
  /\ UNCHANGED <<addressing_port, scan, spin, cont, devmgr, hc>>

(* Mutated operators: the device context is not published, it is published *)
(* in the entry below, the phase is not advanced.                          *)
OnSlotEnabledWith(s, ctx, ph) ==
  /\ Handling([type |-> "EnableSlot", slot |-> s])
  /\ phase[addressing_port] = "EnablingSlot"
  /\ devices' = devices \cup {s}
  /\ in_port' = [in_port EXCEPT ![s] = addressing_port]
  /\ dcbaa' = ctx
  /\ phase' = [phase EXCEPT ![addressing_port] = ph]
  /\ Send("AddressDevice", s)
  /\ Return
  /\ UNCHANGED <<addressing_port, scan, spin, cont, portsc, initialize_phase, hc>>
OnSlotEnabledNoLoad(s) == OnSlotEnabledWith(s, dcbaa, "AddressingDevice")
OnSlotEnabledOffByOne(s) ==
  s # 0 /\ OnSlotEnabledWith(s, [dcbaa EXCEPT ![s - 1] = "context"], "AddressingDevice")
OnSlotEnabledSamePhase(s) ==
  OnSlotEnabledWith(s, [dcbaa EXCEPT ![s] = "context"], "EnablingSlot")

\* A second device for a slot is refused, and the error is not looked at.
AllocDevice(s) == devices' = devices \cup {s}
LoadDCBAA(s)   == dcbaa' = [dcbaa EXCEPT ![s] = "context"]

\* AddressDevice.  The completion code is not looked at.
OnSlotEnabled(s) ==
  /\ Handling([type |-> "EnableSlot", slot |-> s])
  /\ phase[addressing_port] = "EnablingSlot"
  /\ AllocDevice(s)
  /\ in_port' = [in_port EXCEPT ![s] = addressing_port]
  /\ LoadDCBAA(s)
  /\ phase' = [phase EXCEPT ![addressing_port] = "AddressingDevice"]
  /\ Send("AddressDevice", s)
  /\ Return
  /\ UNCHANGED <<addressing_port, scan, spin, cont, portsc, initialize_phase, hc>>

\* InitializeDevice: the first GET_DESCRIPTOR goes out.
InitializeDevice(p, s) ==
  /\ phase' = [phase EXCEPT ![p] = "InitializingDevice"]
  /\ initialize_phase' = [initialize_phase EXCEPT ![s] = 1]
  /\ transfers' = transfers \cup {s}

Waiting == {p \in Port : phase[p] = "WaitingAddressed"}

\* A mutated operator: the loop runs downwards.
LastWaiting(q) == q \in Waiting /\ \A r \in Waiting : q >= r

FirstWaiting(q) == q \in Waiting /\ \A r \in Waiting : q <= r

AddressDone(s) ==
  /\ Handling([type |-> "AddressDevice", slot |-> s])
  /\ s \in devices
  /\ out_port[s] = addressing_port
  /\ phase[addressing_port] = "AddressingDevice"

\* The lock is given up.  The loop over the waiting ports ends after the
\* first of them, whether or not ResetPort did anything for it.
OnAddressedLast(s) ==
  /\ AddressDone(s)
  /\ \A q \in Port : FirstWaiting(q) => ~portsc[q].ccs
  /\ addressing_port' = 0
  /\ InitializeDevice(addressing_port, s)
  /\ Return
  /\ UNCHANGED <<scan, spin, cont, portsc, devices, dcbaa, in_port,
                 out_port, hc_slots, unplugs, cmds>>

\* A mutated operator: the waiting ports are forgotten.
OnAddressedNextForgets(s) ==
  /\ AddressDone(s)
  /\ \E q \in Port : FirstWaiting(q) /\ portsc[q].ccs
  /\ addressing_port' = 0
  /\ InitializeDevice(addressing_port, s)
  /\ Return
  /\ UNCHANGED <<scan, spin, cont, portsc, devices, dcbaa, in_port,
                 out_port, hc_slots, unplugs, cmds>>

\* A waiting port takes the lock over; InitializeDevice comes after its reset.
OnAddressedNext(s) ==
  /\ AddressDone(s)
  /\ \E q \in Port : FirstWaiting(q) /\ TakeLock(q)
  /\ cont' = {[port |-> addressing_port, slot |-> s]}
  /\ UNCHANGED <<scan, devmgr, hc, cmds, events>>

\* Device::OnControlCompleted while the device is not initialised.
OnDescriptor(s) ==
  /\ Handling([type |-> "Transfer", slot |-> s, ok |-> TRUE])
  /\ s \in devices
  /\ \/ /\ initialize_phase[s] = 1    \* device descriptor: InitializePhase1
        /\ initialize_phase' = [initialize_phase EXCEPT ![s] = 2]
        /\ transfers' = transfers \cup {s}
     \/ /\ initialize_phase[s] = 2    \* configuration: InitializePhase2
        /\ out_port[s] \notin NoDriverPorts
        /\ initialize_phase' = [initialize_phase EXCEPT ![s] = 3]
        /\ transfers' = transfers \cup {s}
     \/ /\ initialize_phase[s] = 2    \* ... and no class driver
        /\ out_port[s] \in NoDriverPorts
        /\ UNCHANGED <<initialize_phase, transfers>>
  /\ Return
  /\ UNCHANGED <<driver, portsc, devices, dcbaa, in_port, out_port, hc_slots,
                 unplugs, cmds>>

\* InitializePhase3 (SET_CONFIGURATION is done), then ConfigureEndpoints.
OnConfigurationSet(s) ==
  /\ Handling([type |-> "Transfer", slot |-> s, ok |-> TRUE])
  /\ s \in devices
  /\ initialize_phase[s] = 3
  /\ phase[out_port[s]] = "InitializingDevice"
  /\ initialize_phase' = [initialize_phase EXCEPT ![s] = 4]
  /\ \/ /\ phase' = [phase EXCEPT ![out_port[s]] = "ConfiguringEndpoints"]
        /\ Send("ConfigureEndpoint", s)
     \/ /\ ~portsc[out_port[s]].ccs   \* the port has no valid speed any more
        /\ UNCHANGED <<phase, cmds>>
  /\ Return
  /\ UNCHANGED <<addressing_port, scan, spin, cont, portsc, devices, dcbaa,
                 in_port, hc>>

\* CompleteConfiguration
OnEndpointsConfigured(s) ==
  /\ Handling([type |-> "ConfigureEndpoint", slot |-> s])
  /\ s \in devices
  /\ phase[out_port[s]] = "ConfiguringEndpoints"
  /\ phase' = [phase EXCEPT ![out_port[s]] = "Configured"]
  /\ Return
  /\ UNCHANGED <<addressing_port, scan, spin, cont, portsc, devmgr, hc, cmds>>

\* What the handlers above do not accept: an early return and no change.
Refused(e) ==
  \/ /\ e.type = "PortStatusChange"
     /\ phase[e.port] # "NotConnected"
     /\ ~ /\ phase[e.port] = "ResettingPort"
          /\ portsc[e.port].ped /\ portsc[e.port].prc
  \/ /\ e.type = "EnableSlot"
     /\ phase[addressing_port] # "EnablingSlot"
  \/ /\ e.type = "AddressDevice"
     /\ ~ /\ e.slot \in devices
          /\ out_port[e.slot] = addressing_port
          /\ phase[addressing_port] = "AddressingDevice"
  \/ /\ e.type = "ConfigureEndpoint"
     /\ ~ /\ e.slot \in devices
          /\ phase[out_port[e.slot]] = "ConfiguringEndpoints"
  \/ /\ e.type = "Transfer"
     /\ ~ (e.slot \in devices /\ e.ok)

RefuseEvent ==
  /\ \E e \in Event : Handling(e) /\ Refused(e)
  /\ Return
  /\ UNCHANGED <<driver, portsc, devmgr, hc, cmds>>

\* A mutated operator: the loop variable moves on whoever was resetting.
ResetDoneAdvances ==
  /\ spin # 0
  /\ ~portsc[spin].pr
  /\ spin' = 0
  /\ scan' = scan + 1
  /\ \/ scan <= MaxPorts /\ UNCHANGED events
     \/ scan > MaxPorts /\ Return
  /\ UNCHANGED <<addressing_port, portsc, devmgr, hc, cmds, phase, cont>>

\* Port::Reset returns, and with it whoever called ResetPort.
ResetDone ==
  /\ spin # 0
  /\ ~portsc[spin].pr
  /\ spin' = 0
  /\ \/ /\ scan <= MaxPorts
        /\ scan' = scan + 1
        /\ UNCHANGED <<phase, cont, initialize_phase, transfers, events>>
     \/ /\ scan > MaxPorts
        /\ cont = {}
        /\ Return
        /\ UNCHANGED <<phase, scan, cont, initialize_phase, transfers>>
     \/ /\ scan > MaxPorts
        /\ \E c \in cont : InitializeDevice(c.port, c.slot)
        /\ cont' = {}
        /\ Return
        /\ UNCHANGED scan
  /\ UNCHANGED <<addressing_port, portsc, devices, dcbaa, in_port, out_port,
                 hc_slots, unplugs, cmds>>

-----------------------------------------------------------------------------
(* The controller and the devices.                                         *)

\* A Port Status Change event is written when a change bit goes to one; while
\* another change bit of the port is one, some controllers do not write it.
Announce(p, already, other) ==
  LET e == [type |-> "PortStatusChange", port |-> p]
  IN  \/ ~already /\ events' = Append(events, e)
      \/ (already \/ other) /\ UNCHANGED events

Connect(p) ==
  /\ ~portsc[p].ccs
  /\ portsc' = [portsc EXCEPT ![p].ccs = TRUE, ![p].csc = TRUE]
  /\ Announce(p, portsc[p].csc, portsc[p].prc)
  /\ UNCHANGED <<driver, devmgr, hc, cmds>>

Unplug(p) ==
  /\ portsc[p].ccs
  /\ unplugs < MaxUnplugs
  /\ phase[p] \in UnplugPhases
  /\ unplugs' = unplugs + 1
  /\ portsc' = [portsc EXCEPT ![p].ccs = FALSE, ![p].ped = FALSE,
                              ![p].pr = FALSE, ![p].addr = FALSE,
                              ![p].csc = TRUE]
  /\ Announce(p, portsc[p].csc, portsc[p].prc)
  /\ UNCHANGED <<driver, devmgr, out_port, transfers, hc_slots, cmds>>

FinishReset(p) ==
  /\ portsc[p].pr
  /\ portsc' = [portsc EXCEPT ![p].pr = FALSE, ![p].ped = TRUE,
                              ![p].prc = TRUE, ![p].addr = FALSE]
  /\ Announce(p, portsc[p].prc, portsc[p].csc)
  /\ UNCHANGED <<driver, devmgr, hc, cmds>>

Executing(type, s) == cmds # <<>> /\ Head(cmds) = [type |-> type, slot |-> s]

Complete(type, s) ==
  /\ events' = Append(events, [type |-> type, slot |-> s])
  /\ cmds' = Tail(cmds)

\* The completion of an Enable Slot that failed carries slot 0.
ExecEnableSlot ==
  /\ Executing("EnableSlot", 0)
  /\ \/ \E s \in Slot \ (hc_slots \cup {0}) :
          /\ hc_slots' = hc_slots \cup {s}
          /\ Complete("EnableSlot", s)
     \/ /\ MayFail \/ Slot \subseteq hc_slots \cup {0}
        /\ Complete("EnableSlot", 0)
        /\ UNCHANGED hc_slots
  /\ UNCHANGED <<driver, portsc, devmgr, out_port, transfers, unplugs>>

\* One that fails may have copied the slot context already.
ExecAddressDevice(s) ==
  /\ Executing("AddressDevice", s)
  /\ \/ /\ s \in hc_slots
        /\ dcbaa[s] = "context"
        /\ portsc[in_port[s]].ped
        /\ out_port' = [out_port EXCEPT ![s] = in_port[s]]
        /\ portsc' = [portsc EXCEPT ![in_port[s]].addr = TRUE]
     \/ /\ MayFail \/ s \notin hc_slots \/ ~portsc[in_port[s]].ped
        /\ \/ UNCHANGED out_port
           \/ s \in hc_slots /\ out_port' = [out_port EXCEPT ![s] = in_port[s]]
        /\ UNCHANGED portsc
  /\ Complete("AddressDevice", s)
  /\ UNCHANGED <<driver, devmgr, transfers, hc_slots, unplugs>>

ExecConfigureEndpoint(s) ==
  /\ Executing("ConfigureEndpoint", s)
  /\ Complete("ConfigureEndpoint", s)
  /\ UNCHANGED <<driver, portsc, devmgr, hc>>

CompleteTransfer(s) ==
  /\ s \in transfers
  /\ transfers' = transfers \ {s}
  /\ \E ok \in BOOLEAN :
       /\ ok => portsc[out_port[s]].addr
       /\ ~ok => MayFail \/ ~portsc[out_port[s]].addr
       /\ events' = Append(events, [type |-> "Transfer", slot |-> s, ok |-> ok])
  /\ UNCHANGED <<driver, portsc, devmgr, out_port, hc_slots, unplugs, cmds>>

-----------------------------------------------------------------------------
Driver ==
  \/ ScanPort \/ ResetDone \/ RefuseEvent
  \/ \E p \in Port : OnPortConnected(p) \/ OnPortReset(p)
  \/ \E s \in Slot :
       \/ OnSlotEnabled(s) \/ OnAddressedLast(s) \/ OnAddressedNext(s)
       \/ OnDescriptor(s) \/ OnConfigurationSet(s) \/ OnEndpointsConfigured(s)

Execute ==
  \/ ExecEnableSlot
  \/ \E s \in Slot : ExecAddressDevice(s) \/ ExecConfigureEndpoint(s)

Hardware ==
  \/ Execute
  \/ \E p \in Port : Connect(p) \/ Unplug(p) \/ FinishReset(p)
  \/ \E s \in Slot : CompleteTransfer(s)

Next == Driver \/ Hardware

Spec == Init /\ [][Next]_vars

\* The event loop returns to the ring as long as there are events
\* (EventLoop!EventHandled); the controller executes commands, ends resets
\* and completes transfers.  Nobody has to connect or unplug anything.
FairSpec ==
  /\ Spec
  /\ WF_vars(Driver)
  /\ WF_vars(Execute)
  /\ \A p \in Port : WF_vars(FinishReset(p))
  /\ \A s \in Slot : WF_vars(CompleteTransfer(s))

-----------------------------------------------------------------------------
TypeOK ==
  /\ phase \in [PortId -> ConfigPhase]
  /\ addressing_port \in PortId
  /\ scan \in 1 .. MaxPorts + 1
  /\ spin \in PortId
  /\ cont \subseteq [port : PortId, slot : Slot]
  /\ portsc \in [Port -> PortSC]
  /\ devices \subseteq Slot
  /\ dcbaa \in [Slot -> {"null", "scratchpad", "context"}]
  /\ in_port \in [Slot -> PortId]
  /\ out_port \in [Slot -> PortId]
  /\ initialize_phase \in [Slot -> 0 .. 4]
  /\ transfers \subseteq Slot
  /\ hc_slots \subseteq Slot
  /\ cmds \in Seq(Command)
  /\ events \in Seq(Event)
  /\ unplugs \in 0 .. MaxUnplugs

\* Ports whose call of InitializeDevice is on the stack below a port reset.
Resuming == {c.port : c \in cont}

(* addressing_port tells which port is between its reset and its address,  *)
(* and no other port is, at every step and while a handler spins; the port *)
(* being spun on is the one that has the lock (xhci.cpp:40-43; ResetPort,  *)
(* OnEvent for command completions).                                       *)
AddressingExclusive ==
  /\ \A p \in PortId \ Resuming :
       phase[p] \in AddressingPhase <=> p = addressing_port /\ p # 0
  /\ spin # 0 => spin = addressing_port /\ phase[spin] = "ResettingPort"
  /\ cont # {} => spin # 0

(* The bus has at most one device that answers to the default address 0,   *)
(* counting a device whose port is being reset (xhci.cpp:32-36).           *)
OneDefaultDevice ==
  \A p, q \in Port :
    LET Default(r) == portsc[r].pr \/ (portsc[r].ped /\ ~portsc[r].addr)
    IN  Default(p) /\ Default(q) => p = q

(* A port waits for the lock only while another port has it: when the lock *)
(* is given up it passes to a waiting port whose device is there           *)
(* (xhci.cpp:32-36, kWaitingAddressed is waiting to be run; :254-263).     *)
WaitingMeansBusy ==
  \A p \in Port :
    phase[p] = "WaitingAddressed" /\ portsc[p].ccs => addressing_port # 0

(* What the controller reads of the device contexts is what the driver put *)
(* there for it: DCBAA[0] keeps pointing to the scratchpad buffers of      *)
(* Controller::Initialize (xhci.cpp:367), and an Address Device command in *)
(* the ring names a slot whose device has its context in the DCBAA, for    *)
(* the port that has the lock (AddressDevice, LoadDCBAA; xhci.cpp:131-164). *)
ContextReady ==
  /\ dcbaa[0] = "scratchpad"
  /\ \A i \in DOMAIN cmds : cmds[i].type = "AddressDevice" =>
       /\ cmds[i].slot \in devices
       /\ dcbaa[cmds[i].slot] = "context"
       /\ in_port[cmds[i].slot] = addressing_port

(* As long as nothing fails and nothing is unplugged, no completion of a   *)
(* command or transfer of the driver's own arrives in a phase that refuses *)
(* it, whatever the ports do meanwhile (OnEvent, kInvalidPhase).           *)
CompletionsAccepted ==
  unplugs = 0 => \A e \in Event :
    Handling(e) /\ e.type # "PortStatusChange" => ~Refused(e)

(* Of all ports, failing ones included, one command of the port with the   *)
(* lock and a Configure Endpoint for each slot are under way at most: nine *)
(* TRBs for eight slots, in a command ring whose Push does not look for    *)
(* room (TrbRing, MaxPending; EnableSlot, AddressDevice,                   *)
(* ConfigureEndpoints).                                                    *)
CommandsFitRing ==
  /\ Cardinality({i \in DOMAIN cmds : cmds[i].type # "ConfigureEndpoint"}) <= 1
  /\ \A i, j \in DOMAIN cmds :
       cmds[i] = cmds[j] => i = j

Stage(p) ==
  IF phase[p] = "NotConnected" THEN "idle"
  ELSE IF phase[p] = "WaitingAddressed" THEN "waiting"
  ELSE IF p = addressing_port THEN "owner" ELSE "done"

Lock == INSTANCE AddressLock WITH
          stage <- [p \in Port |-> Stage(p)], owner <- addressing_port

(* The phases and addressing_port implement the lock of AddressLock: one   *)
(* port at a time, each port once, waiting ports served lowest number      *)
(* first and without a gap in which another could slip in.                 *)
ImplementsLock == Lock!Spec

(* If nothing is ever unplugged, every device with a driver that is        *)
(* plugged in, at boot or later, alone or while others are being           *)
(* configured, is configured in the end (main.cpp:240-251, OnEvent for     *)
(* port status changes).                                                   *)
EveryDeviceConfigured ==
  [](unplugs = 0) =>
    \A p \in Port \ NoDriverPorts : portsc[p].ccs ~> phase[p] = "Configured"
=============================================================================
