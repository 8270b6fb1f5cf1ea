------------------------------- MODULE Device -------------------------------
(***************************************************************************)
(* One USB device from StartInitialize on: usb/device.cpp, the transfers   *)
(* of usb/xhci/device.cpp and the class driver of usb/classdriver/hid.cpp, *)
(* with the device and the controller as the environment.                  *)
(*                                                                         *)
(* A transfer event names the TRB that caused it.  Everything else the     *)
(* driver looks up: the setup stage by the position of that TRB, in        *)
(* setup_stage_map_, then the request in the ring itself, then who issued  *)
(* the request in event_waiters_.  What the device is, the driver reads    *)
(* from its configuration descriptor (DescriptorReader).                   *)
(***************************************************************************)
EXTENDS DescriptorReader, FiniteSets, FiniteSetsExt

CONSTANTS
  RingSize,       \* TRBs in the ring of the control pipe, with the link
  MapSize,        \* entries of setup_stage_map_
  WaiterSize,     \* entries of event_waiters_
  Configurations, \* what the device may send as its configuration descriptor
  Keys,           \* key codes of keyboards
  Modifiers,      \* what the modifier byte of a keyboard may be
  Moves,          \* displacements of mice
  MayFail         \* transfers may fail

\* The class drivers are called by the number of the endpoint.
Numbers(eps) == {eps[k].num : k \in DOMAIN eps}

\* The reports of the boot protocol, and the buffers of a driver before any.
NoReport == [modifiers |-> 0, keys |-> {}]
ReportsOf(driver) ==
  IF driver = "keyboard" THEN [modifiers : Modifiers, keys : SUBSET Keys]
                         ELSE [move : Moves]

\* Conforming devices, but for the size of what they send; an interface that
\* a driver takes has an Interrupt IN endpoint.
ASSUME DeviceAssumption ==
  /\ RingSize \in Nat \ {0, 1} /\ MapSize \in Nat /\ WaiterSize \in Nat /\ MayFail \in BOOLEAN
  /\ Keys \subseteq 1 .. 255 /\ Modifiers \subseteq 0 .. 255
  /\ \A c \in Configurations :
       /\ c \in Seq(Descriptor) /\ WellFormed(c) /\ CutBetween(c)
       /\ \A k \in Driven(c) :
            \E j \in EndpointsOf(c, k) : c[j].conf.in /\ c[j].conf.interrupt

\* What the driver asks for, and what its TRBs on the control pipe are: a
\* setup stage by its request, a data or a status stage.
Request == {"device", "config", "set_config", "set_protocol"}
Trb     == Request \cup {"Data", "Status"}

VARIABLES
  configuration,    \* what this device sends
  initialize_phase, \* 4: is_initialized_
  class_driver,     \* the driver of the device, "none" before it is known
  class_drivers,    \* endpoint numbers with a class driver
  ep_configs,
  pipe,             \* the control pipe, see PipeType
  rings,            \* endpoints with a transfer ring
  event_waiters,    \* entries in use: all of them SET_PROTOCOL, of one driver
  hid_phase,        \* HIDBaseDriver::initialize_phase_
  ep_interrupt_in,  \* {the endpoint of the reports}
  configuring,      \* the Configure Endpoint command is under way
  err,              \* what the last handler returned
  polled,           \* Normal TRBs under way on the Interrupt IN ring
  events,           \* control transfer events not yet handled
  reported,         \* interrupt transfer events not yet handled
  buf,              \* the report in HIDBaseDriver::buf_
  previous_buf,
  told,             \* what the driver told its observers of the last report
  sent              \* the last two reports the device has sent

found   == <<class_driver, class_drivers, ep_configs>>
hid     == <<hid_phase, ep_interrupt_in>>
reports == <<buf, previous_buf, told, sent>>
vars    == <<configuration, initialize_phase, found, pipe, rings, event_waiters, hid,
             configuring, err, polled, events, reported, reports>>

Free == [issuer |-> RingSize, setup |-> RingSize]

Init ==
  /\ configuration \in Configurations
  /\ initialize_phase = 0
  /\ class_driver = "none" /\ class_drivers = {} /\ ep_configs = <<>>
  /\ pipe = [ring            |-> [k \in 0 .. RingSize - 2 |-> "none"],
             write_index     |-> 0,
             setup_stage_map |-> [k \in 1 .. MapSize |-> Free],
             under_way       |-> <<>>]
  /\ rings = {}
  /\ event_waiters = 0
  /\ hid_phase = 0 /\ ep_interrupt_in = {}
  /\ configuring = FALSE
  /\ err = "kSuccess"
  /\ polled = 0 /\ events = <<>> /\ reported = 0
  /\ buf = NoReport /\ previous_buf = NoReport
  /\ told = {} /\ sent = <<NoReport, NoReport>>

-----------------------------------------------------------------------------
(* ArrayMap: the first entry that fits is taken.                           *)

Entries(map, issuer) == {k \in DOMAIN map : map[k].issuer = issuer}

\* Mutated: the first entry is taken, free or not.
PutFirst(map, entry) == [map EXCEPT ![1] = entry]

Put(map, entry) ==
  LET free == Entries(map, Free.issuer) IN
    IF free = {} THEN map ELSE [map EXCEPT ![Min(free)] = entry]

Has(map, issuer) == Entries(map, issuer) # {}
Get(map, issuer) == map[Min(Entries(map, issuer))].setup

\* Mutated: entries stay.
DeleteNothing(map, issuer) == map

Delete(map, issuer) == [map EXCEPT ![Min(Entries(map, issuer))] = Free]

-----------------------------------------------------------------------------
(* The control pipe.                                                       *)

\* Mutated: the ring has no end.
AdvanceNoWrap(k, n) == k + n

Advance(k, n) == (k + n) % (RingSize - 1)

\* ControlIn with a buffer: Setup, Data and Status, the Data TRB is the issuer
\* of the event.  ControlOut without: Setup and Status, which is the issuer.
ControlIn(p, request) ==
  LET setup  == p.write_index
      issuer == Advance(setup, 1)
  IN [ring            |-> [p.ring EXCEPT ![setup] = request, ![issuer] = "Data",
                                         ![Advance(setup, 2)] = "Status"],
      write_index     |-> Advance(setup, 3),
      setup_stage_map |-> Put(p.setup_stage_map, [issuer |-> issuer, setup |-> setup]),
      under_way       |-> Append(p.under_way,
                            [issuer |-> issuer, request |-> request, trbs |-> 3])]

ControlOut(p, request) ==
  LET setup  == p.write_index
      issuer == Advance(setup, 1)
  IN [ring            |-> [p.ring EXCEPT ![setup] = request, ![issuer] = "Status"],
      write_index     |-> Advance(setup, 2),
      setup_stage_map |-> Put(p.setup_stage_map, [issuer |-> issuer, setup |-> setup]),
      under_way       |-> Append(p.under_way,
                            [issuer |-> issuer, request |-> request, trbs |-> 2])]

-----------------------------------------------------------------------------
(* The driver.                                                             *)

StartInitialize ==
  /\ initialize_phase = 0
  /\ initialize_phase' = 1
  /\ pipe' = ControlIn(pipe, "device")
  /\ UNCHANGED <<configuration, found, rings, event_waiters, hid, configuring, err,
                 polled, events, reported, reports>>

\* OnTransferEventReceived: the request that a successful event belongs to,
\* read from the ring.
Completed(request) ==
  /\ events # <<>>
  /\ Head(events).ok
  /\ Has(pipe.setup_stage_map, Head(events).issuer)
  /\ request = pipe.ring[Get(pipe.setup_stage_map, Head(events).issuer)]
  /\ events' = Tail(events)

\* The pipe after setup_stage_map_.Delete.
Deleted == [pipe EXCEPT !.setup_stage_map = Delete(@, Head(events).issuer)]

InitializePhase1 ==
  /\ initialize_phase = 1
  /\ Completed("device")
  /\ initialize_phase' = 2
  /\ pipe' = ControlIn(Deleted, "config")
  /\ err' = "kSuccess"
  /\ UNCHANGED <<configuration, found, rings, event_waiters, hid, configuring, polled, reported,
                 reports>>

\* A value of its own, so that TLC works it out once.
Reading == [c \in Configurations |-> ReadConfiguration(c)]

InitializePhase2 ==
  /\ initialize_phase = 2
  /\ Completed("config")
  /\ LET read == Reading[configuration] IN
       /\ class_driver' = read.driver
       /\ class_drivers' = Numbers(read.endpoints)
       /\ ep_configs' = read.endpoints
       /\ \/ /\ read.driver = "none"
             /\ pipe' = Deleted /\ err' = "kSuccess"
             /\ UNCHANGED initialize_phase
          \/ /\ Astray(read)   \* the handler does not return: nothing is under way
             /\ pipe' = Deleted /\ err' = "astray"
             /\ UNCHANGED initialize_phase
          \/ /\ read.driver # "none" /\ ~Astray(read)
             /\ pipe' = ControlOut(Deleted, "set_config") /\ err' = "kSuccess"
             /\ initialize_phase' = 3
  /\ UNCHANGED <<configuration, rings, event_waiters, hid, configuring, polled, reported,
                 reports>>

\* SetEndpoint for each endpoint, the last Interrupt IN endpoint stays; then
\* OnEvent calls ConfigureEndpoints.
InitializePhase3 ==
  /\ initialize_phase = 3
  /\ Completed("set_config")
  /\ initialize_phase' = 4
  /\ LET in == {k \in DOMAIN ep_configs : ep_configs[k].in /\ ep_configs[k].interrupt} IN
       ep_interrupt_in' = {ep_configs[k] : k \in {l \in in : \A j \in in : j <= l}}
  /\ pipe' = Deleted
  /\ rings' = {ep_configs[k] : k \in DOMAIN ep_configs}
  /\ configuring' = TRUE
  /\ err' = "kSuccess"
  /\ UNCHANGED <<configuration, found, event_waiters, hid_phase, polled, reported, reports>>

\* HIDBaseDriver::OnEndpointsConfigured, called n times.
SetProtocol(p, n) ==
  LET Issued[k \in 0 .. n] ==
        IF k = 0 THEN p ELSE ControlOut(Issued[k - 1], "set_protocol")
  IN Issued[n]

\* Mutated: one SET_PROTOCOL for each endpoint.
OnEndpointsConfiguredEach ==
  /\ configuring
  /\ configuring' = FALSE
  /\ hid_phase' = 1
  /\ LET n == Len(ep_configs) IN
       /\ pipe' = SetProtocol(pipe, n)
       /\ event_waiters' = IF event_waiters + n <= WaiterSize
                             THEN event_waiters + n ELSE WaiterSize
  /\ err' = "kSuccess"
  /\ UNCHANGED <<configuration, initialize_phase, found, rings, ep_interrupt_in,
                 polled, events, reported, reports>>

\* CompleteConfiguration calls the driver of each endpoint number, and the
\* driver issues SET_PROTOCOL each time.
OnEndpointsConfigured ==
  /\ configuring
  /\ configuring' = FALSE
  /\ hid_phase' = 1
  /\ LET n == Cardinality(class_drivers) IN
       /\ pipe' = SetProtocol(pipe, n)
       /\ event_waiters' = IF event_waiters + n <= WaiterSize
                             THEN event_waiters + n ELSE WaiterSize
  /\ err' = "kSuccess"
  /\ UNCHANGED <<configuration, initialize_phase, found, rings, ep_interrupt_in,
                 polled, events, reported, reports>>

InterruptIn ==
  IF ep_interrupt_in \subseteq rings /\ ep_interrupt_in # {}
    THEN polled' = polled + 1 /\ err' = "kSuccess"
    ELSE polled' = polled /\ err' = "kTransferRingNotSet"

\* Mutated: the driver does not note that it has been here.
OnProtocolSetForgetful ==
  /\ initialize_phase = 4
  /\ Completed("set_protocol")
  /\ pipe' = Deleted
  /\ IF event_waiters = 0 THEN err' = "kNoWaiter" /\ polled' = polled
     ELSE InterruptIn
  /\ UNCHANGED <<configuration, initialize_phase, found, rings, event_waiters, hid,
                 configuring, reported, reports>>

\* OnControlCompleted of the device finds the driver, the driver's asks for
\* reports the first time.
OnProtocolSet ==
  /\ initialize_phase = 4
  /\ Completed("set_protocol")
  /\ pipe' = Deleted
  /\ \/ event_waiters > 0 /\ hid_phase = 1 /\ hid_phase' = 2 /\ InterruptIn
     \/ event_waiters > 0 /\ hid_phase # 1 /\ err' = "kNotImplemented" /\ UNCHANGED <<hid_phase, polled>>
     \/ event_waiters = 0 /\ err' = "kNoWaiter" /\ UNCHANGED <<hid_phase, polled>>
  /\ UNCHANGED <<configuration, initialize_phase, found, rings, event_waiters, ep_interrupt_in,
                 configuring, reported, reports>>

Expected == <<"device", "config", "set_config", "set_protocol">>

\* The early returns for a control transfer.
RefuseControl ==
  /\ events # <<>>
  /\ events' = Tail(events)
  /\ LET e == Head(events) IN
     \/ /\ ~e.ok
        /\ err' = "kTransferFailed" /\ pipe' = pipe
     \/ /\ e.ok /\ ~Has(pipe.setup_stage_map, e.issuer)
        /\ err' = "kNoCorrespondingSetupStage" /\ pipe' = pipe
     \/ /\ e.ok /\ Has(pipe.setup_stage_map, e.issuer)
        /\ pipe.ring[Get(pipe.setup_stage_map, e.issuer)] # Expected[initialize_phase]
        /\ err' = (IF initialize_phase = 4 THEN "kNoWaiter" ELSE "kInvalidPhase")
        /\ pipe' = Deleted
  /\ UNCHANGED <<configuration, initialize_phase, found, rings, event_waiters, hid, configuring,
                 polled, reported, reports>>

\* OnDataReceived of the keyboard: std::find looks through the whole of the
\* previous report, the modifier byte included.  A mouse tells every report.
OnDataReceived ==
  IF class_driver = "keyboard"
    THEN buf.keys \ (previous_buf.keys \cup {previous_buf.modifiers})
    ELSE {buf.move}

\* Mutated: the driver takes one report and asks for no more; the report is
\* noted before it is compared.
OnReportOnce ==
  /\ reported > 0
  /\ reported' = reported - 1
  /\ UNCHANGED <<configuration, initialize_phase, found, pipe, rings, event_waiters, hid,
                 configuring, err, polled, events, reports>>
OnReportCopiedFirst ==
  /\ reported > 0
  /\ reported' = reported - 1
  /\ told' = IF class_driver = "keyboard" THEN {} ELSE OnDataReceived
  /\ previous_buf' = buf
  /\ InterruptIn
  /\ UNCHANGED <<configuration, initialize_phase, found, pipe, rings, event_waiters, hid,
                 configuring, events, buf, sent>>

\* OnInterruptCompleted.
OnReport ==
  /\ reported > 0
  /\ reported' = reported - 1
  /\ \/ /\ \E e \in ep_interrupt_in : e.num \in class_drivers
        /\ told' = OnDataReceived
        /\ previous_buf' = buf
        /\ InterruptIn
     \/ /\ \A e \in ep_interrupt_in : e.num \notin class_drivers
        /\ err' = "kNoWaiter"
        /\ UNCHANGED <<polled, told, previous_buf>>
  /\ UNCHANGED <<configuration, initialize_phase, found, pipe, rings, event_waiters, hid,
                 configuring, events, buf, sent>>

-----------------------------------------------------------------------------
(* The controller and the device.  A pipe stops at a failure for good: the *)
(* driver never resets it.                                                 *)

Finish(ok) == events' = Append(events, [issuer |-> Head(pipe.under_way).issuer, ok |-> ok])
Others == UNCHANGED <<configuration, initialize_phase, found, rings, event_waiters, hid, configuring, err>>

\* The issuer is done; behind a Data TRB there is the Status TRB.
CompleteIssuer ==
  /\ pipe.under_way # <<>> /\ Head(pipe.under_way).trbs > 1
  /\ Finish(TRUE)
  /\ pipe' = [pipe EXCEPT !.under_way =
                IF Head(@).trbs = 3 THEN [@ EXCEPT ![1].trbs = 1] ELSE Tail(@)]
  /\ UNCHANGED <<polled, reported, reports>> /\ Others

CompleteStatus ==
  /\ pipe.under_way # <<>> /\ Head(pipe.under_way).trbs = 1
  /\ pipe' = [pipe EXCEPT !.under_way = Tail(@)]
  /\ UNCHANGED <<polled, events, reported, reports>> /\ Others

FailControl ==
  /\ MayFail
  /\ pipe.under_way # <<>> /\ Head(pipe.under_way).trbs > 1
  /\ Finish(FALSE)
  /\ pipe' = [pipe EXCEPT !.under_way = <<>>]
  /\ UNCHANGED <<polled, reported, reports>> /\ Others

\* The report is written into the driver's buffer.
Report ==
  /\ polled > 0
  /\ polled' = polled - 1
  /\ reported' = reported + 1
  /\ buf' \in ReportsOf(class_driver)
  /\ sent' = <<sent[2], buf'>>
  /\ UNCHANGED <<pipe, events, previous_buf, told>> /\ Others

FailReport ==
  /\ MayFail
  /\ polled > 0
  /\ polled' = polled - 1
  /\ UNCHANGED <<configuration, initialize_phase, found, pipe, rings, event_waiters, hid,
                 configuring, events, reported, reports>>
  /\ err' = "kTransferFailed"   \* all the driver does with this event

-----------------------------------------------------------------------------
Driver ==
  \/ StartInitialize \/ InitializePhase1 \/ InitializePhase2 \/ InitializePhase3
  \/ OnEndpointsConfigured \/ OnProtocolSet \/ RefuseControl \/ OnReport

Hardware == CompleteIssuer \/ CompleteStatus \/ FailControl \/ FailReport \/ Report

Next == Driver \/ Hardware

Spec == Init /\ [][Next]_vars

\* The event loop handles what is in the ring; the device answers control
\* requests.  It may never have anything to report.
FairSpec ==
  /\ Spec
  /\ WF_vars(Driver)
  /\ WF_vars(CompleteIssuer) /\ WF_vars(CompleteStatus)

-----------------------------------------------------------------------------
Position == 0 .. RingSize - 2

TypeOK ==
  /\ configuration \in Configurations
  /\ initialize_phase \in 0 .. 4
  /\ class_driver \in {"none", "keyboard", "mouse"}
  /\ class_drivers \subseteq 1 .. 15
  /\ \A k \in DOMAIN ep_configs : ep_configs[k] \in Endpoint
  /\ pipe.ring \in [Position -> Trb \cup {"none"}]
  /\ pipe.write_index \in Position
  /\ \A k \in DOMAIN pipe.setup_stage_map :
       \/ pipe.setup_stage_map[k] = Free
       \/ pipe.setup_stage_map[k] \in [issuer : Position, setup : Position]
  /\ \A k \in DOMAIN pipe.under_way : pipe.under_way[k].issuer \in Position
  /\ rings \subseteq Endpoint /\ ep_interrupt_in \subseteq Endpoint
  /\ event_waiters \in 0 .. WaiterSize
  /\ hid_phase \in 0 .. 2
  /\ configuring \in BOOLEAN
  /\ polled \in Nat /\ reported \in Nat
  /\ {buf, previous_buf, sent[1], sent[2]}
       \subseteq {NoReport} \cup ReportsOf(class_driver)
  /\ told \subseteq Keys \cup Moves

(* Whatever completes, its setup stage is found and is still the one it    *)
(* was issued with (Device::ControlIn, ControlOut,                         *)
(* OnTransferEventReceived).                                               *)
SetupStageFound ==
  \A k \in DOMAIN pipe.under_way :
    pipe.under_way[k].trbs > 1 =>
      /\ Has(pipe.setup_stage_map, pipe.under_way[k].issuer)
      /\ pipe.ring[Get(pipe.setup_stage_map, pipe.under_way[k].issuer)] = pipe.under_way[k].request

(* No successful transfer is answered with an error, but for the second    *)
(* and later SET_PROTOCOL of a driver with several endpoint numbers        *)
(* (Device::OnControlCompleted, HIDBaseDriver::OnControlCompleted); what   *)
(* leads astray is the matter of ConfigurationUnderstood.                  *)
NoUnexpectedError == err \in {"kSuccess", "kTransferFailed", "kNotImplemented", "astray"}

(* An event is always traced back to the request it ends: its setup stage  *)
(* is found and a driver or the initialisation takes it, after wraps of    *)
(* the ring, failed transfers and repeated requests too                    *)
(* (Device::OnTransferEventReceived, Device::OnControlCompleted).          *)
EventsUnderstood == SetupStageFound /\ NoUnexpectedError

\* The TRBs that the controller has yet to take.
TrbsUnderWay ==
  {t \in (DOMAIN pipe.under_way) \X (1 .. 3) : t[2] <= pipe.under_way[t[1]].trbs}

(* The report buffer has one owner: there is never more than one request   *)
(* for a report under way or unhandled, however often SET_PROTOCOL is      *)
(* issued (HIDBaseDriver::OnControlCompleted, OnInterruptCompleted); and   *)
(* the control pipe never has more TRBs under way than Ring::Push can take *)
(* without looking (TrbRing, MaxPending), whatever the number of endpoints *)
(* (Device::OnEndpointsConfigured).                                        *)
RingRoom ==
  /\ polled + reported <= 1
  /\ Cardinality(TrbsUnderWay) <= RingSize - 2

(* From a configuration that fits the buffer, among interfaces of other    *)
(* kinds and descriptors of any length, the driver takes the first         *)
(* interface it knows with just that interface's endpoints; it loses its   *)
(* way only in one that does not fit (ConfigurationDescriptorReader,       *)
(* Device::InitializePhase2).                                              *)
ConfigurationUnderstood ==
  /\ Fits(configuration) /\ initialize_phase >= 3 =>
       /\ class_driver = Promised(configuration).driver
       /\ ep_configs = Promised(configuration).endpoints
  /\ err = "astray" => ~Fits(configuration)

(* Of each report the driver tells its observers what is new in it: a      *)
(* mouse each displacement, a keyboard each key that was not held before;  *)
(* but not a key whose code is that of the modifiers held before           *)
(* (HIDKeyboardDriver::OnDataReceived, HIDBaseDriver::OnInterruptCompleted). *)
WhatIsNew ==
  IF class_driver = "mouse" THEN {sent[2].move}
  ELSE (sent[2].keys \ sent[1].keys) \ {sent[1].modifiers}
ReportsTold ==
  class_driver # "none" /\ reported = 0 /\ sent[2] # NoReport => told = WhatIsNew

(* A device with a driver is asked for reports for ever, unless one of its *)
(* transfers fails (Device::OnControlCompleted, HIDBaseDriver).            *)
ReportsFlow ==
  Fits(configuration) /\ Driven(configuration) # {} =>
    <>[](polled + reported = 1) \/ <>(err = "kTransferFailed")
=============================================================================
