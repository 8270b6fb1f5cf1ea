------------------------------ MODULE PciScan -------------------------------
(***************************************************************************)
(* The search for PCI functions (kernel/pci/pci.cpp): ScanAllBus, ScanBus, *)
(* ScanDevice and ScanFunction call each other down the tree of bridges    *)
(* and fill the table pci::devices until it is full.                       *)
(*                                                                         *)
(* stack is the call stack: one entry for each ScanBus under way, the      *)
(* function that it reads next or, under a nested call, the bridge that    *)
(* led there.  The configuration space is external and does not change.    *)
(***************************************************************************)
EXTENDS SequencesExt, FiniteSetsExt, Naturals

CONSTANTS
  MaxDevices,    \* places in pci::devices, 32
  NumDevices,    \* devices on a bus, 32
  NumFunctions,  \* functions of a device, 8
  ConfigSpaces   \* sets of functions that a machine may have

\* The class as far as the kernel tells classes apart.
Function == [class : {"bridge", "xhc", "ehci", "other"}, intel : BOOLEAN, multi : BOOLEAN,
             secondary : Nat]

\* <<bus, device, function>>
Address == Nat \X (0 .. NumDevices - 1) \X (0 .. NumFunctions - 1)

\* There is a host bridge, whose header type is read without a test.
ASSUME PciScanAssumption ==
  /\ MaxDevices \in Nat \ {0} /\ NumDevices \in Nat \ {0} /\ NumFunctions \in Nat \ {0}
  /\ \A c \in ConfigSpaces :
       /\ DOMAIN c \subseteq Address /\ IsFiniteSet(DOMAIN c)
       /\ \A a \in DOMAIN c : c[a] \in Function
       /\ <<0, 0, 0>> \in DOMAIN c

VARIABLES
  config,    \* functions by address
  roots,     \* buses that ScanAllBus has still to scan, the lowest first
  stack,
  devices,   \* the first num_device entries of pci::devices
  scan_err

scan == <<config, roots, stack, devices, scan_err>>

ScanInit(c) ==
  /\ config = c
  /\ roots = IF ~c[<<0, 0, 0>>].multi THEN {0}
             ELSE {f \in 0 .. NumFunctions - 1 : <<0, 0, f>> \in DOMAIN c}
  /\ stack = <<>>
  /\ devices = <<>>
  /\ scan_err = "kSuccess"

\* The next function that ScanDevice and ScanBus read after a.  A device
\* number behind the last one ends the loop of ScanBus.
NextAddress(a) ==
  LET single == <<a[1], a[2], 0>> \notin DOMAIN config \/ ~config[<<a[1], a[2], 0>>].multi
  IN IF single \/ a[3] = NumFunctions - 1 THEN <<a[1], a[2] + 1, 0>>
     ELSE <<a[1], a[2], a[3] + 1>>

Top == Last(stack)
Replaced(s, a) == Append(Front(s), a)

ScanRoot ==
  /\ stack = <<>> /\ roots # {}
  /\ stack' = <<<<Min(roots), 0, 0>>>>
  /\ roots' = roots \ {Min(roots)}
  /\ UNCHANGED <<config, devices, scan_err>>

\* The vendor ID is 0xffff.
Skip ==
  /\ stack # <<>> /\ Top[2] < NumDevices
  /\ Top \notin DOMAIN config
  /\ stack' = Replaced(stack, NextAddress(Top))
  /\ UNCHANGED <<config, roots, devices, scan_err>>

\* AddDevice fails, and with it every caller.
TableFull ==
  /\ stack # <<>> /\ Top \in DOMAIN config
  /\ Len(devices) = MaxDevices
  /\ scan_err' = "kFull"
  /\ stack' = <<>> /\ roots' = {}
  /\ UNCHANGED <<config, devices>>

\* Mutated: AddDevice without a look at the size of the table.
ScanFunctionUnchecked ==
  /\ stack # <<>> /\ Top \in DOMAIN config
  /\ devices' = Append(devices, Top)
  /\ \/ /\ config[Top].class # "bridge"
        /\ stack' = Replaced(stack, NextAddress(Top))
     \/ /\ config[Top].class = "bridge"
        /\ stack' = Append(stack, <<config[Top].secondary, 0, 0>>)
  /\ UNCHANGED <<config, roots, scan_err>>

ScanFunction ==
  /\ stack # <<>> /\ Top \in DOMAIN config
  /\ Len(devices) < MaxDevices
  /\ devices' = Append(devices, Top)
  /\ \/ /\ config[Top].class # "bridge"
        /\ stack' = Replaced(stack, NextAddress(Top))
     \/ /\ config[Top].class = "bridge"
        /\ stack' = Append(stack, <<config[Top].secondary, 0, 0>>)
  /\ UNCHANGED <<config, roots, scan_err>>

\* Mutated: the bridge's caller starts its device again.
ReturnToFirst ==
  /\ stack # <<>> /\ Top[2] = NumDevices
  /\ LET caller == Front(stack) IN
       stack' = IF caller = <<>> THEN caller
                ELSE Replaced(caller, <<Last(caller)[1], Last(caller)[2] + 1, 0>>)
  /\ UNCHANGED <<config, roots, devices, scan_err>>

\* ScanBus returns; its caller goes on behind the bridge.
Return ==
  /\ stack # <<>> /\ Top[2] = NumDevices
  /\ LET caller == Front(stack) IN
       stack' = IF caller = <<>> THEN caller
                ELSE Replaced(caller, NextAddress(Last(caller)))
  /\ UNCHANGED <<config, roots, devices, scan_err>>

Scan == ScanRoot \/ Skip \/ TableFull \/ ScanFunction \/ Return

Scanned == stack = <<>> /\ roots = {}

-----------------------------------------------------------------------------
(* What there is to be found: the functions on the buses that hang below   *)
(* the host bridges.                                                       *)

Bridges == {a \in DOMAIN config : config[a].class = "bridge"}

\* A device answers at function 0, at others only if it says so there.
Visible(a) ==
  LET first == <<a[1], a[2], 0>> IN
    first \in DOMAIN config /\ (a[3] = 0 \/ config[first].multi)

HostBuses ==
  IF config[<<0, 0, 0>>].multi THEN {a[3] : a \in {b \in DOMAIN config : b[1] = 0 /\ b[2] = 0}}
  ELSE {0}

\* The fewest buses with the host's and, for each bridge on one of them, the
\* bridge's.
Buses ==
  LET all == HostBuses \cup {config[a].secondary : a \in Bridges} IN
    {b \in all : \A S \in SUBSET all :
       HostBuses \subseteq S
       /\ (\A a \in Bridges : a[1] \in S /\ Visible(a) => config[a].secondary \in S)
       => b \in S}

Present == {a \in DOMAIN config : a[1] \in Buses /\ Visible(a)}

\* Firmware has numbered the buses: each has one way to it.
IsTree ==
  /\ \A a \in Bridges : config[a].secondary \notin HostBuses
  /\ \A a, b \in Bridges : config[a].secondary = config[b].secondary => a = b

(* When the search ends, the table has every function of the machine once, *)
(* or is full and there are more of them (ScanAllBus, AddDevice).          *)
ScanComplete ==
  Scanned /\ IsTree =>
    /\ IsInjective(devices)
    /\ scan_err = "kSuccess" => Range(devices) = Present
    /\ scan_err = "kFull" => Len(devices) = MaxDevices /\ Cardinality(Present) > MaxDevices
=============================================================================
