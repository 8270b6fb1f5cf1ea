------------------------------- MODULE Boot ----------------------------------
(***************************************************************************)
(* From the firmware to sti: the loader, then the kernel's search of the   *)
(* PCI buses, then the start of the controller.  The state of the hardware *)
(* that the loader and the search leave behind is that of the machine.     *)
(***************************************************************************)
EXTENDS BootLoader, StartUp

CONSTANT Systems  \* machines, each with the kernel.elf on its disk

ASSUME BootAssumption == Systems \subseteq [machine : Machines, file : Images]

vars == <<boot, scan, startup>>

Init == \E s \in Systems :
  LoaderInit(s.file) /\ ScanInit(s.machine.config) /\ StartUpInit(s.machine)

Load == UefiMain /\ UNCHANGED <<scan, startup>>

Firmware == FirmwareChanges /\ UNCHANGED <<scan, startup>>

ScanAllBus == loader = "kernel" /\ Scan /\ UNCHANGED <<boot, startup>>

KernelMain == Scanned /\ StartUp /\ UNCHANGED <<boot, scan>>

Environment(A) == Scanned /\ A /\ UNCHANGED <<boot, scan>>

Next == Load \/ Firmware \/ ScanAllBus \/ KernelMain \/ Environment(Hardware)

\* The processor does not stop between two steps; the controller halts, starts,
\* resets and becomes ready; a firmware that is asked gives the controller up.
Fairness ==
  /\ WF_vars(Load) /\ WF_vars(ScanAllBus) /\ WF_vars(KernelMain)
  /\ WF_vars(Environment(HcHalt)) /\ WF_vars(Environment(HcStart))
  /\ WF_vars(Environment(HcReset)) /\ WF_vars(Environment(HcReady))
  /\ SF_vars(Environment(BiosRelease))

Spec == Init /\ [][Next]_vars /\ Fairness

TypeOK ==
  /\ LoaderTypeOK /\ StartUpTypeOK
  /\ devices \in Seq(DOMAIN config) /\ Len(devices) <= MaxDevices
  /\ ToSet(stack) \subseteq Nat \X (0 .. NumDevices) \X (0 .. NumFunctions - 1)
  /\ scan_err \in {"kSuccess", "kFull"}

(* The machine does not hang on the way: the loader stops with a message,  *)
(* or the kernel enables interrupts, whatever the search finds and the     *)
(* controller's state was; only without a controller, or with one that     *)
(* lies where nothing is mapped, it goes astray (the busy waits in         *)
(* xhci.cpp:305-308, 341, 347-348, 407; main.cpp:213, paging.cpp:18).      *)
BootEnds ==
  <>\/ loader = "halt" \/ step = "sti"
    \/ step = "astray" /\ (xhc = Null \/ ~Mapped(machine.bar.base))
=============================================================================
