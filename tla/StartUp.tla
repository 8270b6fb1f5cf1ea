------------------------------ MODULE StartUp --------------------------------
(***************************************************************************)
(* The kernel from the end of the PCI search to sti (kernel/main/main.cpp, *)
(* kernel/usb/xhci/xhci.cpp): it picks a controller, programs its message  *)
(* signalled interrupt, takes the controller from the firmware, halts and  *)
(* resets it, gives it the structures in the USB pool and starts it.       *)
(*                                                                         *)
(* step names what comes next.  The controller and the firmware behind     *)
(* USBLEGSUP are actions of their own.  Addresses are real ones.           *)
(***************************************************************************)
EXTENDS PciScan, UsbMemory

CONSTANTS
  kDeviceSize,  \* slots, 8
  RingSize,     \* TRBs of the command ring and of the event ring, 32
  kPageDirectoryCount,  \* GiB that the kernel maps
  Machines      \* what the kernel may be started on

Null == <<>>
PointerSize == 8
TRBSize == 16

\* pool: where memory_pool lies; scratchpads: pages that the controller wants;
\* caps: its capabilities in the order of the list; legacy: it has USBLEGSUP;
\* os, bios, run: the semaphores and USBCMD as the kernel finds them; bar: the
\* GiB where the controller's registers are, whether its base address register
\* is one of 64 bits, and what the register behind it has if it is not.
Bar == [base : Nat, wide : BOOLEAN, next : Nat]

Machine ==
  [config : ConfigSpaces, pool : Nat \ {0}, scratchpads : 0 .. 1023, bar : Bar,
   caps : Seq({"msi32", "msi64", "msix"}), legacy : BOOLEAN, os : BOOLEAN, bios : BOOLEAN,
   run : BOOLEAN]

\* The pool is aligned to 64 (memory.cpp:18).  Only a firmware that has not been
\* asked yet owns the controller.
ASSUME StartUpAssumption ==
  /\ kDeviceSize \in Nat \ {0} /\ RingSize \in Nat \ {0} /\ kPageDirectoryCount \in 0 .. 512
  /\ \A m \in Machines :
       m \in Machine /\ m.pool % 64 = 0 /\ (m.bios => m.legacy /\ ~m.os)
       /\ (m.bar.wide \/ m.bar.base < 4)

VARIABLES
  step, machine,
  xhc,         \* xhc_dev: the address of the function, or Null
  routed,      \* the ports have been switched from EHCI to xHCI
  mmio,        \* xhc_mmio_base, in GiB
  msi,         \* the registers of the MSI capability
  legsup,      \* the semaphores of USBLEGSUP
  alloc_ptr,
  blocks,      \* history: what AllocMem has returned, and to which request
  dcbaa,       \* devmgr_.DeviceContexts() and the array that its entry 0 points to
  scratch,     \* the scratchpad array
  regs,        \* operational registers and those of interrupter 0
  erst,        \* the one entry of the event ring segment table
  init_err,    \* what xhc.Initialize has returned
  sent         \* history: the messages that the controller has signalled

card == <<machine, xhc, routed, mmio, msi>>
tables == <<dcbaa, scratch, erst>>
memory_pool == <<alloc_ptr, blocks>>
startup == <<step, card, legsup, memory_pool, tables, regs, init_err, sent>>

Regs ==
  [run : BOOLEAN, inte : BOOLEAN, hcrst : BOOLEAN, halted : BOOLEAN, cnr : BOOLEAN,
   slots : {0, kDeviceSize}, dcbaap : Nat, crcr : Nat, erstsz : 0 .. 1, erstba : Nat,
   erdp : Nat, ie : BOOLEAN]

ResetRegs ==
  [run |-> FALSE, inte |-> FALSE, hcrst |-> FALSE, halted |-> TRUE, cnr |-> TRUE,
   slots |-> 0, dcbaap |-> 0, crcr |-> 0, erstsz |-> 0, erstba |-> 0, erdp |-> 0, ie |-> FALSE]

StartUpInit(m) ==
  /\ step = "lookup" /\ machine = m
  /\ xhc = Null /\ routed = FALSE /\ mmio = 0
  /\ msi = [enable |-> FALSE, addr |-> "none", upper |-> "none", data |-> "none"]
  /\ legsup = [os |-> m.os, bios |-> m.bios]
  /\ alloc_ptr = m.pool /\ blocks = {}
  /\ dcbaa = [ptr |-> 0, zero |-> 0] /\ scratch = <<>> /\ erst = [base |-> 0, size |-> 0]
  /\ regs = [ResetRegs EXCEPT !.run = m.run, !.halted = ~m.run, !.cnr = FALSE]
  /\ init_err = "none" /\ sent = {}

Go(from, to) == step = from /\ step' = to

-----------------------------------------------------------------------------
(* main.cpp: the controller and its interrupt.                             *)

OfClass(c) == {i \in DOMAIN devices : config[devices[i]].class = c}
Intel == {i \in DOMAIN devices : config[devices[i]].intel}

\* Mutated: the search does not stop at Intel's.
LastController ==
  IF OfClass("xhc") = {} THEN Null ELSE devices[Max(OfClass("xhc"))]

\* lookupXHC: the first from Intel, else the last.
FoundController ==
  IF OfClass("xhc") \cap Intel # {} THEN devices[Min(OfClass("xhc") \cap Intel)]
  ELSE IF OfClass("xhc") # {} THEN devices[Max(OfClass("xhc"))] ELSE Null

\* main.cpp:213 dereferences xhc_dev also when it is null: the kernel goes
\* astray, which is not followed further.
LookupXHC ==
  /\ Scanned
  /\ xhc' = FoundController
  /\ Go("lookup", IF xhc' = Null THEN "astray" ELSE "msi_header")
  /\ UNCHANGED <<machine, routed, mmio, msi, legsup, memory_pool, tables, regs, init_err, sent>>

\* The capability that ConfigureMSI uses is the last MSI of the list.
MSIOf(caps) == SelectSeq(caps, LAMBDA c : c # "msix")
MSICaps == MSIOf(machine.caps)

\* WriteMSICapability, a register at a time.  That ConfigureMSI fails without
\* an MSI capability is ignored.
WriteMSIHeader ==
  /\ IF MSICaps = <<>> THEN Go("msi_header", "bar") /\ msi' = msi
     ELSE Go("msi_header", "msi_addr") /\ msi' = [msi EXCEPT !.enable = TRUE]
  /\ UNCHANGED <<machine, xhc, routed, mmio, legsup, memory_pool, tables, regs, init_err, sent>>

WriteMSIAddr ==
  /\ Go("msi_addr", "msi_data")
  /\ msi' = [msi EXCEPT !.addr = "lapic"]
  /\ UNCHANGED <<machine, xhc, routed, mmio, legsup, memory_pool, tables, regs, init_err, sent>>

\* Mutated: the data register is taken to be where it is for 32 bits.
WriteMSIDataAt8 ==
  /\ Go("msi_data", "bar")
  /\ msi' = IF Last(MSICaps) = "msi64" THEN [msi EXCEPT !.upper = "vector"]
            ELSE [msi EXCEPT !.data = "vector"]
  /\ UNCHANGED <<machine, xhc, routed, mmio, legsup, memory_pool, tables, regs, init_err, sent>>

\* The upper address that was read is written back.
WriteMSIData ==
  /\ Go("msi_data", "bar")
  /\ msi' = [msi EXCEPT !.data = "vector"]
  /\ UNCHANGED <<machine, xhc, routed, mmio, legsup, memory_pool, tables, regs, init_err, sent>>

\* SetupIdentityPageTable: entries of one PDP table, each a GiB.
Mapped(gib) == gib < kPageDirectoryCount

\* The two registers, 32 bits each, in GiB.
BarReg(i) ==
  IF i = 0 THEN machine.bar.base % 4
  ELSE IF machine.bar.wide THEN machine.bar.base \div 4 ELSE machine.bar.next

\* Mutated: the upper half is left out.
ReadBarLow ==
  /\ mmio' = BarReg(0)
  /\ Go("bar", "switch")
  /\ UNCHANGED <<machine, xhc, routed, msi, legsup, memory_pool, tables, regs, init_err, sent>>

\* ReadBar, and the constructor of Controller, which reads the first register:
\* where nothing is mapped, the kernel faults without a handler.
ReadBar ==
  /\ mmio' = BarReg(0) + (IF machine.bar.wide THEN 4 * BarReg(1) ELSE 0)
  /\ Go("bar", IF Mapped(mmio') THEN "switch" ELSE "astray")
  /\ UNCHANGED <<machine, xhc, routed, msi, legsup, memory_pool, tables, regs, init_err, sent>>

SwitchEhci2Xhci ==
  /\ Go("switch", "devmgr")
  /\ routed' = (config[xhc].intel /\ OfClass("ehci") \cap Intel # {})
  /\ UNCHANGED <<machine, xhc, mmio, msi, legsup, memory_pool, tables, regs, init_err, sent>>

Lookup ==
  LookupXHC \/ WriteMSIHeader \/ WriteMSIAddr \/ WriteMSIData \/ ReadBar \/ SwitchEhci2Xhci

-----------------------------------------------------------------------------
(* Controller::Initialize: take the controller, halt and reset it.         *)

Block(b, size, alignment, boundary) ==
  [mem |-> b.mem, size |-> size, alignment |-> alignment, boundary |-> boundary]

\* alloc_ptr and blocks behind the call of AllocMem that returned b.
Took(b, size, alignment, boundary) ==
  /\ alloc_ptr' = b.ptr
  /\ blocks' = IF b.mem = 0 THEN blocks
               ELSE blocks \cup {Block(b, size, alignment, boundary)}

Alloc(ptr, size, alignment, boundary) == AllocMem(machine.pool, ptr, size, alignment, boundary)

\* Initialize returns kNoEnoughMemory; main.cpp:234 runs the controller all the
\* same.
Fail(from) == Go(from, "run") /\ init_err' = "kNoEnoughMemory"

\* DeviceManager::Initialize.  The pool is fresh: it has room for both arrays.
InitializeDevmgr ==
  LET size == PointerSize * (kDeviceSize + 1)
      d == Alloc(alloc_ptr, size, 0, 0)
      c == Alloc(d.ptr, size, 64, 4096)
  IN /\ d.mem # 0 /\ c.mem # 0
     /\ Go("devmgr", "own")
     /\ alloc_ptr' = c.ptr
     /\ blocks' = {Block(d, size, 0, 0), Block(c, size, 64, 4096)}
     /\ dcbaa' = [ptr |-> c.mem, zero |-> 0]
     /\ UNCHANGED <<card, legsup, scratch, regs, erst, init_err, sent>>

\* Mutated: the firmware's answer is not awaited.
RequestHCOwnershipNoWait ==
  /\ Go("own", "stop")
  /\ legsup' = [legsup EXCEPT !.os = @ \/ machine.legacy]
  /\ UNCHANGED <<card, memory_pool, tables, regs, init_err, sent>>

RequestHCOwnership ==
  /\ IF ~machine.legacy \/ legsup.os THEN Go("own", "stop") /\ legsup' = legsup
     ELSE Go("own", "own_wait") /\ legsup' = [legsup EXCEPT !.os = TRUE]
  /\ UNCHANGED <<card, memory_pool, tables, regs, init_err, sent>>

OwnsHC ==
  /\ Go("own_wait", "stop")
  /\ ~legsup.bios /\ legsup.os
  /\ UNCHANGED <<card, legsup, memory_pool, tables, regs, init_err, sent>>

\* Mutated: a running controller is left running.
StopIfHalted ==
  /\ Go("stop", "halt_wait")
  /\ regs' = [regs EXCEPT !.inte = FALSE, !.run = @ /\ ~regs.halted]
  /\ UNCHANGED <<card, legsup, memory_pool, tables, init_err, sent>>

Stop ==
  /\ Go("stop", "halt_wait")
  /\ regs' = [regs EXCEPT !.inte = FALSE, !.run = @ /\ regs.halted]
  /\ UNCHANGED <<card, legsup, memory_pool, tables, init_err, sent>>

Halted ==
  /\ Go("halt_wait", "reset") /\ regs.halted
  /\ UNCHANGED <<card, legsup, memory_pool, tables, regs, init_err, sent>>

Reset ==
  /\ Go("reset", "reset_wait")
  /\ regs' = [regs EXCEPT !.hcrst = TRUE]
  /\ UNCHANGED <<card, legsup, memory_pool, tables, init_err, sent>>

\* Mutated: CNR is not awaited.
ResetDoneNotReady ==
  /\ Go("reset_wait", "slots") /\ ~regs.hcrst
  /\ UNCHANGED <<card, legsup, memory_pool, tables, regs, init_err, sent>>

ResetDone ==
  /\ \/ Go("reset_wait", "ready_wait") /\ ~regs.hcrst
     \/ Go("ready_wait", "slots") /\ ~regs.cnr
  /\ UNCHANGED <<card, legsup, memory_pool, tables, regs, init_err, sent>>

TakeController ==
  \/ InitializeDevmgr \/ RequestHCOwnership \/ OwnsHC \/ Stop \/ Halted \/ Reset \/ ResetDone

-----------------------------------------------------------------------------
(* Controller::Initialize: the structures in memory, and Run.              *)

EnableSlots ==
  /\ Go("slots", IF machine.scratchpads > 0 THEN "scratchpads" ELSE "dcbaap")
  /\ regs' = [regs EXCEPT !.slots = kDeviceSize]
  /\ UNCHANGED <<card, legsup, memory_pool, tables, init_err, sent>>

\* The array has room: the pool has given little away yet.
AllocScratchpads ==
  LET size == PointerSize * machine.scratchpads
      b == Alloc(alloc_ptr, size, 64, 4096)
  IN /\ b.mem # 0
     /\ Go("scratchpads", "pages")
     /\ Took(b, size, 64, 4096)
     /\ dcbaa' = [dcbaa EXCEPT !.zero = b.mem]
     /\ UNCHANGED <<card, legsup, scratch, erst, regs, init_err, sent>>

\* One turn of the loop.  A null page is stored like any other.
AllocScratchPage ==
  LET b == Alloc(alloc_ptr, 4096, 4096, 4096) IN
    /\ scratch' = Append(scratch, b.mem)
    /\ Go("pages", IF Len(scratch') = machine.scratchpads THEN "dcbaap" ELSE "pages")
    /\ Took(b, 4096, 4096, 4096)
    /\ UNCHANGED <<card, legsup, dcbaa, erst, regs, init_err, sent>>

\* The pointer fields of DCBAAP, CRCR and ERSTBA leave out six bits, that of ERDP
\* four.
Field(ptr, unit) == (ptr \div unit) * unit

RegisterCommandRing(r, ring) == [r EXCEPT !.crcr = Field(ring, 64)]

RegisterEventRing(r, ring, table) ==
  [r EXCEPT !.erstsz = 1, !.erdp = Field(ring, 16), !.erstba = Field(table, 64)]

WriteDCBAAP ==
  /\ Go("dcbaap", "cr")
  /\ regs' = [regs EXCEPT !.dcbaap = Field(dcbaa.ptr, 64)]
  /\ UNCHANGED <<card, legsup, memory_pool, tables, init_err, sent>>

\* cr_.Initialize and RegisterCommandRing
InitializeCommandRing ==
  LET size == TRBSize * RingSize
      b == Alloc(alloc_ptr, size, 64, 65536)
  IN /\ Took(b, size, 64, 65536)
     /\ \/ b.mem = 0 /\ Fail("cr") /\ regs' = regs
        \/ /\ b.mem # 0 /\ Go("cr", "er") /\ init_err' = init_err
           /\ regs' = RegisterCommandRing(regs, b.mem)
     /\ UNCHANGED <<card, legsup, tables, sent>>

\* EventRing::Initialize: the ring, its table, and the registers of interrupter 0.
InitializeEventRing ==
  LET size == TRBSize * RingSize
      b == Alloc(alloc_ptr, size, 64, 65536)
      t == Alloc(b.ptr, TRBSize, 64, 65536)
  IN \/ /\ b.mem = 0
        /\ Took(b, size, 64, 65536) /\ Fail("er")
        /\ UNCHANGED <<card, legsup, tables, regs, sent>>
     \/ /\ b.mem # 0 /\ t.mem = 0
        /\ alloc_ptr' = t.ptr /\ blocks' = blocks \cup {Block(b, size, 64, 65536)} /\ Fail("er")
        /\ UNCHANGED <<card, legsup, tables, regs, sent>>
     \/ /\ b.mem # 0 /\ t.mem # 0
        /\ alloc_ptr' = t.ptr
        /\ blocks' = blocks \cup {Block(b, size, 64, 65536), Block(t, TRBSize, 64, 65536)}
        /\ erst' = [base |-> b.mem, size |-> RingSize]
        /\ regs' = RegisterEventRing(regs, b.mem, t.mem)
        /\ Go("er", "enable")
        /\ UNCHANGED <<card, legsup, dcbaa, scratch, init_err, sent>>

EnableInterrupts ==
  /\ Go("enable", "run")
  /\ regs' = [regs EXCEPT !.ie = TRUE, !.inte = TRUE]
  /\ init_err' = "kSuccess"
  /\ UNCHANGED <<card, legsup, memory_pool, tables, sent>>

\* Mutated: a new value for USBCMD instead of the one that was read.
RunFresh ==
  /\ Go("run", "run_wait")
  /\ regs' = [regs EXCEPT !.run = TRUE, !.inte = FALSE]
  /\ UNCHANGED <<card, legsup, memory_pool, tables, init_err, sent>>

Run ==
  /\ Go("run", "run_wait")
  /\ regs' = [regs EXCEPT !.run = TRUE]
  /\ UNCHANGED <<card, legsup, memory_pool, tables, init_err, sent>>

Running ==
  /\ Go("run_wait", "sti") /\ ~regs.halted
  /\ UNCHANGED <<card, legsup, memory_pool, tables, regs, init_err, sent>>

SetUp ==
  \/ EnableSlots \/ AllocScratchpads \/ AllocScratchPage \/ WriteDCBAAP
  \/ InitializeCommandRing \/ InitializeEventRing \/ EnableInterrupts \/ Run \/ Running

-----------------------------------------------------------------------------
(* The controller and the firmware.                                        *)

HcHalt ==
  /\ ~regs.run /\ ~regs.halted
  /\ regs' = [regs EXCEPT !.halted = TRUE]
  /\ UNCHANGED <<step, card, legsup, memory_pool, tables, init_err, sent>>

HcStart ==
  /\ regs.run /\ regs.halted /\ ~regs.hcrst /\ ~regs.cnr
  /\ regs' = [regs EXCEPT !.halted = FALSE]
  /\ UNCHANGED <<step, card, legsup, memory_pool, tables, init_err, sent>>

HcReset ==
  /\ regs.hcrst
  /\ regs' = ResetRegs
  /\ UNCHANGED <<step, card, legsup, memory_pool, tables, init_err, sent>>

HcReady ==
  /\ regs.cnr
  /\ regs' = [regs EXCEPT !.cnr = FALSE]
  /\ UNCHANGED <<step, card, legsup, memory_pool, tables, init_err, sent>>

\* What the capability's registers make of a message.
MessageOf(m) == [addr |-> m.addr, upper |-> m.upper, data |-> m.data]

HcEvent ==
  /\ ~regs.halted /\ regs.inte /\ regs.ie /\ msi.enable
  /\ sent' = sent \cup {MessageOf(msi)}
  /\ UNCHANGED <<step, card, legsup, memory_pool, tables, regs, init_err>>

\* The firmware starts and stops its controller as it likes, but lets it settle
\* before it does so again or gives it up.
BiosRun ==
  /\ legsup.bios /\ regs.run = ~regs.halted /\ ~regs.hcrst /\ ~regs.cnr
  /\ regs' = [regs EXCEPT !.run = ~@]
  /\ UNCHANGED <<step, card, legsup, memory_pool, tables, init_err, sent>>

BiosRelease ==
  /\ legsup.os /\ legsup.bios /\ regs.run = ~regs.halted
  /\ legsup' = [legsup EXCEPT !.bios = FALSE]
  /\ UNCHANGED <<step, card, memory_pool, tables, regs, init_err, sent>>

Hardware == HcHalt \/ HcStart \/ HcReset \/ HcReady \/ HcEvent \/ BiosRun \/ BiosRelease
StartUp == Lookup \/ TakeController \/ SetUp

-----------------------------------------------------------------------------

StartUpTypeOK ==
  /\ step \in {"lookup", "astray", "msi_header", "msi_addr", "msi_data", "bar", "switch",
               "devmgr", "own", "own_wait", "stop", "halt_wait", "reset", "reset_wait",
               "ready_wait", "slots", "scratchpads", "pages", "dcbaap", "cr", "er", "enable",
               "run", "run_wait", "sti"}
  /\ machine \in Machines /\ routed \in BOOLEAN /\ mmio \in Nat
  /\ xhc = Null \/ xhc \in DOMAIN config
  /\ regs \in Regs /\ alloc_ptr \in Nat /\ legsup \in [os : BOOLEAN, bios : BOOLEAN]
  /\ scratch \in Seq(Nat) /\ Len(scratch) <= machine.scratchpads
  /\ init_err \in {"none", "kSuccess", "kNoEnoughMemory"}

(* The search through the bridges finds every function once and, with      *)
(* lookupXHC, a controller if the machine has one, and Intel's if it has   *)
(* one; the driver then works on that controller's registers and no other  *)
(* memory (ScanAllBus, lookupXHC, ReadBar).                                *)
BestController ==
  /\ ScanComplete
  /\ step # "lookup" /\ IsTree /\ scan_err = "kSuccess" =>
       LET all == {a \in Present : config[a].class = "xhc"} IN
         IF all = {} THEN xhc = Null
         ELSE xhc \in all /\ (config[xhc].intel \/ \A a \in all : ~config[a].intel)
  /\ step \notin {"lookup", "astray", "msi_header", "msi_addr", "msi_data", "bar"} =>
       mmio = machine.bar.base /\ Mapped(mmio)

Leads(r) == <<r.slots, r.dcbaap, r.crcr, r.erstsz, r.erstba, r.erdp>>

(* The controller is reset only when it is halted and nobody is left to    *)
(* start it (the comment at xhci.cpp:335, RequestHCOwnership), and the     *)
(* registers that lead to memory change only by the end of that reset or   *)
(* while it is halted and ready for them (Controller::Initialize).         *)
SetUpInOrder ==
  [][/\ ~regs.hcrst /\ regs'.hcrst => regs.halted /\ ~regs.run
     /\ Leads(regs) # Leads(regs') =>
          regs.halted /\ (regs.hcrst => ~regs'.hcrst) /\ ~regs.cnr]_startup

Message == [addr |-> "lapic", upper |-> "none", data |-> "vector"]

(* What memory.hpp:17-18 promises of AllocMem, over all blocks of a start: *)
(* aligned, across no boundary if it fits between two, inside the pool,    *)
(* and none overlaps another.                                              *)
PoolBlocksApart ==
  /\ \A b \in blocks :
       /\ b.alignment > 0 => b.mem % b.alignment = 0
       /\ b.boundary >= b.size /\ b.size > 0 =>
            b.mem \div b.boundary = (b.mem + b.size - 1) \div b.boundary
       /\ machine.pool <= b.mem /\ b.mem + b.size <= machine.pool + kMemoryPoolSize
  /\ \A b, c \in blocks : b = c \/ b.mem + b.size <= c.mem \/ c.mem + c.size <= b.mem

(* Wherever the linker puts it, the pool has room for a controller that    *)
(* wants 30 scratchpad pages, and for no more: with 31 the last page may   *)
(* be null although Initialize succeeds (xhci.cpp:363).                    *)
PoolSuffices ==
  step = "sti" /\ machine.scratchpads <= 30 => init_err = "kSuccess" /\ 0 \notin Range(scratch)

BlockAt(mem, size) == \E b \in blocks : b.mem = mem /\ b.size = size

(* When interrupts are enabled and Initialize has succeeded, the running   *)
(* controller finds the context array, the command ring, the event ring    *)
(* and its table in blocks of their own, where the driver keeps them, its  *)
(* interrupts lead to the handler, and its ports and the controller are    *)
(* the kernel's (Initialize, Run).                                         *)
RingsReachable ==
  step = "sti" /\ init_err = "kSuccess" =>
    /\ regs.run /\ regs.inte /\ regs.ie /\ regs.slots = kDeviceSize
    /\ regs.dcbaap = dcbaa.ptr /\ BlockAt(regs.dcbaap, PointerSize * (kDeviceSize + 1))
    /\ BlockAt(regs.crcr, TRBSize * RingSize)
    /\ regs.erdp = erst.base /\ BlockAt(regs.erdp, TRBSize * erst.size)
    /\ regs.erstsz = 1 /\ BlockAt(regs.erstba, TRBSize * regs.erstsz)
    /\ IsInjective(<<regs.dcbaap, regs.crcr, regs.erdp, regs.erstba>>)
    /\ machine.scratchpads > 0 => BlockAt(dcbaa.zero, PointerSize * Len(scratch))
    /\ ~legsup.bios
    /\ MSICaps # <<>> => msi.enable /\ MessageOf(msi) = Message

(* The blocks of the pool are what AllocMem promises, Initialize does not  *)
(* run out of them on a controller that wants up to 30 pages, its success  *)
(* means that the controller works with the driver, and no message goes    *)
(* out before all of it is written, though it is enabled first (AllocMem,  *)
(* Controller::Initialize, Run, WriteMSICapability).                       *)
ReadyForEvents ==
  /\ PoolBlocksApart
  /\ PoolSuffices
  /\ RingsReachable
  /\ \A m \in sent : m = Message
=============================================================================
