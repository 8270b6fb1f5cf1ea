----------------------------- MODULE BootProofs ------------------------------
(***************************************************************************)
(* What TLAPS proves of Boot: the loader hands over what the kernel needs, *)
(* the types, the order in which the controller is taken and set up, the   *)
(* blocks of the USB pool, how far the pool is used, that a start that     *)
(* reports success is one after which interrupts work, and that the search *)
(* for PCI functions finds the controller it should.                       *)
(*                                                                         *)
(* Each part strengthens its property to an inductive invariant. They come *)
(* in the order of what they rest on: loader, types, the order of the      *)
(* start, the pool, its room, the registers that lead into it, interrupts, *)
(* the search and the choice.                                              *)
(***************************************************************************)
EXTENDS Boot, SequenceTheorems, FiniteSetTheorems, TLAPS

LEMMA LeastNat ==
  ASSUME NEW S \in SUBSET Nat, S # {}
  PROVE  /\ Min(S) \in S
         /\ \A n \in S : Min(S) <= n
<1> DEFINE T == {0 .. n : n \in S}
           R == StrictSubsetOrdering(Nat)
<1>1. IsWellFoundedOn(R, FiniteSubsetsOf(Nat))
  BY FS_StrictSubsetOrderingWellFounded
<1>2. T \subseteq FiniteSubsetsOf(Nat) /\ T # {}
  <2>1. \A n \in S : IsFiniteSet(0 .. n) /\ 0 .. n \subseteq Nat
    BY FS_Interval
  <2> QED
    BY <2>1 DEF FiniteSubsetsOf
<1>3. PICK i \in T : \A j \in T : ~(<<j, i>> \in R)
  <2> HIDE DEF T, R
  <2> QED
    BY <1>1, <1>2, WFMin
<1>4. PICK m \in S : i = 0 .. m
  OBVIOUS
<1>5. ASSUME NEW n \in S, n < m PROVE FALSE
  <2>1. 0 .. n \subseteq 0 .. m /\ m \in 0 .. m /\ m \notin 0 .. n
    BY <1>5
  <2>2. <<0 .. n, 0 .. m>> \in R
    BY <2>1 DEF StrictSubsetOrdering
  <2> QED
    BY <2>2, <1>3, <1>4
<1>6. \A n \in S : m <= n
  BY <1>5
<1> QED
  BY <1>6 DEF Min

LEMMA GreatestNat ==
  ASSUME NEW b \in Nat, NEW S \in SUBSET (0 .. b), S # {}
  PROVE  /\ Max(S) \in S
         /\ \A n \in S : n <= Max(S)
<1> DEFINE T == {b - n : n \in S}
<1>1. T \in SUBSET Nat /\ T # {}
  <2>1. \A n \in S : b - n \in Nat
    OBVIOUS
  <2> QED
    BY <2>1
<1>2. PICK t \in T : \A n \in T : t <= n
  <2> HIDE DEF T
  <2> QED
    BY <1>1, LeastNat
<1>3. PICK m \in S : t = b - m
  OBVIOUS
<1>4. \A n \in S : n <= m
  <2> TAKE n \in S
  <2>1. b - m <= b - n
    BY <1>2, <1>3
  <2> QED
    BY <2>1
<1> QED
  BY <1>4 DEF Max

LEMMA DivMod ==
  ASSUME NEW x \in Int, NEW p \in Nat \ {0}
  PROVE  /\ x \div p \in Int /\ x % p \in 0 .. p - 1
         /\ x = (p * (x \div p)) + (x % p)
OBVIOUS

LEMMA LastUnaligned ==
  ASSUME NEW x \in Nat, NEW p \in Nat \ {0, 1}, x % p = 0
  PROVE  (x - 1) % p # 0
<1>1. SUFFICES ASSUME (x - 1) % p = 0 PROVE FALSE
  OBVIOUS
<1> DEFINE a == x \div p
           b == (x - 1) \div p
<1>2. a \in Int /\ b \in Int /\ x = p * a /\ x - 1 = p * b
  BY <1>1, DivMod
<1> HIDE DEF a, b
<1>3. p * (a - b) = 1
  BY <1>2
<1>4. CASE a - b >= 1
  <2>1. p * (a - b) >= p
    BY <1>2, <1>4
  <2> QED
    BY <2>1, <1>3
<1>5. CASE a - b <= 0
  <2>1. p * (a - b) <= 0
    BY <1>2, <1>5
  <2> QED
    BY <2>1, <1>3
<1> QED
  BY <1>2, <1>4, <1>5
LEMMA Covers ==
  ASSUME NEW x \in Nat, NEW p \in Nat \ {0}, NEW m \in Nat, x + p - 1 < m
  PROVE  /\ ((x + p - 1) % m) \div p \in Int
         /\ x <= (((x + p - 1) % m) \div p) * p
<1>1. (x + p - 1) % m = x + p - 1
  OBVIOUS
<1> DEFINE y == x + p - 1
<1>2. y \in Int /\ y >= 0
  OBVIOUS
<1>3. y \div p \in Int /\ y % p \in 0 .. p - 1 /\ y = (p * (y \div p)) + (y % p)
  BY <1>2, DivMod
<1>4. x <= (y \div p) * p
  <2> DEFINE q == y \div p
  <2> HIDE DEF q
  <2>1. q \in Int /\ y <= (p * q) + p - 1
    BY <1>3 DEF q
  <2>2. p * q = q * p
    BY <2>1
  <2> QED
    BY <2>1, <2>2 DEF q
<1> QED
  BY <1>1, <1>3, <1>4

-----------------------------------------------------------------------------
(* The search and the types.                                               *)

Position == Nat \X (0 .. NumDevices) \X (0 .. NumFunctions - 1)

\* Under a nested ScanBus stands the bridge that led there.
ScanInv ==
  /\ config \in ConfigSpaces
  /\ roots \subseteq Nat
  /\ stack \in Seq(Position)
  /\ \A i \in 1 .. Len(stack) - 1 : stack[i] \in DOMAIN config
  /\ devices \in Seq(DOMAIN config) /\ Len(devices) <= MaxDevices
  /\ scan_err \in {"kSuccess", "kFull"}

BeforeDevmgr ==
  {"lookup", "astray", "msi_header", "msi_addr", "msi_data", "bar", "switch", "devmgr"}
BeforeStop == BeforeDevmgr \cup {"own", "own_wait"}
BeforeSlots == BeforeStop \cup {"stop", "halt_wait", "reset", "reset_wait", "ready_wait"}
Started == {"run", "run_wait", "sti"}

\* The loop over the scratchpad pages ends with the last one.
ScratchInv ==
  /\ dcbaa \in [ptr : Nat, zero : Nat]
  /\ step \in BeforeSlots \cup {"slots", "scratchpads"} => scratch = <<>>
  /\ step \in {"scratchpads", "pages"} => Len(scratch) < machine.scratchpads
  /\ step \in {"dcbaap", "cr", "er", "enable"} \cup Started =>
       Len(scratch) = machine.scratchpads

-----------------------------------------------------------------------------
(* The order of the start.                                                 *)

\* The firmware keeps the controller only until the kernel has it, and gives it
\* up settled.
OwnerInv ==
  /\ legsup.bios => machine.legacy /\ step \in BeforeStop /\ (step # "own_wait" => ~legsup.os)
  /\ ~legsup.bios /\ step \in BeforeStop \cup {"stop"} => (regs.run <=> ~regs.halted)

\* From the end of halt_wait to Run the controller is halted and told to stay so;
\* it resets and is not ready only behind Reset.
QuietInv ==
  /\ step = "halt_wait" => ~regs.run
  /\ step \notin BeforeStop \cup {"stop", "halt_wait", "run_wait", "sti"} =>
       regs.halted /\ ~regs.run
  /\ regs.hcrst => step = "reset_wait" /\ ~regs.cnr
  /\ regs.cnr => step \in {"reset_wait", "ready_wait"}

-----------------------------------------------------------------------------
(* The pool.                                                               *)

\* What AllocMem promises of a block.
Promised(b) ==
  /\ b.alignment > 0 => b.mem % b.alignment = 0
  /\ b.boundary >= b.size /\ b.size > 0 =>
       b.mem \div b.boundary = (b.mem + b.size - 1) \div b.boundary
  /\ machine.pool <= b.mem /\ b.mem + b.size <= machine.pool + kMemoryPoolSize

\* The blocks lie below the pointer, in the order in which they were given.
PoolSound(bs, ptr) ==
  /\ ptr \in Nat /\ machine.pool <= ptr
  /\ \A b \in bs :
       b.mem \in Nat /\ b.size \in Nat \ {0} /\ b.mem + b.size <= ptr /\ Promised(b)
  /\ \A b, c \in bs : b = c \/ b.mem + b.size <= c.mem \/ c.mem + c.size <= b.mem

PoolInv ==
  /\ PoolSound(blocks, alloc_ptr)
  /\ step \in BeforeDevmgr => blocks = {}

\* The sizes that the kernel is built with.
KernelSizes == kMemoryPoolSize >= 131072 /\ kDeviceSize <= 8 /\ RingSize <= 32

\* A block moves up by less than its alignment and, to stay within a boundary, by
\* less than its own size; a page only by what the first one is away from the
\* next multiple of 4096.
RoomInv ==
  LET used == alloc_ptr - machine.pool IN
    /\ step \in BeforeDevmgr => used = 0
    /\ step \notin BeforeDevmgr \cup {"pages", "dcbaap", "cr", "er", "enable"} \cup Started =>
         used <= 278
    /\ machine.scratchpads <= 30 =>
         /\ step = "pages" =>
              IF scratch = <<>> THEN used <= 820
              ELSE used <= 820 + 4095 + 4096 * Len(scratch) /\ alloc_ptr % 4096 = 0
         /\ step \in {"dcbaap", "cr"} => used <= 127795
         /\ step = "er" => used <= 128881
         /\ 0 \notin Range(scratch)
         /\ init_err # "kNoEnoughMemory"
         /\ step \in Started => init_err = "kSuccess"

-----------------------------------------------------------------------------
(* What the registers lead to.                                             *)

\* init_err is what Initialize returns, which it does at the end.
ResultInv ==
  /\ step \notin Started => init_err = "none"
  /\ step \in Started => init_err # "none"

Succeeded == step \in Started /\ init_err = "kSuccess"

ContextsInv ==
  /\ step \notin BeforeDevmgr =>
       BlockAt(dcbaa.ptr, PointerSize * (kDeviceSize + 1)) /\ dcbaa.ptr % 64 = 0
  /\ step \notin BeforeSlots \cup {"slots"} => regs.slots = kDeviceSize
  /\ step \notin BeforeSlots \cup {"slots", "scratchpads"} /\ machine.scratchpads > 0 =>
       BlockAt(dcbaa.zero, PointerSize * machine.scratchpads)
  /\ step \in {"cr", "er", "enable"} \/ Succeeded => regs.dcbaap = dcbaa.ptr

CommandRingInv ==
  step \in {"er", "enable"} \/ Succeeded =>
    BlockAt(regs.crcr, TRBSize * RingSize) /\ regs.crcr # regs.dcbaap

EventRingInv ==
  step = "enable" \/ Succeeded =>
    /\ regs.erdp = erst.base /\ erst.size = RingSize /\ regs.erstsz = 1
    /\ BlockAt(regs.erdp, TRBSize * RingSize) /\ BlockAt(regs.erstba, TRBSize)
    /\ IsInjective(<<regs.dcbaap, regs.crcr, regs.erdp, regs.erstba>>)

\* Interrupts are on only when Initialize has succeeded, and stay on.
EnabledInv ==
  /\ step \notin Started => ~regs.ie
  /\ Succeeded => regs.ie /\ regs.inte
  /\ step \in {"run_wait", "sti"} => regs.run

BeforeBar == {"lookup", "astray", "msi_header", "msi_addr", "msi_data"}

MsiRegs == [enable : BOOLEAN, addr : {"none", "lapic"}, upper : {"none", "vector"},
            data : {"none", "vector"}]

\* The message is written before that, if there is a capability for it.
MsiInv ==
  /\ msi \in MsiRegs /\ msi.upper = "none"
  /\ step \in {"lookup", "msi_header"} => ~msi.enable
  /\ step \in {"msi_addr", "msi_data"} => MSICaps # <<>> /\ msi.enable
  /\ step = "msi_data" => msi.addr = "lapic"
  /\ step \notin BeforeBar =>
       IF MSICaps = <<>> THEN ~msi.enable ELSE msi.enable /\ MessageOf(msi) = Message
  /\ \A m \in sent : m = Message

\* The calls of UefiMain behind AllocatePages, behind CopyLoadSegments and behind
\* ExitBootServicesWithRetry.
BehindPages == {"copy", "free", "exit", "retry", "exit_again", "enter", "kernel"}
BehindCopy == BehindPages \ {"copy"}
BehindExit == {"enter", "kernel"}

(* The program headers that were read are in memory. *)
Copied ==
  \A i \in 1 .. segment - 1 : image.segments[i].load =>
    \A a \in Bytes(image.segments[i]) :
      a \in DOMAIN memory /\ memory[a] = Byte(image.segments[i], a)

PagesTaken ==
  loader \in BehindPages =>
    FirstAddr % Page = 0 /\ pages = FirstAddr .. FirstAddr + NumPages * Page - 1

(* A map with the firmware's key is the firmware's map. *)
MapKnown ==
  /\ key \in Nat /\ memmap.key \in Int /\ memmap.key <= key
  /\ memmap.key = key => memmap.listed = pages

ServicesEnd ==
  /\ services <=> loader \notin BehindExit
  /\ ~services => memmap.key = key

LoaderInv ==
  /\ image \in Images /\ segment \in Nat \ {0}
  /\ Copied
  /\ PagesTaken
  /\ loader \in BehindCopy => segment > Len(image.segments)
  /\ MapKnown
  /\ ServicesEnd
  /\ loader = "kernel" => entry = image.entry

LEMMA LoadedSegments ==
  ASSUME image \in Images
  PROVE  /\ image.segments \in Seq(Segment)
         /\ \A s \in Loads(image) :
              /\ s \in Segment /\ s.load
              /\ \E i \in 1 .. Len(image.segments) : s = image.segments[i]
         /\ \A i \in 1 .. Len(image.segments) :
              image.segments[i].load => image.segments[i] \in Loads(image)
<1>1. image.segments \in Seq(Segment)
  BY BootLoaderAssumption
<1>2. ToSet(image.segments) = {image.segments[i] : i \in 1 .. Len(image.segments)}
  BY <1>1 DEF ToSet
<1>3. \A i \in 1 .. Len(image.segments) : image.segments[i] \in Segment
  BY <1>1
<1> QED
  BY <1>1, <1>2, <1>3 DEF Loads

LEMMA AddressRange ==
  ASSUME image \in Images
  PROVE  /\ FirstAddr \in Nat /\ LastAddr \in Nat
         /\ \A s \in Loads(image) : FirstAddr <= s.vaddr /\ s.vaddr + s.memsz <= LastAddr
         /\ FirstAddr = Addresses - 1
            \/ \E s \in Loads(image) : s.vaddr = FirstAddr
         /\ Loads(image) # {} =>
              /\ \E s \in Loads(image) : s.vaddr = FirstAddr
              /\ LastAddr + Page <= Addresses
<1> DEFINE F == {s.vaddr : s \in Loads(image)} \cup {Addresses - 1}
           L == {s.vaddr + s.memsz : s \in Loads(image)} \cup {0}
<1>1. \A s \in Loads(image) :
        /\ s.vaddr \in Nat /\ s.memsz \in Nat
        /\ s.vaddr + s.memsz + Page <= Addresses
  BY LoadedSegments, BootLoaderAssumption DEF Segment
<1>2. Page \in Nat /\ Page > 1 /\ Addresses \in Nat /\ Addresses > 0
  BY BootLoaderAssumption
<1>3. F \in SUBSET Nat /\ F # {}
  BY <1>1, <1>2
<1>4. L \in SUBSET (0 .. Addresses) /\ L # {}
  <2>1. \A s \in Loads(image) : s.vaddr + s.memsz \in 0 .. Addresses
    BY <1>1, <1>2
  <2> QED
    BY <1>2, <2>1
<1>5. FirstAddr \in F /\ \A n \in F : FirstAddr <= n
  BY <1>3, LeastNat DEF FirstAddr
<1>6. LastAddr \in L /\ \A n \in L : n <= LastAddr
  BY <1>2, <1>4, GreatestNat DEF LastAddr
<1>7. ASSUME Loads(image) # {}
      PROVE  /\ \E s \in Loads(image) : s.vaddr = FirstAddr
             /\ LastAddr + Page <= Addresses
  <2>1. PICK s \in Loads(image) : TRUE
    BY <1>7
  <2>2. s.vaddr \in F /\ s.vaddr < Addresses - 1 /\ s.vaddr + s.memsz \in L
    BY <1>1, <1>2
  <2>3. FirstAddr # Addresses - 1
    <3>1. FirstAddr \in Nat /\ FirstAddr <= s.vaddr
      <4> HIDE DEF F
      <4> QED
        BY <1>3, <1>5, <2>2
    <3> QED
      BY <1>1, <1>2, <2>2, <3>1
  <2>4. LastAddr = 0 \/ \E t \in Loads(image) : LastAddr = t.vaddr + t.memsz
    BY <1>6
  <2>5. LastAddr + Page <= Addresses
    BY <1>1, <1>2, <2>1, <2>4
  <2> QED
    BY <1>5, <2>3, <2>5
<1> QED
  BY <1>3, <1>4, <1>5, <1>6, <1>7

(* AllocatePages takes only the image of a file that has a segment to load. *)
LEMMA AlignedHasSegment ==
  ASSUME image \in Images, FirstAddr % Page = 0
  PROVE  Loads(image) # {}
<1>1. SUFFICES ASSUME FirstAddr = Addresses - 1 PROVE FALSE
  BY AddressRange
<1>2. Addresses \in Nat /\ Page \in Nat \ {0, 1} /\ Addresses % Page = 0
  BY BootLoaderAssumption
<1> QED
  BY <1>1, <1>2, LastUnaligned

(* The pages that AllocatePages asks for hold every LOAD segment. *)
LEMMA SegmentsInPages ==
  ASSUME image \in Images, NEW s \in Loads(image), NEW a \in Bytes(s)
  PROVE  a \in FirstAddr .. FirstAddr + NumPages * Page - 1
<1>1. Page \in Nat \ {0} /\ Addresses \in Nat
  BY BootLoaderAssumption
<1>2. s.vaddr \in Nat /\ s.memsz \in Nat /\ a \in Int
      /\ s.vaddr <= a /\ a <= s.vaddr + s.memsz - 1
  BY LoadedSegments DEF Segment, Bytes
<1>3. FirstAddr \in Nat /\ LastAddr \in Nat /\ FirstAddr <= s.vaddr
      /\ s.vaddr + s.memsz <= LastAddr /\ LastAddr + Page <= Addresses
  BY AddressRange
<1> DEFINE x == LastAddr - FirstAddr
<1>4. x \in Nat /\ x + Page - 1 < Addresses
  BY <1>1, <1>2, <1>3
<1>5. NumPages \in Int /\ x <= NumPages * Page
  BY <1>1, <1>4, Covers DEF NumPages
<1> DEFINE y == NumPages * Page
<1>6. y \in Int
  BY <1>1, <1>5
<1> HIDE DEF y
<1>7. x <= y
  BY <1>5 DEF y
<1> QED
  BY <1>1, <1>2, <1>3, <1>6, <1>7 DEF y

LEMMA LoaderInitially == Init => LoaderInv
<1> SUFFICES ASSUME Init PROVE LoaderInv
  OBVIOUS
<1>1. PICK s \in Systems : LoaderInit(s.file)
  BY DEF Init
<1>2. s.file \in Images
  BY BootAssumption
<1> QED
  BY <1>1, <1>2 DEF LoaderInit, LoaderInv, Copied, PagesTaken, MapKnown, ServicesEnd,
    BehindPages, BehindCopy, BehindExit

LEMMA HeaderCopied ==
  ASSUME LoaderInv, loader = "enter"
  PROVE  memory[FirstAddr + EntryOffset] = <<"file", EntryOffset>>
<1>1. image \in Images /\ FirstAddr % Page = 0
      /\ segment \in Nat /\ segment > Len(image.segments) /\ Copied
  BY DEF LoaderInv, PagesTaken, BehindPages, BehindCopy
<1>2. PICK s \in Loads(image) : s.vaddr = FirstAddr
  BY <1>1, AddressRange, AlignedHasSegment
<1>3. s.offset = 0 /\ s.filesz > EntryOffset /\ s.filesz <= s.memsz
  <2>1. \A t \in Loads(image) : s.vaddr <= t.vaddr
    BY <1>1, <1>2, AddressRange
  <2> QED
    BY <1>1, <2>1, BootLoaderAssumption
<1>4. PICK i \in 1 .. Len(image.segments) : s = image.segments[i]
  BY <1>1, LoadedSegments
<1>5. s \in Segment /\ s.load /\ i \in 1 .. segment - 1
  BY <1>1, <1>4, LoadedSegments
<1>6. EntryOffset \in Nat
  BY BootLoaderAssumption
<1>7. FirstAddr + EntryOffset \in Bytes(s) /\ FirstAddr + EntryOffset < s.vaddr + s.filesz
      /\ s.offset + (FirstAddr + EntryOffset) - s.vaddr = EntryOffset
  BY <1>2, <1>3, <1>5, <1>6 DEF Segment, Bytes
<1>8. memory[FirstAddr + EntryOffset] = Byte(s, FirstAddr + EntryOffset)
  BY <1>1, <1>4, <1>5, <1>7 DEF Copied
<1> QED
  BY <1>7, <1>8 DEF Byte

(* A segment that is copied leaves those copied before alone: they do not
   overlap. *)
LEMMA CopyKeeps ==
  ASSUME LoaderInv, CopySegment
  PROVE  Copied'
<1>1. image \in Images /\ segment \in Nat /\ segment > 0 /\ Copied
      /\ segment <= Len(image.segments) /\ segment' = segment + 1 /\ image' = image
  BY DEF LoaderInv, CopySegment
<1> DEFINE s == image.segments[segment]
<1>2. CASE ~s.load
  <2>1. memory' = memory
    BY <1>2 DEF CopySegment
  <2>2. \A i \in 1 .. segment' - 1 : i \in 1 .. segment - 1 \/ i = segment
    BY <1>1
  <2> QED
    BY <1>1, <1>2, <2>1, <2>2 DEF Copied, Bytes, Byte
<1>3. CASE s.load
  <2>1. memory' = [a \in Bytes(s) \cup DOMAIN memory |->
                     IF a \in Bytes(s) THEN Byte(s, a) ELSE memory[a]]
    BY <1>3 DEF CopySegment
  <2>2. image.segments \in Seq(Segment)
    BY <1>1, BootLoaderAssumption
  <2>3. segment \in 1 .. Len(image.segments)
    BY <1>1, <2>2
  <2>4. s \in Loads(image)
    BY <1>1, <1>3, <2>3, LoadedSegments
  <2> SUFFICES ASSUME NEW i \in 1 .. segment' - 1, image.segments[i].load,
                      NEW a \in Bytes(image.segments[i])
               PROVE  a \in DOMAIN memory' /\ memory'[a] = Byte(image.segments[i], a)
    BY <1>1 DEF Copied, Bytes, Byte
  <2> DEFINE t == image.segments[i]
  <2>5. t \in Loads(image)
    BY <1>1, <2>2, <2>3, LoadedSegments
  <2> HIDE DEF s, t
  <2>6. CASE a \in Bytes(s)
    <3>1. s = t
      <4>1. a \in Bytes(t)
        BY DEF t
      <4>2. s = t \/ Bytes(s) \cap Bytes(t) = {}
        BY <1>1, <2>4, <2>5, BootLoaderAssumption
      <4> QED
        BY <2>6, <4>1, <4>2
    <3>2. a \in DOMAIN memory' /\ memory'[a] = Byte(s, a)
      BY <2>1, <2>6
    <3> QED
      BY <3>1, <3>2 DEF t
  <2>7. CASE a \notin Bytes(s)
    <3>1. i # segment
      BY <2>7 DEF s
    <3>2. i \in 1 .. segment - 1
      BY <1>1, <3>1
    <3>3. a \in DOMAIN memory /\ memory[a] = Byte(t, a)
      BY <1>1, <3>2 DEF Copied, t
    <3> QED
      BY <2>1, <2>7, <3>3 DEF t
  <2> QED
    BY <2>6, <2>7
<1> QED
  BY <1>2, <1>3

LEMMA CopyStep ==
  ASSUME LoaderInv, CopySegment
  PROVE  LoaderInv'
<1>1. image' = image /\ loader' = "copy" /\ loader = "copy" /\ segment' = segment + 1
      /\ UNCHANGED <<key, services, pages, memmap, entry>>
  BY DEF CopySegment
<1>2. Copied'
  BY CopyKeeps
<1>3. PagesTaken'
  BY <1>1 DEF LoaderInv, PagesTaken, FirstAddr, NumPages, LastAddr, Loads
<1> QED
  BY <1>1, <1>2, <1>3 DEF LoaderInv, MapKnown, ServicesEnd, BehindCopy

LEMMA LoaderStep == LoaderInv /\ [Next]_vars => LoaderInv'
<1> SUFFICES ASSUME LoaderInv, [Next]_vars PROVE LoaderInv'
  OBVIOUS
<1> USE DEF LoaderInv, BehindPages, BehindCopy, BehindExit, Call
<1>1. CASE UNCHANGED boot
  BY <1>1 DEF boot, Copied, PagesTaken, MapKnown, ServicesEnd, FirstAddr, NumPages, LastAddr,
    Loads, Bytes, Byte
<1>2. ASSUME UNCHANGED <<image, segment, memory>>
      PROVE  Copied'
  BY <1>2 DEF Copied, Bytes, Byte
<1>3. ASSUME UNCHANGED <<image, pages>>, loader' \in BehindPages => loader \in BehindPages
      PROVE  PagesTaken'
  BY <1>3 DEF PagesTaken, FirstAddr, NumPages, LastAddr, Loads
<1>4. CASE Halt
  <2>1. Copied' /\ PagesTaken'
    BY <1>2, <1>3, <1>4 DEF Halt
  <2> QED
    BY <1>4, <2>1 DEF Halt, MapKnown, ServicesEnd
<1>5. CASE FirstMap
  <2>1. Copied' /\ PagesTaken'
    BY <1>2, <1>3, <1>5 DEF FirstMap
  <2> QED
    BY <1>5, <2>1 DEF FirstMap, GetMemorymap, MapKnown, ServicesEnd
<1>6. CASE OpenFiles
  <2> USE DEF OpenRootDir, SaveMemoryMap, OpenGOP, ReadKernel
  <2>1. Copied' /\ PagesTaken'
    BY <1>2, <1>3, <1>6 DEF OpenFiles
  <2> QED
    BY <1>6, <2>1 DEF OpenFiles, MapKnown, ServicesEnd
<1>7. CASE AllocatePages
  <2>1. Copied'
    BY <1>2, <1>7 DEF AllocatePages
  <2>2. PagesTaken'
    BY <1>7 DEF AllocatePages, PagesTaken, FirstAddr, NumPages, LastAddr, Loads
  <2>3. MapKnown'
    BY <1>7 DEF AllocatePages, MapKnown
  <2>4. ServicesEnd'
    BY <1>7 DEF AllocatePages, ServicesEnd
  <2> QED
    BY <1>7, <2>1, <2>2, <2>3, <2>4 DEF AllocatePages
<1>8. CASE CopySegment
  BY <1>8, CopyStep
<1>9. CASE CopyEnds
  <2>1. Copied' /\ PagesTaken'
    BY <1>2, <1>3, <1>9 DEF CopyEnds
  <2> QED
    BY <1>9, <2>1 DEF CopyEnds, MapKnown, ServicesEnd
<1>10. CASE FreePool
  <2>1. Copied' /\ PagesTaken'
    BY <1>2, <1>3, <1>10 DEF FreePool
  <2> QED
    BY <1>10, <2>1 DEF FreePool, MapKnown, ServicesEnd
<1>11. CASE ExitBootServices
  <2>1. Copied' /\ PagesTaken'
    BY <1>2, <1>3, <1>11 DEF ExitBootServices
  <2> QED
    BY <1>11, <2>1 DEF ExitBootServices, MapKnown, ServicesEnd
<1>12. CASE Retry
  <2>1. Copied' /\ PagesTaken'
    BY <1>2, <1>3, <1>12 DEF Retry
  <2> QED
    BY <1>12, <2>1 DEF Retry, GetMemorymap, MapKnown, ServicesEnd
<1>13. CASE EnterKernel
  <2>1. Copied' /\ PagesTaken'
    BY <1>2, <1>3, <1>13 DEF EnterKernel
  <2>2. entry' = image'.entry
    BY <1>13, HeaderCopied DEF EnterKernel
  <2> QED
    BY <1>13, <2>1, <2>2 DEF EnterKernel, MapKnown, ServicesEnd
<1>14. CASE FirmwareChanges
  <2>1. Copied' /\ PagesTaken'
    BY <1>2, <1>3, <1>14 DEF FirmwareChanges
  <2>2. MapKnown'
    BY <1>14 DEF FirmwareChanges, MapKnown
  <2>3. ServicesEnd'
    BY <1>14 DEF FirmwareChanges, ServicesEnd
  <2> QED
    BY <1>14, <2>1, <2>2, <2>3 DEF FirmwareChanges
<1> QED
  BY <1>1, <1>4, <1>5, <1>6, <1>7, <1>8, <1>9, <1>10, <1>11, <1>12, <1>13, <1>14
  DEF Next, Load, Firmware, ScanAllBus, KernelMain, Environment, UefiMain, vars

LEMMA LoaderAlways == Spec => []LoaderInv
BY LoaderInitially, LoaderStep, PTL DEF Spec

(* The kernel that is entered is whole, and the memory map handed to it is
   the firmware's last and lists the kernel's own pages
   (CopyLoadSegments, ExitBootServicesWithRetry, UefiMain). *)
THEOREM HandOverHolds == Spec => []HandOver
<1>1. ASSUME LoaderInv PROVE HandOver
  <2>1. image \in Images
    BY <1>1 DEF LoaderInv
  <2>2. KernelImageWhole
    <3> SUFFICES ASSUME loader = "kernel"
                 PROVE  /\ \A s \in Loads(image) : \A a \in Bytes(s) :
                             /\ a \in pages
                             /\ memory[a] = IF a - s.vaddr < s.filesz
                                            THEN <<"file", s.offset + a - s.vaddr>>
                                            ELSE <<"zero">>
                        /\ entry = image.entry
      BY DEF KernelImageWhole
    <3>1. segment \in Nat /\ segment > Len(image.segments) /\ Copied /\ PagesTaken
          /\ entry = image.entry
      BY <1>1 DEF LoaderInv, BehindPages, BehindCopy
    <3>2. ASSUME NEW s \in Loads(image), NEW a \in Bytes(s)
          PROVE  memory[a] = IF a - s.vaddr < s.filesz
                             THEN <<"file", s.offset + a - s.vaddr>> ELSE <<"zero">>
      <4>1. PICK i \in 1 .. Len(image.segments) : s = image.segments[i]
        BY <2>1, LoadedSegments
      <4>2. s \in Segment /\ s.load /\ i \in 1 .. segment - 1
        BY <2>1, <3>1, <4>1, LoadedSegments
      <4>3. memory[a] = Byte(s, a)
        BY <3>1, <4>1, <4>2 DEF Copied
      <4>4. (a < s.vaddr + s.filesz) <=> (a - s.vaddr < s.filesz)
        BY <4>2 DEF Segment, Bytes
      <4> QED
        BY <4>3, <4>4 DEF Byte
    <3>3. ASSUME NEW s \in Loads(image), NEW a \in Bytes(s) PROVE a \in pages
      BY <2>1, <3>1, SegmentsInPages DEF PagesTaken, BehindPages
    <3> QED
      BY <3>1, <3>2, <3>3
  <2>3. ASSUME ~services
        PROVE  memmap.key = key /\ Loads(image) # {} /\ memmap.listed = pages
    BY <1>1, <2>1, <2>3, AlignedHasSegment
    DEF LoaderInv, ServicesEnd, MapKnown, PagesTaken, BehindPages, BehindExit
  <2> QED
    BY <2>2, <2>3 DEF HandOver
<1> QED
  BY <1>1, LoaderAlways, PTL
LEMMA LoaderTypesInitially == Init => LoaderTypeOK
<1> SUFFICES ASSUME Init PROVE LoaderTypeOK
  OBVIOUS
<1>1. PICK s \in Systems : LoaderInit(s.file)
  BY DEF Init
<1>2. s.file \in Images /\ s.file.segments \in Seq(Segment)
  BY BootAssumption, BootLoaderAssumption
<1>3. 1 \in 1 .. Len(s.file.segments) + 1
  BY <1>2
<1> QED
  BY <1>1, <1>2, <1>3 DEF LoaderInit, LoaderTypeOK

LEMMA LoaderTypesStep == LoaderTypeOK /\ [Next]_vars => LoaderTypeOK'
<1> SUFFICES ASSUME LoaderTypeOK, [Next]_vars PROVE LoaderTypeOK'
  OBVIOUS
<1> USE DEF LoaderTypeOK, Call
<1>1. image.entry \in Nat /\ Len(image.segments) \in Nat
  BY BootLoaderAssumption
<1>2. CASE UNCHANGED boot
  BY <1>2 DEF boot
<1>3. CASE Halt \/ OpenFiles \/ CopyEnds \/ FreePool
  BY <1>3 DEF Halt, OpenFiles, OpenRootDir, SaveMemoryMap, OpenGOP, ReadKernel, CopyEnds,
    FreePool
<1>4. CASE FirstMap \/ Retry
  <2>1. memmap' = [key |-> key, listed |-> pages]
        /\ loader' \in {"root", "exit_again"}
        /\ UNCHANGED <<image, key, services, pages, segment, entry>>
    BY <1>4 DEF FirstMap, Retry, GetMemorymap
  <2>2. memmap'.key \in Int /\ memmap'.listed \subseteq Nat
    BY <2>1
  <2> QED
    BY <2>1, <2>2
<1>5. CASE AllocatePages
  <2>1. FirstAddr \in Nat /\ LastAddr \in Nat /\ Page \in Nat \ {0} /\ Addresses \in Nat \ {0}
    BY AddressRange, BootLoaderAssumption
  <2>2. (LastAddr - FirstAddr + Page - 1) % Addresses \in Int
    BY <2>1, DivMod
  <2>3. NumPages \in Int
    BY <2>1, <2>2, DivMod DEF NumPages
  <2>4. NumPages * Page \in Int
    BY <2>1, <2>3
  <2>5. pages' \subseteq Nat
    BY <1>5, <2>1, <2>4 DEF AllocatePages
  <2>6. loader' = "copy" /\ key' = key + 1
        /\ UNCHANGED <<image, services, memmap, segment, entry>>
    BY <1>5 DEF AllocatePages
  <2> QED
    BY <2>5, <2>6
<1>6. CASE CopySegment
  BY <1>1, <1>6 DEF CopySegment
<1>7. CASE ExitBootServices
  BY <1>7 DEF ExitBootServices
<1>8. CASE EnterKernel
  BY <1>1, <1>8 DEF EnterKernel
<1>9. CASE FirmwareChanges
  BY <1>9 DEF FirmwareChanges
<1> QED
  BY <1>2, <1>3, <1>4, <1>5, <1>6, <1>7, <1>8, <1>9
  DEF Next, Load, Firmware, ScanAllBus, KernelMain, Environment, UefiMain, vars

LEMMA LoaderTypesAlways == Spec => []LoaderTypeOK
BY LoaderTypesInitially, LoaderTypesStep, PTL DEF Spec

-----------------------------------------------------------------------------
(* AllocMem, for the alignments and boundaries that the kernel asks for.   *)

\* p is where a block may go: at or behind ptr, aligned, across no boundary unless
\* it is longer than the distance of two.
GoodPlace(p, ptr, size, alignment, boundary) ==
  /\ p \in Nat /\ ptr <= p
  /\ alignment > 0 => p % alignment = 0
  /\ boundary >= size => p \div boundary = (p + size - 1) \div boundary

LEMMA PlacedAnywhere ==
  ASSUME NEW ptr \in Nat, NEW size \in Nat \ {0}
  PROVE  Placed(ptr, size, 0, 0) = ptr /\ GoodPlace(ptr, ptr, size, 0, 0)
BY DEF Placed, GoodPlace

LEMMA Placed64in4096 ==
  ASSUME NEW ptr \in Nat, NEW size \in Nat \ {0}
  PROVE  LET p == Placed(ptr, size, 64, 4096) IN
         GoodPlace(p, ptr, size, 64, 4096) /\ p < ptr + 63 + size /\ p < ptr + 63 + 4096
<1> DEFINE a == Ceil(ptr, 64)
           c == Ceil(a, 4096)
<1>1. a \in Nat /\ ptr <= a /\ a <= ptr + 63 /\ a % 64 = 0
  BY DEF Ceil
<1> HIDE DEF a
<1>2. c \in Nat /\ a <= c /\ c < a + 4096 /\ c % 4096 = 0 /\ c % 64 = 0
  BY <1>1 DEF Ceil
<1>3. c \div 4096 = (c + size - 1) \div 4096 \/ size > 4096
  BY <1>2
<1>4. a + size <= c => a \div 4096 = (a + size - 1) \div 4096
  BY <1>1 DEF c, Ceil
<1>5. Placed(ptr, size, 64, 4096) = IF c < a + size THEN c ELSE a
  BY DEF Placed, a
<1> HIDE DEF c
<1>6. CASE c < a + size
  <2>1. GoodPlace(c, ptr, size, 64, 4096)
    BY <1>1, <1>2, <1>3 DEF GoodPlace
  <2> QED
    BY <1>1, <1>2, <1>5, <1>6, <2>1
<1>7. CASE a + size <= c
  <2>1. GoodPlace(a, ptr, size, 64, 4096)
    BY <1>1, <1>4, <1>7 DEF GoodPlace
  <2> QED
    BY <1>1, <1>2, <1>5, <1>7, <2>1
<1> QED
  BY <1>1, <1>2, <1>6, <1>7

LEMMA Placed64in65536 ==
  ASSUME NEW ptr \in Nat, NEW size \in Nat \ {0}
  PROVE  LET p == Placed(ptr, size, 64, 65536) IN
         GoodPlace(p, ptr, size, 64, 65536) /\ p < ptr + 63 + size
<1> DEFINE a == Ceil(ptr, 64)
           c == Ceil(a, 65536)
<1>1. a \in Nat /\ ptr <= a /\ a <= ptr + 63 /\ a % 64 = 0
  BY DEF Ceil
<1> HIDE DEF a
<1>2. c \in Nat /\ a <= c /\ c < a + 65536 /\ c % 65536 = 0 /\ c % 64 = 0
  BY <1>1 DEF Ceil
<1>3. c \div 65536 = (c + size - 1) \div 65536 \/ size > 65536
  BY <1>2
<1>4. a + size <= c => a \div 65536 = (a + size - 1) \div 65536
  BY <1>1 DEF c, Ceil
<1>5. Placed(ptr, size, 64, 65536) = IF c < a + size THEN c ELSE a
  BY DEF Placed, a
<1> HIDE DEF c
<1>6. CASE c < a + size
  <2>1. GoodPlace(c, ptr, size, 64, 65536)
    BY <1>1, <1>2, <1>3 DEF GoodPlace
  <2> QED
    BY <1>1, <1>2, <1>5, <1>6, <2>1
<1>7. CASE a + size <= c
  <2>1. GoodPlace(a, ptr, size, 64, 65536)
    BY <1>1, <1>4, <1>7 DEF GoodPlace
  <2> QED
    BY <1>1, <1>2, <1>5, <1>7, <2>1
<1> QED
  BY <1>1, <1>2, <1>6, <1>7

LEMMA PlacedPage ==
  ASSUME NEW ptr \in Nat
  PROVE  LET p == Placed(ptr, 4096, 4096, 4096) IN
         GoodPlace(p, ptr, 4096, 4096, 4096) /\ p <= ptr + 4095
         /\ (ptr % 4096 = 0 => p = ptr)
<1> DEFINE a == Ceil(ptr, 4096)
<1>1. a \in Nat /\ ptr <= a /\ a <= ptr + 4095 /\ a % 4096 = 0 /\ (ptr % 4096 = 0 => a = ptr)
  BY DEF Ceil
<1> HIDE DEF a
<1>2. Ceil(a, 4096) = a
  BY <1>1 DEF Ceil
<1>3. Placed(ptr, 4096, 4096, 4096) = a
  BY <1>1, <1>2 DEF Placed, a
<1>4. a \div 4096 = (a + 4096 - 1) \div 4096
  BY <1>1
<1> QED
  BY <1>1, <1>3, <1>4 DEF GoodPlace

\* What the kernel asks AllocMem for.
Request(size, alignment, boundary) ==
  /\ size \in Nat \ {0}
  /\ \/ alignment = 0 /\ boundary = 0
     \/ alignment = 64 /\ boundary = 4096
     \/ alignment = 64 /\ boundary = 65536
     \/ alignment = 4096 /\ boundary = 4096 /\ size = 4096

LEMMA Allocated ==
  ASSUME NEW ptr \in Nat, NEW size, NEW alignment, NEW boundary,
         Request(size, alignment, boundary),
         machine.pool \in Nat \ {0}, machine.pool <= ptr, kMemoryPoolSize \in Nat,
         NEW b, b = Alloc(ptr, size, alignment, boundary)
  PROVE  /\ b.mem \in Nat /\ b.ptr \in Nat /\ ptr <= b.ptr
         /\ b.mem # 0 => /\ GoodPlace(b.mem, ptr, size, alignment, boundary)
                         /\ b.ptr = b.mem + size
                         /\ b.ptr <= machine.pool + kMemoryPoolSize
         /\ b.mem = 0 <=> machine.pool + kMemoryPoolSize < Placed(ptr, size, alignment, boundary) + size
         /\ b.ptr <= Placed(ptr, size, alignment, boundary) + size
<1> DEFINE p == Placed(ptr, size, alignment, boundary)
<1>1. size \in Nat \ {0} /\ GoodPlace(p, ptr, size, alignment, boundary)
  <2>1. size \in Nat \ {0}
    BY DEF Request
  <2>2. CASE alignment = 0 /\ boundary = 0
    BY <2>1, <2>2, PlacedAnywhere
  <2>3. CASE alignment = 64 /\ boundary = 4096
    BY <2>1, <2>3, Placed64in4096
  <2>4. CASE alignment = 64 /\ boundary = 65536
    BY <2>1, <2>4, Placed64in65536
  <2>5. CASE alignment = 4096 /\ boundary = 4096 /\ size = 4096
    BY <2>1, <2>5, PlacedPage
  <2> QED
    BY <2>1, <2>2, <2>3, <2>4, <2>5 DEF Request
<1>2. p \in Nat /\ ptr <= p
  BY <1>1 DEF GoodPlace
<1>3. b = IF machine.pool + kMemoryPoolSize < p + size THEN [mem |-> 0, ptr |-> p]
          ELSE [mem |-> p, ptr |-> p + size]
  BY DEF Alloc, AllocMem
<1> HIDE DEF p
<1>4. CASE machine.pool + kMemoryPoolSize < p + size
  <2>1. b.mem = 0 /\ b.ptr = p
    BY <1>3, <1>4
  <2> QED
    BY <1>1, <1>2, <1>4, <2>1 DEF p
<1>5. CASE ~(machine.pool + kMemoryPoolSize < p + size)
  <2>1. b.mem = p /\ b.ptr = p + size
    BY <1>3, <1>5
  <2>2. b.mem # 0
    BY <1>2, <2>1
  <2> QED
    BY <1>1, <1>2, <1>5, <2>1, <2>2 DEF p
<1> QED
  BY <1>4, <1>5

-----------------------------------------------------------------------------
(* The search.                                                             *)

(* What the configuration space holds of a function. *)
LEMMA Functions ==
  ASSUME config \in ConfigSpaces
  PROVE  /\ NumDevices \in Nat \ {0} /\ NumFunctions \in Nat \ {0} /\ MaxDevices \in Nat \ {0}
         /\ DOMAIN config \subseteq Address
         /\ \A a \in DOMAIN config : config[a] \in Function /\ a \in Position /\ a[2] < NumDevices
<1>1. NumDevices \in Nat \ {0} /\ NumFunctions \in Nat \ {0} /\ MaxDevices \in Nat \ {0}
  BY PciScanAssumption
<1>2. DOMAIN config \subseteq Address /\ \A a \in DOMAIN config : config[a] \in Function
  BY PciScanAssumption
<1>3. \A a \in Address : a \in Position /\ a[2] < NumDevices
  BY <1>1 DEF Address, Position
<1> QED
  BY <1>1, <1>2, <1>3

(* The function read next is one of the same bus, or the end of it. *)
LEMMA NextPosition ==
  ASSUME config \in ConfigSpaces, NEW a \in Position, a[2] < NumDevices
  PROVE  NextAddress(a) \in Position
<1>1. a[1] \in Nat /\ a[2] \in 0 .. NumDevices /\ a[3] \in 0 .. NumFunctions - 1
  BY DEF Position
<1>2. NumDevices \in Nat \ {0} /\ NumFunctions \in Nat \ {0}
  BY Functions
<1>3. <<a[1], a[2] + 1, 0>> \in Position
  BY <1>1, <1>2 DEF Position
<1>4. a[3] # NumFunctions - 1 => <<a[1], a[2], a[3] + 1>> \in Position
  BY <1>1, <1>2 DEF Position
<1> QED
  BY <1>3, <1>4 DEF NextAddress

(* The last entry of a call stack, and the stack with another one. *)
LEMMA StackTop ==
  ASSUME NEW s \in Seq(Position), s # <<>>
  PROVE  /\ Last(s) \in Position /\ Last(s) = s[Len(s)]
         /\ Front(s) \in Seq(Position) /\ Len(Front(s)) = Len(s) - 1
         /\ \A i \in 1 .. Len(s) - 1 : Front(s)[i] = s[i]
<1>1. Len(s) \in Nat \ {0}
  BY EmptySeq
<1>2. Last(s) = s[Len(s)]
  BY DEF Last
<1>3. Front(s) = SubSeq(s, 1, Len(s) - 1)
  BY DEF Front
<1>4. \A i \in 1 .. Len(s) : s[i] \in Position
  OBVIOUS
<1>5. Front(s) \in Seq(Position) /\ Len(Front(s)) = Len(s) - 1
      /\ \A i \in 1 .. Len(s) - 1 : Front(s)[i] = s[i]
  <2> DEFINE n == Len(s) - 1
             f == SubSeq(s, 1, n)
  <2>1. n \in Nat /\ \A i \in 1 .. n : s[i] \in Position
    BY <1>1
  <2> HIDE DEF n, f
  <2>2. f \in Seq(Position) /\ Len(f) = (IF 1 <= n THEN n - 1 + 1 ELSE 0)
        /\ \A i \in 1 .. n - 1 + 1 : f[i] = s[1 + i - 1]
    BY <2>1, SubSeqProperties DEF f
  <2>3. f \in Seq(Position) /\ Len(f) = n /\ \A i \in 1 .. n : f[i] = s[i]
    BY <2>1, <2>2
  <2> QED
    BY <1>3, <2>3 DEF n, f
<1> QED
  BY <1>1, <1>2, <1>4, <1>5

LEMMA StackReplaced ==
  ASSUME NEW s \in Seq(Position), s # <<>>, NEW p \in Position
  PROVE  /\ Replaced(s, p) \in Seq(Position) /\ Len(Replaced(s, p)) = Len(s)
         /\ \A i \in 1 .. Len(s) - 1 : Replaced(s, p)[i] = s[i]
<1>1. Front(s) \in Seq(Position) /\ Len(Front(s)) = Len(s) - 1
      /\ \A i \in 1 .. Len(s) - 1 : Front(s)[i] = s[i]
  BY StackTop
<1> DEFINE f == Front(s)
<1> HIDE DEF f
<1>2. f \in Seq(Position) /\ Len(f) = Len(s) - 1 /\ \A i \in 1 .. Len(s) - 1 : f[i] = s[i]
  BY <1>1 DEF f
<1>3. Append(f, p) \in Seq(Position) /\ Len(Append(f, p)) = Len(s)
  BY <1>2
<1>4. \A i \in 1 .. Len(s) - 1 : Append(f, p)[i] = f[i]
  BY <1>2
<1> QED
  BY <1>2, <1>3, <1>4 DEF f, Replaced

LEMMA ScanInitially == Init => ScanInv
<1> SUFFICES ASSUME Init PROVE ScanInv
  OBVIOUS
<1>1. PICK s \in Systems : ScanInit(s.machine.config)
  BY DEF Init
<1>2. s.machine.config \in ConfigSpaces
  BY BootAssumption, StartUpAssumption DEF Machine
<1>3. NumFunctions \in Nat /\ MaxDevices \in Nat
  BY PciScanAssumption
<1> QED
  BY <1>1, <1>2, <1>3 DEF ScanInit, ScanInv

LEMMA ScanStep == ScanInv /\ [Next]_vars => ScanInv'
<1> SUFFICES ASSUME ScanInv, [Next]_vars PROVE ScanInv'
  OBVIOUS
<1> USE DEF ScanInv
<1>1. CASE UNCHANGED scan
  BY <1>1 DEF scan
<1>2. NumDevices \in Nat \ {0} /\ NumFunctions \in Nat \ {0} /\ MaxDevices \in Nat \ {0}
  BY Functions
<1>3. ASSUME stack # <<>>
      PROVE  Top \in Position /\ Top = stack[Len(stack)]
  BY <1>3, StackTop DEF Top
<1>4. CASE ScanRoot
  <2>1. Min(roots) \in Nat
    BY <1>4, LeastNat DEF ScanRoot
  <2>2. <<Min(roots), 0, 0>> \in Position
    BY <1>2, <2>1 DEF Position
  <2>3. stack' \in Seq(Position) /\ Len(stack') = 1
    BY <1>4, <2>2 DEF ScanRoot
  <2> QED
    BY <1>4, <2>3 DEF ScanRoot
<1>5. ASSUME stack # <<>>, NEW a \in Position, a[2] < NumDevices,
             stack' = Replaced(stack, NextAddress(a)), UNCHANGED config
      PROVE  /\ stack' \in Seq(Position)
             /\ \A i \in 1 .. Len(stack') - 1 : stack'[i] \in DOMAIN config'
  <2>1. NextAddress(a) \in Position
    BY <1>5, NextPosition
  <2> QED
    BY <1>5, <2>1, StackReplaced
<1>6. CASE Skip
  BY <1>3, <1>5, <1>6 DEF Skip
<1>7. CASE TableFull
  BY <1>7 DEF TableFull
<1>8. CASE ScanFunction
  <2>1. stack # <<>> /\ Top \in DOMAIN config /\ UNCHANGED <<config, roots, scan_err>>
    BY <1>8 DEF ScanFunction
  <2>2. devices' \in Seq(DOMAIN config) /\ Len(devices') <= MaxDevices
    BY <1>2, <1>8, <2>1 DEF ScanFunction
  <2>3. Top[2] < NumDevices /\ config[Top].secondary \in Nat
    BY <2>1, Functions DEF Function
  <2>4. CASE stack' = Replaced(stack, NextAddress(Top))
    BY <1>3, <1>5, <2>1, <2>2, <2>3, <2>4
  <2>5. CASE stack' = Append(stack, <<config[Top].secondary, 0, 0>>)
    <3>1. <<config[Top].secondary, 0, 0>> \in Position
      BY <1>2, <2>3 DEF Position
    <3>2. stack' \in Seq(Position) /\ Len(stack') = Len(stack) + 1
          /\ \A i \in 1 .. Len(stack) : stack'[i] = stack[i]
      BY <2>5, <3>1
    <3>3. \A i \in 1 .. Len(stack) : stack[i] \in DOMAIN config
      BY <1>3, <2>1
    <3> QED
      BY <2>1, <2>2, <3>2, <3>3
  <2> QED
    BY <1>8, <2>4, <2>5 DEF ScanFunction
<1>9. CASE Return
  <2> DEFINE caller == Front(stack)
  <2>1. stack # <<>> /\ UNCHANGED <<config, roots, devices, scan_err>>
    BY <1>9 DEF Return
  <2>2. caller \in Seq(Position) /\ Len(caller) = Len(stack) - 1
        /\ \A i \in 1 .. Len(caller) : caller[i] \in DOMAIN config
    BY <2>1, StackTop
  <2>3. stack' = IF caller = <<>> THEN caller ELSE Replaced(caller, NextAddress(Last(caller)))
    BY <1>9 DEF Return
  <2> HIDE DEF caller
  <2>4. CASE caller = <<>>
    BY <2>1, <2>3, <2>4
  <2>5. CASE caller # <<>>
    <3>1. Last(caller) \in DOMAIN config
      <4>1. Len(caller) \in 1 .. Len(caller)
        BY <2>2, <2>5, EmptySeq
      <4>2. Last(caller) = caller[Len(caller)]
        BY DEF Last
      <4> QED
        BY <2>2, <4>1, <4>2
    <3>2. Last(caller) \in Position /\ Last(caller)[2] < NumDevices
      BY <3>1, Functions
    <3>3. NextAddress(Last(caller)) \in Position
      BY <3>2, NextPosition
    <3>4. stack' \in Seq(Position) /\ Len(stack') = Len(caller)
          /\ \A i \in 1 .. Len(caller) - 1 : stack'[i] = caller[i]
      BY <2>2, <2>3, <2>5, <3>3, StackReplaced
    <3> QED
      BY <2>1, <2>2, <3>4
  <2> QED
    BY <2>4, <2>5
<1> QED
  BY <1>1, <1>4, <1>6, <1>7, <1>8, <1>9
  DEF Next, Load, Firmware, ScanAllBus, KernelMain, Environment, Scan, vars

LEMMA ScanAlways == Spec => []ScanInv
BY ScanInitially, ScanStep, PTL DEF Spec

-----------------------------------------------------------------------------
(* The types of the start.                                                 *)

StartInv == StartUpTypeOK /\ ScratchInv /\ machine.pool <= alloc_ptr

LEMMA MachineFacts ==
  ASSUME machine \in Machines
  PROVE  /\ machine.pool \in Nat \ {0} /\ machine.pool % 64 = 0
         /\ machine.scratchpads \in Nat
         /\ machine.bar.base \in Nat /\ machine.bar.next \in Nat
         /\ kMemoryPoolSize \in Nat /\ kDeviceSize \in Nat \ {0} /\ RingSize \in Nat \ {0}
         /\ (machine.bios => machine.legacy /\ ~machine.os)
<1>1. /\ machine \in Machine /\ machine.pool % 64 = 0
      /\ (machine.bios => machine.legacy /\ ~machine.os)
      /\ kDeviceSize \in Nat \ {0} /\ RingSize \in Nat \ {0}
  BY StartUpAssumption
<1>2. machine.pool \in Nat \ {0} /\ machine.scratchpads \in 0 .. 1023 /\ machine.bar \in Bar
  BY <1>1 DEF Machine
<1>3. machine.bar.base \in Nat /\ machine.bar.next \in Nat
  BY <1>2 DEF Bar
<1> QED
  BY <1>1, <1>2, <1>3, UsbMemoryAssumption

(* Every request of Initialize is one that AllocMem is proved about. *)
LEMMA Requests ==
  ASSUME machine \in Machines
  PROVE  /\ Request(PointerSize * (kDeviceSize + 1), 0, 0)
         /\ Request(PointerSize * (kDeviceSize + 1), 64, 4096)
         /\ machine.scratchpads > 0 => Request(PointerSize * machine.scratchpads, 64, 4096)
         /\ Request(4096, 4096, 4096)
         /\ Request(TRBSize * RingSize, 64, 65536)
         /\ Request(TRBSize, 64, 65536)
BY MachineFacts DEF Request, PointerSize, TRBSize

LEMMA FoundInTable ==
  ASSUME devices \in Seq(DOMAIN config)
  PROVE  FoundController = Null \/ FoundController \in DOMAIN config
<1>1. \A i \in 1 .. Len(devices) : devices[i] \in DOMAIN config
  OBVIOUS
<1>2. OfClass("xhc") \subseteq 1 .. Len(devices) /\ Len(devices) \in Nat
  BY DEF OfClass
<1>3. ASSUME OfClass("xhc") \cap Intel # {}
      PROVE  devices[Min(OfClass("xhc") \cap Intel)] \in DOMAIN config
  <2>1. OfClass("xhc") \cap Intel \in SUBSET Nat
    BY <1>2
  <2>2. Min(OfClass("xhc") \cap Intel) \in OfClass("xhc") \cap Intel
    BY <1>3, <2>1, LeastNat
  <2> QED
    BY <1>1, <1>2, <2>2
<1>4. ASSUME OfClass("xhc") # {}
      PROVE  devices[Max(OfClass("xhc"))] \in DOMAIN config
  <2>1. OfClass("xhc") \in SUBSET (0 .. Len(devices))
    BY <1>2
  <2>2. Max(OfClass("xhc")) \in OfClass("xhc")
    BY <1>2, <1>4, <2>1, GreatestNat
  <2> QED
    BY <1>1, <1>2, <2>2
<1> QED
  BY <1>3, <1>4 DEF FoundController

LEMMA StartUpSteps ==
  ASSUME [Next]_vars
  PROVE  /\ UNCHANGED startup \/ StartUp \/ Hardware
         /\ UNCHANGED startup \/ UNCHANGED config
BY DEF Next, Load, Firmware, ScanAllBus, KernelMain, Environment, vars, scan

LEMMA StartInitially == Init => StartInv
<1> SUFFICES ASSUME Init PROVE StartInv
  OBVIOUS
<1>1. PICK s \in Systems : StartUpInit(s.machine) /\ ScanInit(s.machine.config)
  BY DEF Init
<1>2. s.machine \in Machines
  BY BootAssumption
<1>3. machine = s.machine /\ machine \in Machines
  BY <1>1, <1>2 DEF StartUpInit
<1>4. machine.run \in BOOLEAN /\ machine.os \in BOOLEAN /\ machine.bios \in BOOLEAN
      /\ machine.pool \in Nat /\ machine.scratchpads \in Nat
  <2>1. machine \in Machine
    BY <1>3, StartUpAssumption
  <2>2. machine.run \in BOOLEAN /\ machine.os \in BOOLEAN /\ machine.bios \in BOOLEAN
    BY <2>1, ZenonT(60) DEF Machine
  <2> QED
    BY <1>3, <2>2, MachineFacts
<1>5. regs \in Regs
  <2>1. regs = [ResetRegs EXCEPT !.run = machine.run, !.halted = ~machine.run, !.cnr = FALSE]
    BY <1>1, <1>3 DEF StartUpInit
  <2>2. machine.run \in BOOLEAN /\ (~machine.run) \in BOOLEAN
    BY <1>4
  <2>3. ResetRegs \in Regs
    BY DEF Regs, ResetRegs
  <2> QED
    BY <2>1, <2>2, <2>3 DEF Regs
<1>6. StartUpTypeOK
  <2>1. legsup = [os |-> machine.os, bios |-> machine.bios]
    BY <1>1, <1>3 DEF StartUpInit
  <2>2. legsup \in [os : BOOLEAN, bios : BOOLEAN]
    BY <1>4, <2>1
  <2>3. /\ step = "lookup" /\ routed = FALSE /\ mmio = 0 /\ xhc = Null
        /\ alloc_ptr = machine.pool /\ scratch = <<>> /\ init_err = "none"
    BY <1>1, <1>3 DEF StartUpInit
  <2>4. alloc_ptr \in Nat /\ mmio \in Nat /\ routed \in BOOLEAN
    BY <1>4, <2>3
  <2>5. scratch \in Seq(Nat) /\ Len(scratch) <= machine.scratchpads
    BY <1>4, <2>3
  <2> QED
    BY <1>3, <1>5, <2>2, <2>3, <2>4, <2>5 DEF StartUpTypeOK
<1>7. ScratchInv
  BY <1>1 DEF StartUpInit, ScratchInv, BeforeSlots, BeforeStop, BeforeDevmgr, Started
<1> QED
  BY <1>1, <1>3, <1>4, <1>6, <1>7 DEF StartUpInit, StartInv

LEMMA RegisterWrites ==
  ASSUME NEW r \in Regs, NEW on \in BOOLEAN, NEW n \in Nat
  PROVE  /\ [r EXCEPT !.run = on] \in Regs /\ [r EXCEPT !.inte = on] \in Regs
         /\ [r EXCEPT !.hcrst = on] \in Regs /\ [r EXCEPT !.halted = on] \in Regs
         /\ [r EXCEPT !.cnr = on] \in Regs /\ [r EXCEPT !.ie = on] \in Regs
         /\ [r EXCEPT !.slots = kDeviceSize] \in Regs
         /\ [r EXCEPT !.dcbaap = n] \in Regs /\ [r EXCEPT !.crcr = n] \in Regs
         /\ [r EXCEPT !.erstsz = 1] \in Regs
         /\ [r EXCEPT !.erdp = n] \in Regs /\ [r EXCEPT !.erstba = n] \in Regs
<1>1. [r EXCEPT !.run = on] \in Regs
  BY DEF Regs
<1>2. [r EXCEPT !.inte = on] \in Regs
  BY DEF Regs
<1>3. [r EXCEPT !.hcrst = on] \in Regs
  BY DEF Regs
<1>4. [r EXCEPT !.halted = on] \in Regs
  BY DEF Regs
<1>5. [r EXCEPT !.cnr = on] \in Regs
  BY DEF Regs
<1>6. [r EXCEPT !.ie = on] \in Regs
  BY DEF Regs
<1>7. [r EXCEPT !.slots = kDeviceSize] \in Regs
  BY DEF Regs
<1>8. [r EXCEPT !.dcbaap = n] \in Regs
  BY DEF Regs
<1>9. [r EXCEPT !.crcr = n] \in Regs
  BY DEF Regs
<1>10. [r EXCEPT !.erstsz = 1] \in Regs
  BY DEF Regs
<1>11. [r EXCEPT !.erdp = n] \in Regs
  BY DEF Regs
<1>12. [r EXCEPT !.erstba = n] \in Regs
  BY DEF Regs
<1> QED
  BY <1>1, <1>2, <1>3, <1>4, <1>5, <1>6, <1>7, <1>8, <1>9, <1>10, <1>11, <1>12

LEMMA EventRingRegistered ==
  ASSUME NEW r \in Regs, NEW x \in Nat, NEW y \in Nat
  PROVE  [r EXCEPT !.erstsz = 1, !.erdp = x, !.erstba = y] \in Regs
<1> DEFINE s == [r EXCEPT !.erstsz = 1]
           q == [s EXCEPT !.erdp = x]
<1>1. s \in Regs
  BY RegisterWrites
<1> HIDE DEF s
<1>2. q \in Regs
  BY <1>1, RegisterWrites
<1> HIDE DEF q
<1>3. [q EXCEPT !.erstba = y] \in Regs
  BY <1>2, RegisterWrites
<1>4. [r EXCEPT !.erstsz = 1, !.erdp = x, !.erstba = y] = [q EXCEPT !.erstba = y]
  BY DEF s, q, Regs
<1> QED
  BY <1>3, <1>4

LEMMA FieldNat ==
  ASSUME NEW ptr \in Nat
  PROVE  /\ Field(ptr, 64) \in Nat /\ Field(ptr, 16) \in Nat
         /\ ptr % 64 = 0 => Field(ptr, 64) = ptr /\ Field(ptr, 16) = ptr
BY DEF Field

LEMMA LookupTypes ==
  ASSUME StartInv, ScanInv, Lookup, UNCHANGED config
  PROVE  StartInv'
<1> USE DEF StartInv, StartUpTypeOK, ScratchInv, BeforeSlots, BeforeStop, BeforeDevmgr,
      Started, card, memory_pool, tables, Go
<1>1. CASE LookupXHC
  <2>1. xhc' = Null \/ xhc' \in DOMAIN config'
    BY <1>1, FoundInTable DEF LookupXHC, ScanInv
  <2> QED
    BY <1>1, <2>1 DEF LookupXHC
<1>2. CASE WriteMSIHeader
  BY <1>2 DEF WriteMSIHeader
<1>3. CASE WriteMSIAddr \/ WriteMSIData
  BY <1>3 DEF WriteMSIAddr, WriteMSIData
<1>4. CASE ReadBar
  <2>1. machine.bar.base \in Nat
    BY MachineFacts
  <2>2. machine.bar.base % 4 \in Nat /\ machine.bar.base \div 4 \in Nat
    BY <2>1
  <2>3. mmio' \in Nat
    BY <1>4, <2>2 DEF ReadBar, BarReg
  <2> QED
    BY <1>4, <2>3 DEF ReadBar
<1>5. CASE SwitchEhci2Xhci
  BY <1>5 DEF SwitchEhci2Xhci
<1> QED
  BY <1>1, <1>2, <1>3, <1>4, <1>5 DEF Lookup

LEMMA TakeTypes ==
  ASSUME StartInv, TakeController, UNCHANGED config
  PROVE  StartInv'
<1> USE DEF StartInv, StartUpTypeOK, ScratchInv, BeforeSlots, BeforeStop, BeforeDevmgr,
      Started, card, memory_pool, tables, Go
<1>1. CASE InitializeDevmgr
  <2> DEFINE size == PointerSize * (kDeviceSize + 1)
             d == Alloc(alloc_ptr, size, 0, 0)
             c == Alloc(d.ptr, size, 64, 4096)
  <2>1. machine.pool \in Nat \ {0} /\ kMemoryPoolSize \in Nat
        /\ Request(size, 0, 0) /\ Request(size, 64, 4096)
    BY MachineFacts, Requests
  <2>2. alloc_ptr' = c.ptr /\ dcbaa' = [ptr |-> c.mem, zero |-> 0]
        /\ step = "devmgr" /\ step' = "own"
        /\ UNCHANGED <<card, legsup, scratch, regs, erst, init_err, sent>>
    BY <1>1 DEF InitializeDevmgr
  <2> HIDE DEF size, d, c
  <2>3. d.ptr \in Nat /\ machine.pool <= d.ptr
    BY <2>1, Allocated DEF d
  <2>4. c.ptr \in Nat /\ c.mem \in Nat /\ machine.pool <= c.ptr
    BY <2>1, <2>3, Allocated DEF c
  <2> QED
    BY <2>2, <2>4
<1>2. CASE RequestHCOwnership \/ OwnsHC
  BY <1>2 DEF RequestHCOwnership, OwnsHC
<1>3. CASE Stop
  <2>1. regs' \in Regs
    <3>1. regs' = [[regs EXCEPT !.inte = FALSE] EXCEPT !.run = regs.run /\ regs.halted]
      BY <1>3 DEF Stop, Regs
    <3>2. (regs.run /\ regs.halted) \in BOOLEAN /\ [regs EXCEPT !.inte = FALSE] \in Regs
      BY RegisterWrites
    <3> QED
      BY <3>1, <3>2, RegisterWrites
  <2> QED
    BY <1>3, <2>1 DEF Stop
<1>4. CASE Halted \/ Reset
  <2>1. regs' \in Regs
    BY <1>4, RegisterWrites DEF Halted, Reset
  <2> QED
    BY <1>4, <2>1 DEF Halted, Reset
<1>5. CASE ResetDone
  BY <1>5 DEF ResetDone
<1> QED
  BY <1>1, <1>2, <1>3, <1>4, <1>5 DEF TakeController

LEMMA SetUpTypes ==
  ASSUME StartInv, SetUp, UNCHANGED config
  PROVE  StartInv'
<1> USE DEF StartInv, StartUpTypeOK, ScratchInv, BeforeSlots, BeforeStop, BeforeDevmgr,
      Started, card, memory_pool, tables, Go
<1>1. machine.pool \in Nat \ {0} /\ kMemoryPoolSize \in Nat /\ machine.scratchpads \in Nat
      /\ RingSize \in Nat
  BY MachineFacts
<1>2. CASE EnableSlots
  <2>1. regs' \in Regs
    BY <1>2, RegisterWrites DEF EnableSlots
  <2> QED
    BY <1>1, <1>2, <2>1 DEF EnableSlots
<1>3. CASE AllocScratchpads
  <2> DEFINE size == PointerSize * machine.scratchpads
             b == Alloc(alloc_ptr, size, 64, 4096)
  <2>1. step = "scratchpads" /\ step' = "pages" /\ Took(b, size, 64, 4096)
        /\ dcbaa' = [dcbaa EXCEPT !.zero = b.mem]
        /\ UNCHANGED <<card, legsup, scratch, erst, regs, init_err, sent>>
    BY <1>3 DEF AllocScratchpads
  <2>2. Request(size, 64, 4096)
    BY <1>1, <2>1, Requests
  <2> HIDE DEF size, b
  <2>3. b.ptr \in Nat /\ b.mem \in Nat /\ machine.pool <= b.ptr
    BY <1>1, <2>2, Allocated DEF b
  <2>4. alloc_ptr' = b.ptr
    BY <2>1 DEF Took
  <2> QED
    BY <2>1, <2>3, <2>4
<1>4. CASE AllocScratchPage
  <2> DEFINE b == Alloc(alloc_ptr, 4096, 4096, 4096)
  <2>1. step = "pages" /\ Took(b, 4096, 4096, 4096) /\ scratch' = Append(scratch, b.mem)
        /\ step' = (IF Len(scratch') = machine.scratchpads THEN "dcbaap" ELSE "pages")
        /\ UNCHANGED <<card, legsup, dcbaa, erst, regs, init_err, sent>>
    BY <1>4 DEF AllocScratchPage
  <2>2. Request(4096, 4096, 4096)
    BY Requests
  <2> HIDE DEF b
  <2>3. b.ptr \in Nat /\ b.mem \in Nat /\ machine.pool <= b.ptr
    BY <1>1, <2>2, Allocated DEF b
  <2>4. alloc_ptr' = b.ptr
    BY <2>1 DEF Took
  <2>5. scratch' \in Seq(Nat) /\ Len(scratch') = Len(scratch) + 1
        /\ Len(scratch') <= machine.scratchpads
    BY <1>1, <2>1, <2>3
  <2> QED
    BY <1>1, <2>1, <2>3, <2>4, <2>5
<1>5. CASE WriteDCBAAP
  <2>1. Field(dcbaa.ptr, 64) \in Nat
    BY FieldNat
  <2>2. regs' \in Regs
    BY <1>5, <2>1, RegisterWrites DEF WriteDCBAAP
  <2> QED
    BY <1>5, <2>2 DEF WriteDCBAAP
<1>6. CASE InitializeCommandRing
  <2> DEFINE size == TRBSize * RingSize
             b == Alloc(alloc_ptr, size, 64, 65536)
  <2>1. /\ step = "cr" /\ Took(b, size, 64, 65536)
        /\ \/ step' = "run" /\ init_err' = "kNoEnoughMemory" /\ regs' = regs
           \/ step' = "er" /\ init_err' = init_err /\ regs' = RegisterCommandRing(regs, b.mem)
        /\ UNCHANGED <<card, legsup, tables, sent>>
    BY <1>6 DEF InitializeCommandRing, Fail
  <2>2. Request(size, 64, 65536)
    BY Requests
  <2> HIDE DEF size, b
  <2>3. b.ptr \in Nat /\ b.mem \in Nat /\ machine.pool <= b.ptr
    BY <1>1, <2>2, Allocated DEF b
  <2>4. alloc_ptr' = b.ptr
    BY <2>1 DEF Took
  <2>5. Field(b.mem, 64) \in Nat
    BY <2>3, FieldNat
  <2>6. regs' \in Regs
    <3>1. RegisterCommandRing(regs, b.mem) \in Regs
      BY <2>5, RegisterWrites DEF RegisterCommandRing
    <3> QED
      BY <2>1, <3>1
  <2> QED
    BY <2>1, <2>3, <2>4, <2>6
<1>7. CASE InitializeEventRing
  <2> DEFINE size == TRBSize * RingSize
             b == Alloc(alloc_ptr, size, 64, 65536)
             t == Alloc(b.ptr, TRBSize, 64, 65536)
  <2>1. /\ step = "er"
        /\ alloc_ptr' \in {b.ptr, t.ptr}
        /\ \/ step' = "run" /\ init_err' = "kNoEnoughMemory" /\ UNCHANGED <<tables, regs>>
           \/ step' = "enable" /\ init_err' = init_err /\ UNCHANGED <<dcbaa, scratch>>
              /\ regs' = RegisterEventRing(regs, b.mem, t.mem)
        /\ UNCHANGED <<card, legsup, sent>>
    BY <1>7 DEF InitializeEventRing, Fail, Took
  <2>2. Request(size, 64, 65536) /\ Request(TRBSize, 64, 65536)
    BY Requests
  <2> HIDE DEF size, b, t
  <2>3. b.ptr \in Nat /\ b.mem \in Nat /\ machine.pool <= b.ptr
    BY <1>1, <2>2, Allocated DEF b
  <2>4. t.ptr \in Nat /\ t.mem \in Nat /\ machine.pool <= t.ptr
    BY <1>1, <2>2, <2>3, Allocated DEF t
  <2>5. Field(b.mem, 16) \in Nat /\ Field(t.mem, 64) \in Nat
    BY <2>3, <2>4, FieldNat
  <2>6. alloc_ptr' \in Nat /\ machine.pool <= alloc_ptr'
    BY <2>1, <2>3, <2>4
  <2>7. regs' \in Regs
    <3>1. RegisterEventRing(regs, b.mem, t.mem) \in Regs
      BY <2>5, EventRingRegistered DEF RegisterEventRing
    <3> QED
      BY <2>1, <3>1
  <2>8. UNCHANGED <<dcbaa, scratch>>
    BY <2>1
  <2> QED
    BY <2>1, <2>6, <2>7, <2>8
<1>8. CASE EnableInterrupts
  <2>1. regs' \in Regs
    <3>1. regs' = [[regs EXCEPT !.ie = TRUE] EXCEPT !.inte = TRUE]
      BY <1>8 DEF EnableInterrupts, Regs
    <3> QED
      BY <3>1, RegisterWrites
  <2> QED
    BY <1>8, <2>1 DEF EnableInterrupts
<1>9. CASE Run \/ Running
  <2>1. regs' \in Regs
    BY <1>9, RegisterWrites DEF Run, Running
  <2> QED
    BY <1>9, <2>1 DEF Run, Running
<1> QED
  BY <1>2, <1>3, <1>4, <1>5, <1>6, <1>7, <1>8, <1>9 DEF SetUp

LEMMA HardwareTypes ==
  ASSUME StartInv, Hardware, UNCHANGED config
  PROVE  StartInv'
<1> USE DEF StartInv, StartUpTypeOK, ScratchInv, card, memory_pool, tables
<1>1. regs' \in Regs
  <2>1. CASE HcHalt \/ HcStart \/ HcReady
    BY <2>1, RegisterWrites DEF HcHalt, HcStart, HcReady
  <2>2. CASE HcReset
    BY <2>2 DEF HcReset, ResetRegs, Regs
  <2>3. CASE BiosRun
    <3>1. regs' = [regs EXCEPT !.run = ~regs.run] /\ (~regs.run) \in BOOLEAN
      BY <2>3 DEF BiosRun, Regs
    <3> QED
      BY <3>1, RegisterWrites
  <2>4. CASE HcEvent \/ BiosRelease
    BY <2>4 DEF HcEvent, BiosRelease
  <2> QED
    BY <2>1, <2>2, <2>3, <2>4 DEF Hardware
<1>2. legsup' \in [os : BOOLEAN, bios : BOOLEAN]
  BY DEF Hardware, HcHalt, HcStart, HcReady, HcReset, HcEvent, BiosRun, BiosRelease
<1>3. UNCHANGED <<step, machine, xhc, routed, mmio, alloc_ptr, dcbaa, scratch, init_err>>
  BY DEF Hardware, HcHalt, HcStart, HcReady, HcReset, HcEvent, BiosRun, BiosRelease
<1> QED
  BY <1>1, <1>2, <1>3

LEMMA StartStep == StartInv /\ ScanInv /\ [Next]_vars => StartInv'
<1> SUFFICES ASSUME StartInv, ScanInv, [Next]_vars PROVE StartInv'
  OBVIOUS
<1>1. UNCHANGED startup => StartInv'
  <2> SUFFICES ASSUME UNCHANGED startup PROVE StartInv'
    OBVIOUS
  <2>1. config' = config
    BY DEF Next, Load, Firmware, ScanAllBus, KernelMain, Environment, vars, scan, Scan,
      ScanRoot, Skip, TableFull, ScanFunction, Return
  <2> QED
    BY <2>1 DEF startup, card, memory_pool, tables, StartInv, StartUpTypeOK, ScratchInv
<1> QED
  BY <1>1, StartUpSteps, LookupTypes, TakeTypes, SetUpTypes, HardwareTypes DEF StartUp

LEMMA StartAlways == Spec => []StartInv
BY ScanAlways, StartInitially, StartStep, PTL DEF Spec

(* Types of the loader, the search and the start: no call stack entry leaves
   the bus, the table of devices is never written behind its end, and the
   scratchpad array never gets more pages than were asked for
   (ScanFunction, AddDevice, Initialize). *)
THEOREM TypesHold == Spec => []TypeOK
<1>1. ASSUME LoaderTypeOK, ScanInv, StartInv PROVE TypeOK
  <2>1. StartUpTypeOK
    BY <1>1 DEF StartInv
  <2>2. ToSet(stack) \subseteq Nat \X (0 .. NumDevices) \X (0 .. NumFunctions - 1)
    <3>1. \A i \in 1 .. Len(stack) : stack[i] \in Position
      BY <1>1 DEF ScanInv
    <3>2. DOMAIN stack = 1 .. Len(stack)
      BY <1>1 DEF ScanInv
    <3> QED
      BY <3>1, <3>2 DEF ToSet, Position
  <2> QED
    BY <1>1, <2>1, <2>2 DEF TypeOK, ScanInv
<1> QED
  BY <1>1, LoaderTypesAlways, ScanAlways, StartAlways, PTL

-----------------------------------------------------------------------------
(* The order of the start.                                                 *)

LEMMA OrderInitially == Init => OwnerInv /\ QuietInv
<1> SUFFICES ASSUME Init PROVE OwnerInv /\ QuietInv
  OBVIOUS
<1>1. PICK s \in Systems : StartUpInit(s.machine)
  BY DEF Init
<1>2. machine = s.machine /\ machine \in Machines
  BY <1>1, BootAssumption DEF StartUpInit
<1>3. step = "lookup" /\ legsup = [os |-> machine.os, bios |-> machine.bios]
      /\ regs = [ResetRegs EXCEPT !.run = machine.run, !.halted = ~machine.run, !.cnr = FALSE]
  BY <1>1, <1>2 DEF StartUpInit
<1>4. legsup.bios => machine.legacy /\ ~legsup.os
  BY <1>2, <1>3, MachineFacts
<1>5. (regs.run <=> ~regs.halted) /\ ~regs.hcrst /\ ~regs.cnr
  BY <1>3 DEF ResetRegs
<1> QED
  BY <1>3, <1>4, <1>5 DEF OwnerInv, QuietInv, BeforeStop, BeforeDevmgr

(* Registering the rings leaves the other registers alone. *)
LEMMA RingRegisters ==
  ASSUME regs \in Regs, NEW ring, NEW table
  PROVE  /\ LET r == RegisterCommandRing(regs, ring) IN
              /\ r.run = regs.run /\ r.halted = regs.halted /\ r.hcrst = regs.hcrst
              /\ r.cnr = regs.cnr /\ r.ie = regs.ie /\ r.inte = regs.inte
              /\ r.slots = regs.slots /\ r.dcbaap = regs.dcbaap
              /\ r.crcr = Field(ring, 64)
         /\ LET r == RegisterEventRing(regs, ring, table) IN
              /\ r.run = regs.run /\ r.halted = regs.halted /\ r.hcrst = regs.hcrst
              /\ r.cnr = regs.cnr /\ r.ie = regs.ie /\ r.inte = regs.inte
              /\ r.slots = regs.slots /\ r.dcbaap = regs.dcbaap /\ r.crcr = regs.crcr
              /\ r.erstsz = 1 /\ r.erdp = Field(ring, 16) /\ r.erstba = Field(table, 64)
<1>1. DOMAIN regs = {"run", "inte", "hcrst", "halted", "cnr", "slots", "dcbaap", "crcr",
                     "erstsz", "erstba", "erdp", "ie"}
  BY DEF Regs
<1> QED
  BY <1>1 DEF RegisterCommandRing, RegisterEventRing

LEMMA RingSteps ==
  ASSUME InitializeCommandRing \/ InitializeEventRing
  PROVE  \/ regs' = regs
         \/ \E ring : regs' = RegisterCommandRing(regs, ring)
         \/ \E ring, table : regs' = RegisterEventRing(regs, ring, table)
<1>1. CASE InitializeCommandRing
  BY <1>1 DEF InitializeCommandRing
<1>2. CASE InitializeEventRing
  BY <1>2 DEF InitializeEventRing
<1> QED
  BY <1>1, <1>2

LEMMA OrderSteps ==
  ASSUME StartInv, OwnerInv, QuietInv, StartUp \/ Hardware
  PROVE  OwnerInv' /\ QuietInv'
<1> USE DEF OwnerInv, QuietInv, BeforeStop, BeforeDevmgr, Go
<1>1. regs \in Regs /\ legsup \in [os : BOOLEAN, bios : BOOLEAN]
  BY DEF StartInv, StartUpTypeOK
<1>2. CASE Lookup
  <2>1. UNCHANGED <<regs, legsup, machine>>
        /\ step \in BeforeDevmgr /\ step' \in BeforeDevmgr
    BY <1>2 DEF Lookup, LookupXHC, WriteMSIHeader, WriteMSIAddr, WriteMSIData, ReadBar,
      SwitchEhci2Xhci
  <2> QED
    BY <2>1
<1>3. CASE InitializeDevmgr
  BY <1>3 DEF InitializeDevmgr, card
<1>4. CASE RequestHCOwnership
  BY <1>1, <1>4 DEF RequestHCOwnership, card
<1>5. CASE OwnsHC
  BY <1>5 DEF OwnsHC, card
<1>6. CASE Stop
  <2>1. regs'.run = (regs.run /\ regs.halted) /\ regs'.halted = regs.halted
        /\ regs'.hcrst = regs.hcrst /\ regs'.cnr = regs.cnr
    BY <1>1, <1>6 DEF Stop, Regs
  <2> QED
    BY <1>6, <2>1 DEF Stop, card
<1>7. CASE Halted
  BY <1>7 DEF Halted, card
<1>8. CASE Reset
  <2>1. regs'.run = regs.run /\ regs'.halted = regs.halted
        /\ regs'.hcrst /\ regs'.cnr = regs.cnr
    BY <1>1, <1>8 DEF Reset, Regs
  <2> QED
    BY <1>8, <2>1 DEF Reset, card
<1>9. CASE ResetDone
  BY <1>9 DEF ResetDone, card
<1>10. ASSUME step \in {"slots", "scratchpads", "pages", "dcbaap", "cr", "er", "enable"},
              step' \in {"scratchpads", "pages", "dcbaap", "cr", "er", "enable", "run"},
              UNCHANGED <<machine, legsup>>,
              regs'.run = regs.run, regs'.halted = regs.halted, regs'.hcrst = regs.hcrst,
              regs'.cnr = regs.cnr
       PROVE  OwnerInv' /\ QuietInv'
  BY <1>10
<1>11. CASE EnableSlots
  <2>1. regs'.run = regs.run /\ regs'.halted = regs.halted /\ regs'.hcrst = regs.hcrst
        /\ regs'.cnr = regs.cnr
    BY <1>1, <1>11 DEF EnableSlots, Regs
  <2> QED
    BY <1>10, <1>11, <2>1 DEF EnableSlots, card
<1>12. CASE AllocScratchpads \/ AllocScratchPage
  BY <1>10, <1>12 DEF AllocScratchpads, AllocScratchPage, card
<1>13. CASE WriteDCBAAP
  <2>1. regs'.run = regs.run /\ regs'.halted = regs.halted /\ regs'.hcrst = regs.hcrst
        /\ regs'.cnr = regs.cnr
    BY <1>1, <1>13 DEF WriteDCBAAP, Regs
  <2> QED
    BY <1>10, <1>13, <2>1 DEF WriteDCBAAP, card
<1>14. CASE InitializeCommandRing
  <2>1. regs'.run = regs.run /\ regs'.halted = regs.halted /\ regs'.hcrst = regs.hcrst
        /\ regs'.cnr = regs.cnr
    BY <1>1, <1>14, RingSteps, RingRegisters
  <2>2. step = "cr" /\ step' \in {"er", "run"} /\ UNCHANGED <<machine, legsup>>
    BY <1>14 DEF InitializeCommandRing, Fail, card
  <2> QED
    BY <1>10, <2>1, <2>2
<1>15. CASE InitializeEventRing
  <2>1. regs'.run = regs.run /\ regs'.halted = regs.halted /\ regs'.hcrst = regs.hcrst
        /\ regs'.cnr = regs.cnr
    BY <1>1, <1>15, RingSteps, RingRegisters
  <2>2. step = "er" /\ step' \in {"enable", "run"} /\ UNCHANGED <<machine, legsup>>
    BY <1>15 DEF InitializeEventRing, Fail, card
  <2> QED
    BY <1>10, <2>1, <2>2
<1>16. CASE EnableInterrupts
  <2>1. regs'.run = regs.run /\ regs'.halted = regs.halted /\ regs'.hcrst = regs.hcrst
        /\ regs'.cnr = regs.cnr
    BY <1>1, <1>16 DEF EnableInterrupts, Regs
  <2> QED
    BY <1>10, <1>16, <2>1 DEF EnableInterrupts, card
<1>17. CASE Run
  <2>1. regs'.halted = regs.halted /\ regs'.hcrst = regs.hcrst /\ regs'.cnr = regs.cnr
    BY <1>1, <1>17 DEF Run, Regs
  <2> QED
    BY <1>17, <2>1 DEF Run, card
<1>18. CASE Running
  BY <1>18 DEF Running, card
<1>19. CASE HcHalt
  <2>1. regs'.run = regs.run /\ regs'.halted /\ regs'.hcrst = regs.hcrst
        /\ regs'.cnr = regs.cnr /\ ~regs.run /\ ~regs.halted
    BY <1>1, <1>19 DEF HcHalt, Regs
  <2> QED
    BY <1>19, <2>1 DEF HcHalt, card
<1>20. CASE HcStart
  <2>1. regs'.run = regs.run /\ ~regs'.halted /\ regs'.hcrst = regs.hcrst
        /\ regs'.cnr = regs.cnr /\ regs.run /\ regs.halted
    BY <1>1, <1>20 DEF HcStart, Regs
  <2> QED
    BY <1>20, <2>1 DEF HcStart, card
<1>21. CASE HcReset
  BY <1>21 DEF HcReset, ResetRegs, card
<1>22. CASE HcReady
  <2>1. regs'.run = regs.run /\ regs'.halted = regs.halted /\ regs'.hcrst = regs.hcrst
        /\ ~regs'.cnr /\ regs.cnr
    BY <1>1, <1>22 DEF HcReady, Regs
  <2> QED
    BY <1>22, <2>1 DEF HcReady, card
<1>23. CASE HcEvent
  BY <1>23 DEF HcEvent, card
<1>24. CASE BiosRun
  <2>1. regs'.halted = regs.halted /\ regs'.hcrst = regs.hcrst /\ regs'.cnr = regs.cnr
        /\ legsup.bios
    BY <1>1, <1>24 DEF BiosRun, Regs
  <2> QED
    BY <1>24, <2>1 DEF BiosRun, card
<1>25. CASE BiosRelease
  <2>1. legsup'.os = legsup.os /\ ~legsup'.bios /\ (regs.run <=> ~regs.halted)
        /\ UNCHANGED <<step, machine, regs>>
    BY <1>1, <1>25 DEF BiosRelease, card
  <2> QED
    BY <2>1
<1> QED
  BY <1>2, <1>3, <1>4, <1>5, <1>6, <1>7, <1>8, <1>9, <1>11, <1>12, <1>13, <1>14, <1>15, <1>16,
    <1>17, <1>18, <1>19, <1>20, <1>21, <1>22, <1>23, <1>24, <1>25
  DEF StartUp, TakeController, SetUp, Hardware

LEMMA OrderStep == StartInv /\ OwnerInv /\ QuietInv /\ [Next]_vars => (OwnerInv /\ QuietInv)'
<1>1. UNCHANGED startup /\ OwnerInv /\ QuietInv => (OwnerInv /\ QuietInv)'
  BY DEF startup, card, OwnerInv, QuietInv
<1> QED
  BY <1>1, StartUpSteps, OrderSteps

LEMMA OrderAlways == Spec => [](OwnerInv /\ QuietInv)
BY StartAlways, OrderInitially, OrderStep, PTL DEF Spec

(* The controller is reset only when it is halted and nobody can start it, and
   the registers that lead to memory change only then (RequestHCOwnership,
   Controller::Initialize). *)
THEOREM ControllerSetUpInOrder == Spec => SetUpInOrder
<1>1. ASSUME StartInv, OwnerInv, QuietInv, [Next]_vars
      PROVE  [/\ ~regs.hcrst /\ regs'.hcrst => regs.halted /\ ~regs.run
              /\ Leads(regs) # Leads(regs') =>
                   regs.halted /\ (regs.hcrst => ~regs'.hcrst) /\ ~regs.cnr]_startup
  <2> SUFFICES ASSUME StartUp \/ Hardware
               PROVE  /\ ~regs.hcrst /\ regs'.hcrst => regs.halted /\ ~regs.run
                      /\ Leads(regs) # Leads(regs') =>
                           regs.halted /\ (regs.hcrst => ~regs'.hcrst) /\ ~regs.cnr
    BY <1>1, StartUpSteps
  <2>1. regs \in Regs
    BY <1>1 DEF StartInv, StartUpTypeOK
  <2> USE <1>1 DEF QuietInv, BeforeStop, BeforeDevmgr, Go
  <2>2. CASE UNCHANGED regs
    BY <2>2
  <2>3. CASE Stop \/ EnableInterrupts \/ Run
    <3>1. Leads(regs') = Leads(regs) /\ regs'.hcrst = regs.hcrst
      BY <2>1, <2>3 DEF Stop, EnableInterrupts, Run, Leads, Regs
    <3> QED
      BY <3>1
  <2>4. CASE HcHalt \/ HcStart \/ HcReady \/ BiosRun
    <3>1. Leads(regs') = Leads(regs) /\ regs'.hcrst = regs.hcrst
      BY <2>1, <2>4 DEF HcHalt, HcStart, HcReady, BiosRun, Leads, Regs
    <3> QED
      BY <3>1
  <2>5. CASE Reset
    <3>1. Leads(regs') = Leads(regs)
      BY <2>1, <2>5 DEF Reset, Leads, Regs
    <3> QED
      BY <2>5, <3>1 DEF Reset
  <2>6. CASE HcReset
    BY <2>6 DEF HcReset, ResetRegs
  <2>7. CASE EnableSlots \/ WriteDCBAAP \/ InitializeCommandRing \/ InitializeEventRing
    <3>1. step \in {"slots", "dcbaap", "cr", "er"}
      BY <2>7 DEF EnableSlots, WriteDCBAAP, InitializeCommandRing, InitializeEventRing, Fail
    <3>2. regs.halted /\ ~regs.hcrst /\ ~regs.cnr
      BY <3>1
    <3>3. regs'.hcrst = regs.hcrst
      <4>1. CASE EnableSlots \/ WriteDCBAAP
        BY <2>1, <4>1 DEF EnableSlots, WriteDCBAAP, Regs
      <4>2. CASE InitializeCommandRing \/ InitializeEventRing
        BY <2>1, <4>2, RingSteps, RingRegisters
      <4> QED
        BY <2>7, <4>1, <4>2
    <3> QED
      BY <3>2, <3>3
  <2>8. UNCHANGED regs \/ Stop \/ EnableInterrupts \/ Run \/ HcHalt \/ HcStart \/ HcReady
        \/ BiosRun \/ Reset \/ HcReset \/ EnableSlots \/ WriteDCBAAP \/ InitializeCommandRing
        \/ InitializeEventRing
    BY DEF StartUp, Hardware, TakeController, SetUp, Lookup, LookupXHC, WriteMSIHeader,
      WriteMSIAddr, WriteMSIData, ReadBar, SwitchEhci2Xhci, InitializeDevmgr,
      RequestHCOwnership, OwnsHC, Halted, ResetDone, AllocScratchpads, AllocScratchPage,
      Running, HcEvent, BiosRelease
  <2> QED
    BY <2>2, <2>3, <2>4, <2>5, <2>6, <2>7, <2>8
<1> QED
  BY <1>1, StartAlways, OrderAlways, PTL DEF Spec, SetUpInOrder

-----------------------------------------------------------------------------
(* The pool.                                                               *)

\* The pool behind a call of AllocMem that returned b.
TookFrom(bs, b, size, alignment, boundary) ==
  IF b.mem = 0 THEN bs ELSE bs \cup {Block(b, size, alignment, boundary)}

LEMMA BlockAdded ==
  ASSUME machine \in Machines, NEW bs, NEW ptr, PoolSound(bs, ptr),
         NEW size, NEW alignment, NEW boundary, Request(size, alignment, boundary),
         NEW b, b = Alloc(ptr, size, alignment, boundary)
  PROVE  PoolSound(TookFrom(bs, b, size, alignment, boundary), b.ptr)
<1>1. machine.pool \in Nat \ {0} /\ kMemoryPoolSize \in Nat
  BY MachineFacts
<1>2. ptr \in Nat /\ machine.pool <= ptr /\ size \in Nat \ {0}
  BY DEF PoolSound, Request
<1>3. /\ b.mem \in Nat /\ b.ptr \in Nat /\ ptr <= b.ptr
      /\ b.mem # 0 => /\ GoodPlace(b.mem, ptr, size, alignment, boundary)
                      /\ b.ptr = b.mem + size
                      /\ b.ptr <= machine.pool + kMemoryPoolSize
  BY <1>1, <1>2, Allocated
<1>4. \A c \in bs : c.mem \in Nat /\ c.size \in Nat \ {0} /\ c.mem + c.size <= b.ptr
                    /\ c.mem + c.size <= ptr /\ Promised(c)
  BY <1>2, <1>3 DEF PoolSound
<1>5. CASE b.mem = 0
  <2>1. TookFrom(bs, b, size, alignment, boundary) = bs
    BY <1>5 DEF TookFrom
  <2> QED
    BY <1>1, <1>2, <1>3, <1>4, <2>1 DEF PoolSound
<1>6. CASE b.mem # 0
  <2> DEFINE n == Block(b, size, alignment, boundary)
  <2>1. TookFrom(bs, b, size, alignment, boundary) = bs \cup {n}
    BY <1>6 DEF TookFrom
  <2>2. n.mem = b.mem /\ n.size = size /\ n.alignment = alignment /\ n.boundary = boundary
    BY DEF Block
  <2> HIDE DEF n
  <2>3. ptr <= n.mem /\ n.mem + n.size = b.ptr /\ machine.pool <= n.mem
    BY <1>1, <1>2, <1>3, <1>6, <2>2 DEF GoodPlace
  <2>4. Promised(n)
    BY <1>1, <1>2, <1>3, <1>6, <2>2, <2>3 DEF GoodPlace, Promised
  <2>5. \A c \in bs : c.mem + c.size <= n.mem
    BY <1>2, <1>3, <1>4, <2>2, <2>3
  <2>6. \A c, d \in bs \cup {n} : c = d \/ c.mem + c.size <= d.mem \/ d.mem + d.size <= c.mem
    <3>1. \A c, d \in bs : c = d \/ c.mem + c.size <= d.mem \/ d.mem + d.size <= c.mem
      BY DEF PoolSound
    <3> QED
      BY <2>5, <3>1
  <2>7. \A c \in bs \cup {n} :
          c.mem \in Nat /\ c.size \in Nat \ {0} /\ c.mem + c.size <= b.ptr /\ Promised(c)
    BY <1>2, <1>3, <1>4, <2>2, <2>3, <2>4
  <2>8. b.ptr \in Nat /\ machine.pool <= b.ptr
    BY <1>1, <1>2, <1>3
  <2> QED
    BY <2>1, <2>6, <2>7, <2>8 DEF PoolSound
<1> QED
  BY <1>5, <1>6

\* The five actions that call AllocMem.
Allocating ==
  \/ InitializeDevmgr \/ AllocScratchpads \/ AllocScratchPage
  \/ InitializeCommandRing \/ InitializeEventRing

\* What the two calls of DeviceManager::Initialize do to the pool.
LEMMA DevmgrBlocks ==
  ASSUME StartInv, PoolInv, InitializeDevmgr
  PROVE  LET size == PointerSize * (kDeviceSize + 1)
             d == Alloc(alloc_ptr, size, 0, 0)
             c == Alloc(d.ptr, size, 64, 4096)
         IN /\ PoolSound(blocks', alloc_ptr') /\ alloc_ptr' = c.ptr
            /\ Block(c, size, 64, 4096) \in blocks'
            /\ c.mem % 64 = 0 /\ dcbaa'.ptr = c.mem
<1> DEFINE size == PointerSize * (kDeviceSize + 1)
           d == Alloc(alloc_ptr, size, 0, 0)
           c == Alloc(d.ptr, size, 64, 4096)
<1>1. machine \in Machines /\ Request(size, 0, 0) /\ Request(size, 64, 4096)
  BY Requests DEF StartInv, StartUpTypeOK
<1>2. /\ d.mem # 0 /\ c.mem # 0 /\ step = "devmgr" /\ alloc_ptr' = c.ptr
      /\ blocks' = {Block(d, size, 0, 0), Block(c, size, 64, 4096)}
      /\ dcbaa' = [ptr |-> c.mem, zero |-> 0]
  BY DEF InitializeDevmgr, Go
<1> HIDE DEF size, d, c
<1>3. PoolSound(blocks, alloc_ptr) /\ blocks = {}
  BY <1>2 DEF PoolInv, BeforeDevmgr
<1>4. PoolSound({Block(d, size, 0, 0)}, d.ptr)
  <2>1. PoolSound(TookFrom(blocks, d, size, 0, 0), d.ptr)
    BY <1>1, <1>3, BlockAdded DEF d
  <2>2. TookFrom(blocks, d, size, 0, 0) = {Block(d, size, 0, 0)}
    BY <1>2, <1>3 DEF TookFrom
  <2> QED
    BY <2>1, <2>2
<1>5. PoolSound({Block(d, size, 0, 0), Block(c, size, 64, 4096)}, c.ptr)
  <2>1. PoolSound(TookFrom({Block(d, size, 0, 0)}, c, size, 64, 4096), c.ptr)
    BY <1>1, <1>4, BlockAdded DEF c
  <2>2. TookFrom({Block(d, size, 0, 0)}, c, size, 64, 4096) =
          {Block(d, size, 0, 0), Block(c, size, 64, 4096)}
    BY <1>2 DEF TookFrom
  <2> QED
    BY <2>1, <2>2
<1>6. c.mem % 64 = 0
  <2>1. Promised(Block(c, size, 64, 4096))
    BY <1>5 DEF PoolSound
  <2> QED
    BY <2>1 DEF Promised, Block
<1> QED
  BY <1>2, <1>5, <1>6 DEF size, d, c

\* What one call does.
LEMMA OneBlock ==
  ASSUME StartInv, PoolInv, NEW size, NEW alignment, NEW boundary,
         Request(size, alignment, boundary),
         NEW b, b = Alloc(alloc_ptr, size, alignment, boundary),
         Took(b, size, alignment, boundary)
  PROVE  PoolSound(blocks', alloc_ptr')
<1>1. machine \in Machines /\ PoolSound(blocks, alloc_ptr)
  BY DEF StartInv, StartUpTypeOK, PoolInv
<1>2. alloc_ptr' = b.ptr /\ blocks' = TookFrom(blocks, b, size, alignment, boundary)
  BY DEF Took, TookFrom
<1> QED
  BY <1>1, <1>2, BlockAdded

\* What the two calls of EventRing::Initialize do.
LEMMA EventRingBlocks ==
  ASSUME StartInv, PoolInv, InitializeEventRing
  PROVE  PoolSound(blocks', alloc_ptr')
<1> DEFINE size == TRBSize * RingSize
           b == Alloc(alloc_ptr, size, 64, 65536)
           t == Alloc(b.ptr, TRBSize, 64, 65536)
           bs == TookFrom(blocks, b, size, 64, 65536)
<1>1. machine \in Machines /\ Request(size, 64, 65536) /\ Request(TRBSize, 64, 65536)
      /\ PoolSound(blocks, alloc_ptr)
  BY Requests DEF StartInv, StartUpTypeOK, PoolInv
<1>2. \/ b.mem = 0 /\ alloc_ptr' = b.ptr /\ blocks' = blocks
      \/ b.mem # 0 /\ t.mem = 0 /\ alloc_ptr' = t.ptr
         /\ blocks' = blocks \cup {Block(b, size, 64, 65536)}
      \/ b.mem # 0 /\ t.mem # 0 /\ alloc_ptr' = t.ptr
         /\ blocks' = blocks \cup {Block(b, size, 64, 65536), Block(t, TRBSize, 64, 65536)}
  BY DEF InitializeEventRing, Took
<1> HIDE DEF size, b, t, bs
<1>3. PoolSound(bs, b.ptr)
  BY <1>1, BlockAdded DEF b, bs
<1>4. PoolSound(TookFrom(bs, t, TRBSize, 64, 65536), t.ptr)
  BY <1>1, <1>3, BlockAdded DEF t
<1>5. CASE b.mem = 0 /\ alloc_ptr' = b.ptr /\ blocks' = blocks
  BY <1>3, <1>5 DEF bs, TookFrom
<1>6. CASE /\ b.mem # 0 /\ t.mem = 0 /\ alloc_ptr' = t.ptr
           /\ blocks' = blocks \cup {Block(b, size, 64, 65536)}
  BY <1>4, <1>6 DEF bs, TookFrom
<1>7. CASE /\ b.mem # 0 /\ t.mem # 0 /\ alloc_ptr' = t.ptr
           /\ blocks' = blocks \cup {Block(b, size, 64, 65536), Block(t, TRBSize, 64, 65536)}
  <2>1. TookFrom(bs, t, TRBSize, 64, 65536) = blocks'
    BY <1>7 DEF bs, TookFrom
  <2> QED
    BY <1>4, <1>7, <2>1
<1> QED
  BY <1>2, <1>5, <1>6, <1>7

LEMMA PoolInitially == Init => PoolInv
<1> SUFFICES ASSUME Init PROVE PoolInv
  OBVIOUS
<1>1. PICK s \in Systems : StartUpInit(s.machine)
  BY DEF Init
<1>2. machine \in Machines /\ alloc_ptr = machine.pool /\ blocks = {}
  BY <1>1, BootAssumption DEF StartUpInit
<1> QED
  BY <1>2, MachineFacts DEF PoolInv, PoolSound

\* Every other step leaves the pool alone and stays on its side of devmgr.
LEMMA PoolAlone ==
  ASSUME StartUp \/ Hardware, ~Allocating
  PROVE  /\ UNCHANGED <<machine, memory_pool, dcbaa, scratch>>
         /\ step \in BeforeDevmgr <=> step' \in BeforeDevmgr
<1> USE DEF card, tables, Go, BeforeDevmgr
<1>1. CASE Lookup
  BY <1>1 DEF Lookup, LookupXHC, WriteMSIHeader, WriteMSIAddr, WriteMSIData, ReadBar,
    SwitchEhci2Xhci
<1>2. CASE RequestHCOwnership \/ OwnsHC \/ Stop \/ Halted \/ Reset \/ ResetDone
  BY <1>2 DEF RequestHCOwnership, OwnsHC, Stop, Halted, Reset, ResetDone
<1>3. CASE EnableSlots \/ WriteDCBAAP \/ EnableInterrupts \/ Run \/ Running
  BY <1>3 DEF EnableSlots, WriteDCBAAP, EnableInterrupts, Run, Running
<1>4. CASE Hardware
  BY <1>4 DEF Hardware, HcHalt, HcStart, HcReset, HcReady, HcEvent, BiosRun, BiosRelease
<1> QED
  BY <1>1, <1>2, <1>3, <1>4 DEF StartUp, TakeController, SetUp, Allocating

LEMMA PoolSteps ==
  ASSUME StartInv, PoolInv, StartUp \/ Hardware
  PROVE  PoolInv'
<1>1. ASSUME PoolSound(blocks', alloc_ptr'), UNCHANGED machine, step' \notin BeforeDevmgr
      PROVE  PoolInv'
  BY <1>1 DEF PoolInv, PoolSound, Promised, BeforeDevmgr
<1> USE DEF Go, BeforeDevmgr, card
<1>2. CASE InitializeDevmgr
  <2>1. step' = "own" /\ machine' = machine
    BY <1>2 DEF InitializeDevmgr
  <2> QED
    BY <1>1, <1>2, <2>1, DevmgrBlocks
<1>3. CASE AllocScratchpads
  <2> DEFINE size == PointerSize * machine.scratchpads
             b == Alloc(alloc_ptr, size, 64, 4096)
  <2>1. step = "scratchpads" /\ step' = "pages" /\ machine' = machine
        /\ Took(b, size, 64, 4096)
    BY <1>3 DEF AllocScratchpads
  <2>2. Request(size, 64, 4096)
    BY <2>1, Requests, MachineFacts DEF StartInv, StartUpTypeOK, ScratchInv
  <2> HIDE DEF size, b
  <2>3. PoolSound(blocks', alloc_ptr')
    BY <2>1, <2>2, OneBlock DEF b
  <2> QED
    BY <1>1, <2>1, <2>3
<1>4. CASE AllocScratchPage
  <2> DEFINE b == Alloc(alloc_ptr, 4096, 4096, 4096)
  <2>1. step' \in {"dcbaap", "pages"} /\ machine' = machine /\ Took(b, 4096, 4096, 4096)
    BY <1>4 DEF AllocScratchPage
  <2> HIDE DEF b
  <2>2. PoolSound(blocks', alloc_ptr')
    BY <2>1, OneBlock, Requests DEF b, StartInv, StartUpTypeOK
  <2> QED
    BY <1>1, <2>1, <2>2
<1>5. CASE InitializeCommandRing
  <2> DEFINE size == TRBSize * RingSize
             b == Alloc(alloc_ptr, size, 64, 65536)
  <2>1. step' \in {"run", "er"} /\ machine' = machine /\ Took(b, size, 64, 65536)
    BY <1>5 DEF InitializeCommandRing, Fail
  <2>2. Request(size, 64, 65536)
    BY Requests DEF StartInv, StartUpTypeOK
  <2> HIDE DEF size, b
  <2>3. PoolSound(blocks', alloc_ptr')
    BY <2>1, <2>2, OneBlock DEF b
  <2> QED
    BY <1>1, <2>1, <2>3
<1>6. CASE InitializeEventRing
  <2>1. step' \in {"run", "enable"} /\ machine' = machine
    BY <1>6 DEF InitializeEventRing, Fail
  <2> QED
    BY <1>1, <1>6, <2>1, EventRingBlocks
<1>7. CASE ~Allocating
  BY <1>7, PoolAlone DEF PoolInv, PoolSound, Promised, memory_pool
<1> QED
  BY <1>2, <1>3, <1>4, <1>5, <1>6, <1>7 DEF Allocating

LEMMA PoolStep == StartInv /\ PoolInv /\ [Next]_vars => PoolInv'
<1>1. UNCHANGED startup /\ PoolInv => PoolInv'
  BY DEF startup, card, memory_pool, PoolInv, PoolSound, Promised
<1> QED
  BY <1>1, StartUpSteps, PoolSteps

LEMMA PoolAlways == Spec => []PoolInv
BY StartAlways, PoolInitially, PoolStep, PTL DEF Spec

(* What memory.hpp promises of AllocMem, over all blocks of a start: aligned,
   across no boundary, inside the pool, none over another (AllocMem). *)
THEOREM BlocksStayApart == Spec => []PoolBlocksApart
<1>1. PoolInv => PoolBlocksApart
  BY DEF PoolInv, PoolSound, Promised, PoolBlocksApart
<1> QED
  BY <1>1, PoolAlways, PTL

\* How far one call moves alloc_ptr, and that it fails only at the end of the pool.
LEMMA Moved0 ==
  ASSUME machine \in Machines, NEW ptr \in Nat, machine.pool <= ptr,
         NEW size, Request(size, 0, 0), NEW b, b = Alloc(ptr, size, 0, 0)
  PROVE  /\ b.ptr \in Nat /\ machine.pool <= b.ptr /\ b.ptr <= ptr + size
         /\ ptr + size <= machine.pool + kMemoryPoolSize => b.mem # 0
<1> DEFINE p == Placed(ptr, size, 0, 0)
<1>1. size \in Nat \ {0} /\ machine.pool \in Nat \ {0} /\ kMemoryPoolSize \in Nat
  BY MachineFacts DEF Request
<1>2. /\ b.ptr \in Nat /\ ptr <= b.ptr /\ b.ptr <= p + size
      /\ b.mem = 0 <=> machine.pool + kMemoryPoolSize < p + size
  BY <1>1, Allocated
<1>3. p = ptr
  BY <1>1, PlacedAnywhere
<1> HIDE DEF p
<1> QED
  BY <1>1, <1>2, <1>3

LEMMA Moved64 ==
  ASSUME machine \in Machines, NEW ptr \in Nat, machine.pool <= ptr,
         NEW size, NEW boundary, Request(size, 64, boundary),
         NEW b, b = Alloc(ptr, size, 64, boundary)
  PROVE  /\ b.ptr \in Nat /\ machine.pool <= b.ptr /\ b.ptr <= ptr + (62 + size + size)
         /\ ptr + (62 + size + size) <= machine.pool + kMemoryPoolSize => b.mem # 0
         /\ boundary = 4096 /\ ptr + (62 + 4096 + size) <= machine.pool + kMemoryPoolSize =>
              b.mem # 0
<1> DEFINE p == Placed(ptr, size, 64, boundary)
<1>1. size \in Nat \ {0} /\ machine.pool \in Nat \ {0} /\ kMemoryPoolSize \in Nat
  BY MachineFacts DEF Request
<1>2. /\ b.ptr \in Nat /\ ptr <= b.ptr /\ b.ptr <= p + size
      /\ b.mem = 0 <=> machine.pool + kMemoryPoolSize < p + size
  BY <1>1, Allocated
<1>3. boundary = 4096 \/ boundary = 65536
  BY DEF Request
<1>4. p \in Nat /\ p < ptr + 63 + size /\ (boundary = 4096 => p < ptr + 63 + 4096)
  <2>1. CASE boundary = 4096
    BY <1>1, <2>1, Placed64in4096 DEF GoodPlace
  <2>2. CASE boundary = 65536
    BY <1>1, <2>2, Placed64in65536 DEF GoodPlace
  <2> QED
    BY <1>3, <2>1, <2>2
<1> HIDE DEF p
<1> QED
  BY <1>1, <1>2, <1>4

LEMMA MovedPage ==
  ASSUME machine \in Machines, NEW ptr \in Nat, machine.pool <= ptr,
         NEW b, b = Alloc(ptr, 4096, 4096, 4096)
  PROVE  /\ b.ptr \in Nat /\ b.mem \in Nat /\ machine.pool <= b.ptr /\ b.ptr <= ptr + 8191
         /\ ptr % 4096 = 0 => b.ptr <= ptr + 4096
         /\ ptr + 8191 <= machine.pool + kMemoryPoolSize => b.mem # 0
         /\ ptr % 4096 = 0 /\ ptr + 4096 <= machine.pool + kMemoryPoolSize => b.mem # 0
<1> DEFINE p == Placed(ptr, 4096, 4096, 4096)
<1>1. machine.pool \in Nat \ {0} /\ kMemoryPoolSize \in Nat /\ Request(4096, 4096, 4096)
  BY MachineFacts, Requests
<1>2. /\ b.ptr \in Nat /\ b.mem \in Nat /\ ptr <= b.ptr /\ b.ptr <= p + 4096
      /\ b.mem = 0 <=> machine.pool + kMemoryPoolSize < p + 4096
  BY <1>1, Allocated
<1>3. p \in Nat /\ p <= ptr + 4095 /\ (ptr % 4096 = 0 => p = ptr)
  BY PlacedPage DEF GoodPlace
<1> HIDE DEF p
<1> QED
  BY <1>1, <1>2, <1>3

LEMMA PageAligned ==
  ASSUME machine \in Machines, NEW ptr \in Nat, machine.pool <= ptr,
         NEW b, b = Alloc(ptr, 4096, 4096, 4096), b.mem # 0
  PROVE  b.ptr % 4096 = 0
<1>1. machine.pool \in Nat \ {0} /\ kMemoryPoolSize \in Nat /\ Request(4096, 4096, 4096)
  BY MachineFacts, Requests
<1>2. GoodPlace(b.mem, ptr, 4096, 4096, 4096) /\ b.ptr = b.mem + 4096
  BY <1>1, Allocated
<1>3. b.mem \in Nat /\ b.mem % 4096 = 0
  BY <1>2 DEF GoodPlace
<1> QED
  BY <1>2, <1>3

LEMMA RoomInitially == Init => RoomInv
<1> SUFFICES ASSUME Init PROVE RoomInv
  OBVIOUS
<1>1. PICK s \in Systems : StartUpInit(s.machine)
  BY DEF Init
<1>2. machine \in Machines /\ alloc_ptr = machine.pool /\ scratch = <<>> /\ step = "lookup"
      /\ init_err = "none"
  BY <1>1, BootAssumption DEF StartUpInit
<1>3. 0 \notin Range(scratch)
  BY <1>2 DEF Range
<1> QED
  BY <1>2, <1>3, MachineFacts DEF RoomInv, BeforeDevmgr, Started

LEMMA RoomSteps ==
  ASSUME KernelSizes, StartInv, RoomInv, StartUp \/ Hardware
  PROVE  RoomInv'
<1>1. machine \in Machines /\ machine.pool \in Nat \ {0} /\ machine.scratchpads \in Nat
      /\ kMemoryPoolSize \in Nat /\ kMemoryPoolSize >= 131072
      /\ kDeviceSize \in Nat \ {0} /\ kDeviceSize <= 8 /\ RingSize \in Nat \ {0} /\ RingSize <= 32
      /\ alloc_ptr \in Nat /\ machine.pool <= alloc_ptr /\ scratch \in Seq(Nat)
  BY MachineFacts DEF StartInv, StartUpTypeOK, KernelSizes
<1> USE DEF card, tables, Go, BeforeDevmgr, Started
<1>2. CASE InitializeDevmgr
  <2> DEFINE size == PointerSize * (kDeviceSize + 1)
             d == Alloc(alloc_ptr, size, 0, 0)
             c == Alloc(d.ptr, size, 64, 4096)
  <2>1. step = "devmgr" /\ step' = "own" /\ alloc_ptr' = c.ptr
        /\ UNCHANGED <<machine, scratch, init_err>>
    BY <1>2 DEF InitializeDevmgr
  <2>2. size \in Nat /\ size <= 72 /\ Request(size, 0, 0) /\ Request(size, 64, 4096)
    BY <1>1, Requests DEF PointerSize
  <2> HIDE DEF size, d, c
  <2>3. d.ptr \in Nat /\ machine.pool <= d.ptr /\ d.ptr <= alloc_ptr + size
    BY <1>1, <2>2, Moved0 DEF d
  <2>4. c.ptr \in Nat /\ c.ptr <= d.ptr + (62 + size + size)
    BY <1>1, <2>2, <2>3, Moved64 DEF c
  <2>5. alloc_ptr' - machine.pool <= 278
    BY <1>1, <2>1, <2>2, <2>3, <2>4 DEF RoomInv
  <2> QED
    BY <2>1, <2>5 DEF RoomInv
<1>3. CASE AllocScratchpads
  <2> DEFINE size == PointerSize * machine.scratchpads
             b == Alloc(alloc_ptr, size, 64, 4096)
  <2>1. step = "scratchpads" /\ step' = "pages" /\ alloc_ptr' = b.ptr /\ b.mem # 0
        /\ UNCHANGED <<machine, scratch, init_err>>
    BY <1>3 DEF AllocScratchpads, Took
  <2>2. machine.scratchpads > 0 /\ scratch = <<>> /\ Request(size, 64, 4096)
    BY <1>1, <2>1, Requests DEF StartInv, ScratchInv
  <2>3. size \in Nat /\ (machine.scratchpads <= 30 => size <= 240)
    BY <1>1 DEF PointerSize
  <2> HIDE DEF size, b
  <2>4. b.ptr \in Nat /\ b.ptr <= alloc_ptr + (62 + size + size)
    BY <1>1, <2>2, Moved64 DEF b
  <2>5. alloc_ptr - machine.pool <= 278
    BY <2>1 DEF RoomInv
  <2>6. machine.scratchpads <= 30 => alloc_ptr' - machine.pool <= 820
    BY <1>1, <2>1, <2>3, <2>4, <2>5
  <2> QED
    BY <2>1, <2>2, <2>6 DEF RoomInv
<1>4. CASE AllocScratchPage
  <2> DEFINE b == Alloc(alloc_ptr, 4096, 4096, 4096)
             n == Len(scratch)
  <2>1. step = "pages" /\ alloc_ptr' = b.ptr /\ scratch' = Append(scratch, b.mem)
        /\ step' = (IF Len(scratch') = machine.scratchpads THEN "dcbaap" ELSE "pages")
        /\ UNCHANGED <<machine, init_err>>
    BY <1>4 DEF AllocScratchPage, Took
  <2>2. n \in Nat /\ n < machine.scratchpads /\ Len(scratch') = n + 1
    BY <1>1, <2>1 DEF StartInv, ScratchInv
  <2>3. CASE machine.scratchpads > 30
    BY <1>1, <2>1, <2>3 DEF RoomInv
  <2>4. CASE machine.scratchpads <= 30
    <3>1. Request(4096, 4096, 4096)
      BY <1>1, Requests
    <3>2. (scratch = <<>>) <=> (n = 0)
      BY <1>1, EmptySeq
    <3>3. IF n = 0 THEN alloc_ptr - machine.pool <= 820
          ELSE alloc_ptr - machine.pool <= 820 + 4095 + 4096 * n /\ alloc_ptr % 4096 = 0
      BY <2>1, <2>4, <3>2 DEF RoomInv
    <3> HIDE DEF b, n
    <3>4. /\ b.ptr \in Nat /\ b.mem \in Nat /\ b.ptr <= alloc_ptr + 8191
          /\ alloc_ptr % 4096 = 0 => b.ptr <= alloc_ptr + 4096
          /\ alloc_ptr + 8191 <= machine.pool + kMemoryPoolSize => b.mem # 0
          /\ alloc_ptr % 4096 = 0 /\ alloc_ptr + 4096 <= machine.pool + kMemoryPoolSize =>
               b.mem # 0
      BY <1>1, MovedPage DEF b
    <3>5. b.ptr - machine.pool <= 820 + 4095 + 4096 * (n + 1) /\ b.mem # 0
      <4>1. CASE n = 0
        BY <1>1, <3>3, <3>4, <4>1
      <4>2. CASE n # 0
        <5>1. alloc_ptr % 4096 = 0 /\ alloc_ptr - machine.pool <= 820 + 4095 + 4096 * n
          BY <3>3, <4>2
        <5>2. b.ptr <= alloc_ptr + 4096
              /\ (alloc_ptr + 4096 <= machine.pool + kMemoryPoolSize => b.mem # 0)
          BY <3>4, <5>1
        <5>3. n \in Nat /\ n <= 29 /\ machine.pool \in Nat /\ alloc_ptr \in Nat /\ b.ptr \in Nat
              /\ kMemoryPoolSize \in Nat /\ kMemoryPoolSize >= 131072
          BY <1>1, <2>2, <2>4, <3>4
        <5>4. alloc_ptr + 4096 <= machine.pool + kMemoryPoolSize
          BY <5>1, <5>3
        <5> QED
          BY <5>1, <5>2, <5>3, <5>4
      <4> QED
        BY <4>1, <4>2
    <3>6. b.ptr % 4096 = 0
      BY <1>1, <3>5, PageAligned DEF b
    <3>7. 0 \notin Range(scratch')
      <4>1. 0 \notin Range(scratch)
        BY <2>4 DEF RoomInv
      <4>2. Range(scratch') = Range(scratch) \cup {b.mem}
        <5>1. scratch' = Append(scratch, b.mem) /\ DOMAIN scratch = 1 .. n
              /\ DOMAIN scratch' = 1 .. n + 1 /\ scratch'[n + 1] = b.mem
              /\ \A i \in 1 .. n : scratch'[i] = scratch[i]
          BY <1>1, <2>1, <3>4 DEF n
        <5> QED
          BY <2>2, <5>1 DEF Range
      <4> QED
        BY <3>5, <4>1, <4>2
    <3>8. scratch' # <<>>
      BY <2>2, EmptySeq
    <3>9. Len(scratch') = machine.scratchpads => alloc_ptr' - machine.pool <= 127795
      BY <1>1, <2>1, <2>2, <2>4, <3>4, <3>5
    <3>10. init_err # "kNoEnoughMemory"
      BY <2>4 DEF RoomInv
    <3> QED
      BY <2>1, <2>2, <2>4, <3>5, <3>6, <3>7, <3>8, <3>9, <3>10 DEF RoomInv
  <2> QED
    BY <1>1, <2>3, <2>4
<1>5. CASE InitializeCommandRing
  <2> DEFINE size == TRBSize * RingSize
             b == Alloc(alloc_ptr, size, 64, 65536)
  <2>1. /\ step = "cr" /\ alloc_ptr' = b.ptr /\ UNCHANGED <<machine, scratch>>
        /\ \/ b.mem = 0 /\ step' = "run"
           \/ step' = "er" /\ init_err' = init_err
    BY <1>5 DEF InitializeCommandRing, Fail, Took
  <2>2. CASE machine.scratchpads > 30
    BY <1>1, <2>1, <2>2 DEF RoomInv
  <2>3. CASE machine.scratchpads <= 30
    <3>1. size \in Nat /\ size <= 512 /\ Request(size, 64, 65536)
      BY <1>1, Requests DEF TRBSize
    <3> HIDE DEF size, b
    <3>2. alloc_ptr - machine.pool <= 127795 /\ init_err # "kNoEnoughMemory"
          /\ 0 \notin Range(scratch)
      BY <2>1, <2>3 DEF RoomInv
    <3>3. b.ptr \in Nat /\ b.ptr <= alloc_ptr + (62 + size + size)
          /\ (alloc_ptr + (62 + size + size) <= machine.pool + kMemoryPoolSize => b.mem # 0)
      BY <1>1, <3>1, Moved64 DEF b
    <3>4. b.mem # 0 /\ alloc_ptr' - machine.pool <= 128881
      BY <1>1, <2>1, <3>1, <3>2, <3>3
    <3> QED
      BY <2>1, <3>2, <3>4 DEF RoomInv
  <2> QED
    BY <1>1, <2>2, <2>3
<1>6. CASE InitializeEventRing
  <2> DEFINE size == TRBSize * RingSize
             b == Alloc(alloc_ptr, size, 64, 65536)
             t == Alloc(b.ptr, TRBSize, 64, 65536)
  <2>1. /\ step = "er" /\ UNCHANGED <<machine, scratch>>
        /\ \/ b.mem = 0 /\ step' = "run"
           \/ t.mem = 0 /\ step' = "run"
           \/ step' = "enable" /\ init_err' = init_err
    BY <1>6 DEF InitializeEventRing, Fail
  <2>2. CASE machine.scratchpads > 30
    BY <1>1, <2>1, <2>2 DEF RoomInv
  <2>3. CASE machine.scratchpads <= 30
    <3>1. size \in Nat /\ size <= 512 /\ Request(size, 64, 65536) /\ Request(TRBSize, 64, 65536)
          /\ TRBSize = 16
      BY <1>1, Requests DEF TRBSize
    <3> HIDE DEF size, b, t
    <3>2. alloc_ptr - machine.pool <= 128881 /\ init_err # "kNoEnoughMemory"
          /\ 0 \notin Range(scratch)
      BY <2>1, <2>3 DEF RoomInv
    <3>3. b.ptr \in Nat /\ machine.pool <= b.ptr /\ b.ptr <= alloc_ptr + (62 + size + size)
          /\ (alloc_ptr + (62 + size + size) <= machine.pool + kMemoryPoolSize => b.mem # 0)
      BY <1>1, <3>1, Moved64 DEF b
    <3>6. machine \in Machines /\ machine.pool <= b.ptr /\ b.ptr \in Nat
          /\ Request(TRBSize, 64, 65536)
      BY <1>1, <3>1, <3>3
    <3>4. b.ptr + (62 + TRBSize + TRBSize) <= machine.pool + kMemoryPoolSize => t.mem # 0
      BY <3>6, Moved64 DEF t
    <3>5. b.mem # 0 /\ t.mem # 0
      BY SMTT(60), <1>1, <3>1, <3>2, <3>3, <3>4
    <3> QED
      BY <2>1, <3>2, <3>5 DEF RoomInv
  <2> QED
    BY <1>1, <2>2, <2>3
<1>7. CASE EnableSlots
  <2>1. step = "slots" /\ step' \in {"scratchpads", "dcbaap"}
        /\ (step' = "scratchpads" <=> machine.scratchpads > 0)
        /\ UNCHANGED <<machine, alloc_ptr, scratch, init_err>>
    BY <1>7 DEF EnableSlots, memory_pool
  <2> QED
    BY <1>1, <2>1 DEF RoomInv
<1>8. CASE WriteDCBAAP \/ EnableInterrupts \/ Run \/ Running
  BY <1>8 DEF WriteDCBAAP, EnableInterrupts, Run, Running, memory_pool, RoomInv
<1>9. CASE RequestHCOwnership \/ OwnsHC \/ Stop \/ Halted \/ Reset \/ ResetDone
  BY <1>9 DEF RequestHCOwnership, OwnsHC, Stop, Halted, Reset, ResetDone, memory_pool, RoomInv
<1>10. CASE Lookup
  BY <1>10 DEF Lookup, LookupXHC, WriteMSIHeader, WriteMSIAddr, WriteMSIData, ReadBar,
    SwitchEhci2Xhci, memory_pool, RoomInv
<1>11. CASE Hardware
  <2>1. UNCHANGED <<step, machine, alloc_ptr, scratch, init_err>>
    BY <1>11 DEF Hardware, HcHalt, HcStart, HcReset, HcReady, HcEvent, BiosRun, BiosRelease,
      memory_pool
  <2> QED
    BY <2>1 DEF RoomInv
<1> QED
  BY <1>2, <1>3, <1>4, <1>5, <1>6, <1>7, <1>8, <1>9, <1>10, <1>11
  DEF StartUp, TakeController, SetUp

LEMMA RoomStep == ASSUME KernelSizes PROVE StartInv /\ RoomInv /\ [Next]_vars => RoomInv'
<1>1. UNCHANGED startup /\ RoomInv => RoomInv'
  BY DEF startup, card, memory_pool, tables, RoomInv
<1> QED
  BY <1>1, StartUpSteps, RoomSteps

LEMMA RoomAlways == ASSUME KernelSizes PROVE Spec => []RoomInv
BY StartAlways, RoomInitially, RoomStep, PTL DEF Spec

\* AllocMem returns the arrays that are used without a look at the pointer: those
\* of DeviceManager::Initialize, and the scratchpad array.
ArraysFit ==
  LET size == PointerSize * (kDeviceSize + 1)
      d == Alloc(alloc_ptr, size, 0, 0)
      c == Alloc(d.ptr, size, 64, 4096)
      pads == Alloc(alloc_ptr, PointerSize * machine.scratchpads, 64, 4096)
  IN /\ step = "devmgr" => d.mem # 0 /\ c.mem # 0
     /\ step = "scratchpads" => pads.mem # 0

(* With the sizes that the kernel is built with, the fresh pool has room for
   both arrays of the device manager, whose error returns (devmgr.cpp:10, 15)
   are never taken, and for the scratchpad array of any controller, whose
   pointer nobody looks at (xhci.cpp:361). *)
THEOREM ArraysAlwaysFit == ASSUME KernelSizes PROVE Spec => []ArraysFit
<1>1. ASSUME StartInv, RoomInv PROVE ArraysFit
  <2> DEFINE size == PointerSize * (kDeviceSize + 1)
             d == Alloc(alloc_ptr, size, 0, 0)
             c == Alloc(d.ptr, size, 64, 4096)
             long == PointerSize * machine.scratchpads
             pads == Alloc(alloc_ptr, long, 64, 4096)
  <2>1. machine \in Machines /\ machine.pool \in Nat \ {0}
        /\ kMemoryPoolSize \in Nat /\ kMemoryPoolSize >= 131072
        /\ kDeviceSize \in Nat \ {0} /\ kDeviceSize <= 8
        /\ alloc_ptr \in Nat /\ machine.pool <= alloc_ptr
    BY <1>1, MachineFacts DEF StartInv, StartUpTypeOK, KernelSizes
  <2>2. size \in Nat /\ size <= 72 /\ Request(size, 0, 0) /\ Request(size, 64, 4096)
    BY <2>1, Requests DEF PointerSize
  <2>3. ASSUME step = "devmgr" PROVE d.mem # 0 /\ c.mem # 0
    <3>1. alloc_ptr = machine.pool
      BY <1>1, <2>1, <2>3 DEF RoomInv, BeforeDevmgr
    <3> HIDE DEF size, d, c
    <3>2. d.ptr \in Nat /\ machine.pool <= d.ptr /\ d.ptr <= alloc_ptr + size
          /\ (alloc_ptr + size <= machine.pool + kMemoryPoolSize => d.mem # 0)
      BY <2>1, <2>2, Moved0 DEF d
    <3>3. d.ptr + (62 + size + size) <= machine.pool + kMemoryPoolSize => c.mem # 0
      BY <2>1, <2>2, <3>2, Moved64 DEF c
    <3> QED
      BY <2>1, <2>2, <3>1, <3>2, <3>3
  <2>4. ASSUME step = "scratchpads" PROVE pads.mem # 0
    <3>1. machine.scratchpads \in 1 .. 1023
      <4>1. machine \in Machine
        BY <2>1, StartUpAssumption
      <4>2. machine.scratchpads \in 0 .. 1023
        BY <4>1 DEF Machine
      <4>3. 0 < machine.scratchpads
        BY <1>1, <2>4, <4>2 DEF StartInv, StartUpTypeOK, ScratchInv, BeforeSlots, BeforeStop,
          BeforeDevmgr
      <4> QED
        BY <4>2, <4>3
    <3>2. long \in Nat /\ long <= 8184
      BY SMTT(60), <3>1 DEF PointerSize
    <3>5. Request(long, 64, 4096)
      BY <2>1, <3>1, Requests
    <3>3. alloc_ptr - machine.pool <= 278
      BY <1>1, <2>4 DEF RoomInv, BeforeDevmgr, Started
    <3> HIDE DEF long, pads
    <3>4. alloc_ptr + (62 + 4096 + long) <= machine.pool + kMemoryPoolSize => pads.mem # 0
      BY <2>1, <3>2, <3>5, Moved64 DEF pads
    <3> QED
      BY <2>1, <3>2, <3>3, <3>4
  <2> QED
    BY <2>3, <2>4 DEF ArraysFit
<1> QED
  BY <1>1, StartAlways, RoomAlways, PTL

-----------------------------------------------------------------------------
(* What the registers lead to.                                             *)

SameLeads ==
  /\ regs'.slots = regs.slots /\ regs'.dcbaap = regs.dcbaap /\ regs'.crcr = regs.crcr
  /\ regs'.erstsz = regs.erstsz /\ regs'.erstba = regs.erstba /\ regs'.erdp = regs.erdp

\* Where a step that neither allocates nor writes one of these registers leads.
Onwards ==
  \/ step' = step /\ init_err' = init_err
  \/ step \in BeforeDevmgr /\ step' \in BeforeDevmgr /\ init_err' = init_err
  \/ /\ step \in BeforeSlots \ BeforeDevmgr /\ init_err' = init_err
     /\ step' \in (BeforeSlots \cup {"slots"}) \ BeforeDevmgr
  \/ step = "enable" /\ step' = "run" /\ init_err' = "kSuccess"
  \/ step \in Started /\ step' \in Started /\ init_err' = init_err

LEMMA Frame ==
  ASSUME StartInv, StartUp \/ Hardware, ~Allocating, ~EnableSlots, ~WriteDCBAAP, ~HcReset
  PROVE  /\ UNCHANGED <<machine, memory_pool, dcbaa, scratch, erst>>
         /\ SameLeads
         /\ Onwards
<1>1. regs \in Regs
  BY DEF StartInv, StartUpTypeOK
<1> USE DEF card, tables, Go, BeforeDevmgr, BeforeStop, BeforeSlots, Started
<1>2. UNCHANGED <<machine, memory_pool, dcbaa, scratch>>
  BY PoolAlone
<1>3. CASE Lookup
  BY <1>2, <1>3 DEF Lookup, LookupXHC, WriteMSIHeader, WriteMSIAddr, WriteMSIData, ReadBar,
    SwitchEhci2Xhci, SameLeads, Onwards
<1>4. CASE RequestHCOwnership \/ OwnsHC \/ Halted \/ ResetDone
  BY <1>2, <1>4 DEF RequestHCOwnership, OwnsHC, Halted, ResetDone, SameLeads, Onwards
<1>5. CASE Stop \/ Reset
  <2>1. SameLeads
    BY <1>1, <1>5 DEF Stop, Reset, SameLeads, Regs
  <2> QED
    BY <1>2, <1>5, <2>1 DEF Stop, Reset, Onwards
<1>6. CASE EnableInterrupts \/ Run
  <2>1. SameLeads
    BY <1>1, <1>6 DEF EnableInterrupts, Run, SameLeads, Regs
  <2> QED
    BY <1>2, <1>6, <2>1 DEF EnableInterrupts, Run, Onwards
<1>7. CASE Running
  BY <1>2, <1>7 DEF Running, SameLeads, Onwards
<1>8. CASE HcHalt \/ HcStart \/ HcReady \/ BiosRun
  <2>1. SameLeads
    BY <1>1, <1>8 DEF HcHalt, HcStart, HcReady, BiosRun, SameLeads, Regs
  <2> QED
    BY <1>2, <1>8, <2>1 DEF HcHalt, HcStart, HcReady, BiosRun, Onwards
<1>9. CASE HcEvent \/ BiosRelease
  BY <1>2, <1>9 DEF HcEvent, BiosRelease, SameLeads, Onwards
<1> QED
  BY <1>3, <1>4, <1>5, <1>6, <1>7, <1>8, <1>9
  DEF StartUp, Hardware, TakeController, SetUp, Allocating

LEMMA ResultInitially == Init => ResultInv
BY DEF Init, StartUpInit, ResultInv, Started

LEMMA ResultSteps ==
  ASSUME StartInv, ResultInv, StartUp \/ Hardware
  PROVE  ResultInv'
<1> USE DEF card, tables, Go, ResultInv, Started
<1>1. CASE InitializeDevmgr \/ AllocScratchpads \/ AllocScratchPage
  BY <1>1 DEF InitializeDevmgr, AllocScratchpads, AllocScratchPage
<1>2. CASE InitializeCommandRing
  BY <1>2 DEF InitializeCommandRing, Fail
<1>3. CASE InitializeEventRing
  BY <1>3 DEF InitializeEventRing, Fail
<1>4. CASE EnableSlots \/ WriteDCBAAP \/ HcReset
  BY <1>4 DEF EnableSlots, WriteDCBAAP, HcReset
<1>5. CASE ~Allocating /\ ~EnableSlots /\ ~WriteDCBAAP /\ ~HcReset
  <2>1. Onwards
    BY <1>5, Frame
  <2> QED
    BY <2>1 DEF Onwards, BeforeSlots, BeforeStop, BeforeDevmgr
<1> QED
  BY <1>1, <1>2, <1>3, <1>4, <1>5 DEF Allocating

LEMMA BlockBelow ==
  ASSUME PoolInv, NEW mem, NEW size, BlockAt(mem, size)
  PROVE  mem \in Nat /\ size \in Nat \ {0} /\ mem + size <= alloc_ptr /\ alloc_ptr \in Nat
BY DEF PoolInv, PoolSound, BlockAt

\* BlockAt of other blocks than the present ones.
Has(bs, mem, size) == \E c \in bs : c.mem = mem /\ c.size = size

\* A block that one call returns is behind all others.
LEMMA NewBlock ==
  ASSUME StartInv, PoolInv, NEW size, NEW alignment, NEW boundary,
         Request(size, alignment, boundary),
         NEW b, b = Alloc(alloc_ptr, size, alignment, boundary), b.mem # 0,
         Block(b, size, alignment, boundary) \in blocks'
  PROVE  Has(blocks', b.mem, size) /\ alloc_ptr <= b.mem /\ b.mem \in Nat
         /\ (alignment > 0 => b.mem % alignment = 0)
<1>1. machine.pool \in Nat \ {0} /\ kMemoryPoolSize \in Nat /\ alloc_ptr \in Nat
      /\ machine.pool <= alloc_ptr
  BY MachineFacts DEF StartInv, StartUpTypeOK
<1>2. GoodPlace(b.mem, alloc_ptr, size, alignment, boundary)
  BY <1>1, Allocated
<1>3. \E c \in blocks' : c.mem = b.mem /\ c.size = size
  BY DEF Block
<1> QED
  BY <1>1, <1>2, <1>3 DEF GoodPlace, Has

LEMMA BlocksGrow ==
  ASSUME StartInv, StartUp \/ Hardware, step \notin BeforeDevmgr
  PROVE  \A mem, size : BlockAt(mem, size) => Has(blocks', mem, size)
<1>1. blocks \subseteq blocks'
  <2>1. CASE InitializeDevmgr
    BY <2>1 DEF InitializeDevmgr, Go, BeforeDevmgr
  <2>2. CASE AllocScratchpads \/ AllocScratchPage
    BY <2>2 DEF AllocScratchpads, AllocScratchPage, Took
  <2>3. CASE InitializeCommandRing
    BY <2>3 DEF InitializeCommandRing, Took
  <2>4. CASE InitializeEventRing
    BY <2>4 DEF InitializeEventRing, Took
  <2>5. CASE ~Allocating
    BY <2>5, PoolAlone DEF memory_pool
  <2> QED
    BY <2>1, <2>2, <2>3, <2>4, <2>5 DEF Allocating
<1> QED
  BY <1>1 DEF BlockAt, Has

LeadInv == ContextsInv /\ CommandRingInv /\ EventRingInv

LEMMA LeadInitially == Init => LeadInv
BY DEF Init, StartUpInit, LeadInv, ContextsInv, CommandRingInv, EventRingInv, Succeeded,
  BeforeSlots, BeforeStop, BeforeDevmgr, Started

LEMMA FrameKeepsLeads ==
  ASSUME StartInv, ResultInv, LeadInv, StartUp \/ Hardware,
         ~Allocating, ~EnableSlots, ~WriteDCBAAP, ~HcReset
  PROVE  LeadInv'
<1>1. UNCHANGED <<machine, blocks, dcbaa, scratch, erst>> /\ SameLeads /\ Onwards
  BY Frame DEF memory_pool
<1>2. \A mem, size : BlockAt(mem, size)' <=> BlockAt(mem, size)
  BY <1>1 DEF BlockAt
<1>3. Succeeded' => Succeeded \/ step = "enable"
  BY <1>1 DEF Onwards, Succeeded, BeforeSlots, BeforeStop, BeforeDevmgr, Started
<1>4. ContextsInv'
  <2>1. step' \notin BeforeDevmgr => step \notin BeforeDevmgr
    BY <1>1 DEF Onwards, BeforeSlots, BeforeStop, BeforeDevmgr, Started
  <2>2. step' \notin BeforeSlots \cup {"slots"} => step \notin BeforeSlots \cup {"slots"}
    BY <1>1 DEF Onwards, BeforeSlots, BeforeStop, BeforeDevmgr, Started
  <2>3. step' \notin BeforeSlots \cup {"slots", "scratchpads"} =>
          step \notin BeforeSlots \cup {"slots", "scratchpads"}
    BY <1>1 DEF Onwards, BeforeSlots, BeforeStop, BeforeDevmgr, Started
  <2>4. step' \in {"cr", "er", "enable"} => step' = step
    BY <1>1 DEF Onwards, BeforeSlots, BeforeStop, BeforeDevmgr, Started
  <2> QED
    BY <1>1, <1>2, <1>3, <2>1, <2>2, <2>3, <2>4 DEF LeadInv, ContextsInv, SameLeads
<1>5. step' \in {"er", "enable"} => step' = step
  BY <1>1 DEF Onwards, BeforeSlots, BeforeStop, BeforeDevmgr, Started
<1>6. CommandRingInv'
  BY <1>1, <1>2, <1>3, <1>5 DEF LeadInv, CommandRingInv, SameLeads
<1>7. EventRingInv'
  <2>1. <<regs.dcbaap, regs.crcr, regs.erdp, regs.erstba>>' =
          <<regs.dcbaap, regs.crcr, regs.erdp, regs.erstba>>
    BY <1>1 DEF SameLeads
  <2> QED
    BY <1>1, <1>2, <1>3, <1>5, <2>1 DEF LeadInv, EventRingInv, SameLeads
<1> QED
  BY <1>4, <1>6, <1>7 DEF LeadInv

LEMMA LeadSteps ==
  ASSUME StartInv, QuietInv, PoolInv, ResultInv, LeadInv, StartUp \/ Hardware
  PROVE  LeadInv'
<1>1. regs \in Regs /\ machine \in Machines /\ dcbaa \in [ptr : Nat, zero : Nat]
  BY DEF StartInv, StartUpTypeOK, ScratchInv
<1>2. init_err = "none" \/ step \in Started
  BY DEF ResultInv
<1> USE DEF card, tables, Go
<1>3. CASE InitializeDevmgr
  <2>1. step' = "own" /\ BlockAt(dcbaa.ptr, PointerSize * (kDeviceSize + 1))'
        /\ dcbaa'.ptr % 64 = 0
    <3> DEFINE size == PointerSize * (kDeviceSize + 1)
               d == Alloc(alloc_ptr, size, 0, 0)
               c == Alloc(d.ptr, size, 64, 4096)
    <3>1. /\ Block(c, size, 64, 4096) \in blocks' /\ c.mem % 64 = 0 /\ dcbaa'.ptr = c.mem
      BY <1>3, DevmgrBlocks
    <3> HIDE DEF size, d, c
    <3>2. Block(c, size, 64, 4096).mem = dcbaa'.ptr /\ Block(c, size, 64, 4096).size = size
      BY <3>1 DEF Block
    <3>3. \E b \in blocks' : b.mem = dcbaa'.ptr /\ b.size = size
      BY <3>1, <3>2
    <3>4. step' = "own"
      BY <1>3 DEF InitializeDevmgr
    <3> QED
      BY <3>1, <3>3, <3>4 DEF BlockAt, size
  <2> QED
    BY <2>1 DEF LeadInv, ContextsInv, CommandRingInv, EventRingInv, Succeeded, BeforeSlots,
      BeforeStop, BeforeDevmgr, Started
<1>4. CASE EnableSlots
  <2>1. step = "slots" /\ step' = (IF machine.scratchpads > 0 THEN "scratchpads" ELSE "dcbaap")
        /\ UNCHANGED <<machine, dcbaa, blocks>> /\ regs'.slots = kDeviceSize
    BY <1>1, <1>4 DEF EnableSlots, memory_pool, Regs
  <2> QED
    BY <2>1 DEF LeadInv, ContextsInv, CommandRingInv, EventRingInv, Succeeded, BeforeSlots,
      BeforeStop, BeforeDevmgr, Started, BlockAt
<1>5. CASE AllocScratchpads
  <2> DEFINE size == PointerSize * machine.scratchpads
             b == Alloc(alloc_ptr, size, 64, 4096)
  <2>1. step = "scratchpads" /\ step' = "pages" /\ UNCHANGED <<machine, regs>> /\ b.mem # 0
        /\ dcbaa'.zero = b.mem /\ dcbaa'.ptr = dcbaa.ptr
        /\ Block(b, size, 64, 4096) \in blocks'
    BY <1>1, <1>5 DEF AllocScratchpads, Took
  <2>2. Request(size, 64, 4096)
    BY <1>1, <2>1, Requests, MachineFacts DEF StartInv, ScratchInv
  <2> HIDE DEF size, b
  <2>3. Has(blocks', b.mem, size)
    BY <2>1, <2>2, NewBlock DEF b
  <2>4. BlockAt(dcbaa.zero, PointerSize * machine.scratchpads)'
    BY <2>1, <2>3 DEF BlockAt, Has, size
  <2>5. step \notin BeforeDevmgr
    BY <2>1 DEF BeforeDevmgr
  <2>6. BlockAt(dcbaa.ptr, PointerSize * (kDeviceSize + 1))' /\ dcbaa'.ptr % 64 = 0
    <3>1. BlockAt(dcbaa.ptr, PointerSize * (kDeviceSize + 1)) /\ dcbaa.ptr % 64 = 0
      BY <2>5 DEF LeadInv, ContextsInv
    <3>2. Has(blocks', dcbaa.ptr, PointerSize * (kDeviceSize + 1))
      BY <2>5, <3>1, BlocksGrow
    <3> QED
      BY <2>1, <3>1, <3>2 DEF BlockAt, Has
  <2> QED
    BY <2>1, <2>4, <2>6 DEF LeadInv, ContextsInv, CommandRingInv, EventRingInv, Succeeded,
      BeforeSlots, BeforeStop, BeforeDevmgr, Started
<1>6. CASE AllocScratchPage
  <2>1. step = "pages" /\ step' \in {"dcbaap", "pages"} /\ UNCHANGED <<machine, regs, dcbaa>>
    BY <1>6 DEF AllocScratchPage
  <2>2. \A mem, size : BlockAt(mem, size) => BlockAt(mem, size)'
    BY <2>1, BlocksGrow DEF BeforeDevmgr, BlockAt, Has
  <2> QED
    BY <2>1, <2>2 DEF LeadInv, ContextsInv, CommandRingInv, EventRingInv, Succeeded,
      BeforeSlots, BeforeStop, BeforeDevmgr, Started
<1>7. CASE WriteDCBAAP
  <2>1. step = "dcbaap" /\ step' = "cr" /\ UNCHANGED <<machine, dcbaa, blocks>>
        /\ regs'.slots = regs.slots /\ regs'.dcbaap = Field(dcbaa.ptr, 64)
    BY <1>1, <1>7 DEF WriteDCBAAP, memory_pool, Regs
  <2>2. regs'.dcbaap = dcbaa.ptr
    BY <1>1, <2>1, FieldNat DEF LeadInv, ContextsInv, BeforeDevmgr
  <2> QED
    BY <2>1, <2>2 DEF LeadInv, ContextsInv, CommandRingInv, EventRingInv, Succeeded,
      BeforeSlots, BeforeStop, BeforeDevmgr, Started, BlockAt
<1>8. CASE InitializeCommandRing
  <2> DEFINE size == TRBSize * RingSize
             b == Alloc(alloc_ptr, size, 64, 65536)
  <2>1. /\ step = "cr" /\ UNCHANGED <<machine, dcbaa>>
        /\ \/ step' = "run" /\ init_err' = "kNoEnoughMemory" /\ regs' = regs
           \/ /\ b.mem # 0 /\ step' = "er" /\ Block(b, size, 64, 65536) \in blocks'
              /\ regs' = RegisterCommandRing(regs, b.mem)
    BY <1>8 DEF InitializeCommandRing, Fail, Took
  <2>2. Request(size, 64, 65536)
    BY <1>1, Requests
  <2> HIDE DEF size, b
  <2>3. \A mem, s : BlockAt(mem, s) => BlockAt(mem, s)'
    BY <2>1, BlocksGrow DEF BeforeDevmgr, BlockAt, Has
  <2>4. regs'.slots = regs.slots /\ regs'.dcbaap = regs.dcbaap
    BY <1>1, <2>1, RingRegisters
  <2>5. BlockAt(dcbaa.ptr, PointerSize * (kDeviceSize + 1)) /\ regs.dcbaap = dcbaa.ptr
    BY <2>1 DEF LeadInv, ContextsInv, BeforeDevmgr
  <2>6. ContextsInv'
    BY <2>1, <2>3, <2>4 DEF LeadInv, ContextsInv, Succeeded, BeforeSlots, BeforeStop,
      BeforeDevmgr, Started
  <2>7. CASE step' = "run" /\ init_err' = "kNoEnoughMemory"
    BY <2>6, <2>7 DEF LeadInv, CommandRingInv, EventRingInv, Succeeded
  <2>8. CASE /\ b.mem # 0 /\ step' = "er" /\ Block(b, size, 64, 65536) \in blocks'
             /\ regs' = RegisterCommandRing(regs, b.mem)
    <3>1. Has(blocks', b.mem, size) /\ alloc_ptr <= b.mem /\ b.mem \in Nat /\ b.mem % 64 = 0
      BY <2>2, <2>8, NewBlock DEF b
    <3>2. regs'.crcr = b.mem
      <4>1. Field(b.mem, 64) = b.mem
        BY <3>1, FieldNat
      <4> QED
        BY <1>1, <2>8, <4>1 DEF RegisterCommandRing, Regs
    <3>3. b.mem # dcbaa.ptr
      BY <2>5, <3>1, BlockBelow
    <3>4. BlockAt(regs.crcr, TRBSize * RingSize)' /\ (regs.crcr # regs.dcbaap)'
      BY <2>4, <2>5, <3>1, <3>2, <3>3 DEF BlockAt, Has, size
    <3>5. step' = "er"
      BY <2>8
    <3> QED
      BY <2>6, <3>4, <3>5
      DEF LeadInv, CommandRingInv, EventRingInv, Succeeded, Started
  <2> QED
    BY <2>1, <2>7, <2>8
<1>9. CASE InitializeEventRing
  <2> DEFINE size == TRBSize * RingSize
             b == Alloc(alloc_ptr, size, 64, 65536)
             t == Alloc(b.ptr, TRBSize, 64, 65536)
  <2>1. /\ step = "er" /\ UNCHANGED <<machine, dcbaa>>
        /\ \/ step' = "run" /\ init_err' = "kNoEnoughMemory" /\ regs' = regs
           \/ /\ b.mem # 0 /\ t.mem # 0 /\ step' = "enable"
              /\ {Block(b, size, 64, 65536), Block(t, TRBSize, 64, 65536)} \subseteq blocks'
              /\ erst' = [base |-> b.mem, size |-> RingSize]
              /\ regs' = RegisterEventRing(regs, b.mem, t.mem)
    BY <1>9 DEF InitializeEventRing, Fail
  <2>2. Request(size, 64, 65536) /\ Request(TRBSize, 64, 65536)
    BY <1>1, Requests
  <2> HIDE DEF size, b, t
  <2>3. \A mem, s : BlockAt(mem, s) => BlockAt(mem, s)'
    BY <2>1, BlocksGrow DEF BeforeDevmgr, BlockAt, Has
  <2>4. regs'.slots = regs.slots /\ regs'.dcbaap = regs.dcbaap /\ regs'.crcr = regs.crcr
    BY <1>1, <2>1, RingRegisters
  <2>5. BlockAt(regs.dcbaap, PointerSize * (kDeviceSize + 1))
        /\ BlockAt(regs.crcr, TRBSize * RingSize) /\ regs.crcr # regs.dcbaap
    BY <2>1 DEF LeadInv, ContextsInv, CommandRingInv, BeforeDevmgr
  <2>6. ContextsInv'
    BY <2>1, <2>3, <2>4 DEF LeadInv, ContextsInv, Succeeded, BeforeSlots, BeforeStop,
      BeforeDevmgr, Started
  <2>7. CASE step' = "run" /\ init_err' = "kNoEnoughMemory"
    BY <2>6, <2>7 DEF LeadInv, CommandRingInv, EventRingInv, Succeeded
  <2>8. CASE /\ b.mem # 0 /\ t.mem # 0 /\ step' = "enable"
             /\ {Block(b, size, 64, 65536), Block(t, TRBSize, 64, 65536)} \subseteq blocks'
             /\ erst' = [base |-> b.mem, size |-> RingSize]
             /\ regs' = RegisterEventRing(regs, b.mem, t.mem)
    <3>1. Has(blocks', b.mem, size) /\ alloc_ptr <= b.mem /\ b.mem \in Nat /\ b.mem % 64 = 0
      BY <2>2, <2>8, NewBlock DEF b
    <3>2. machine.pool \in Nat \ {0} /\ kMemoryPoolSize \in Nat /\ alloc_ptr \in Nat
          /\ machine.pool <= alloc_ptr
      BY MachineFacts DEF StartInv, StartUpTypeOK
    <3>3. b.ptr \in Nat /\ b.ptr = b.mem + size /\ alloc_ptr <= b.ptr /\ size \in Nat \ {0}
      BY <2>2, <2>8, <3>2, Allocated DEF b, Request
    <3>4. GoodPlace(t.mem, b.ptr, TRBSize, 64, 65536)
      BY <2>2, <2>8, <3>2, <3>3, Allocated DEF t
    <3>5. t.mem \in Nat /\ b.ptr <= t.mem /\ t.mem % 64 = 0
      BY <3>4 DEF GoodPlace
    <3>6. Has(blocks', t.mem, TRBSize)
      BY <2>8 DEF Has, Block
    <3>7. regs'.erdp = b.mem /\ regs'.erstba = t.mem /\ regs'.erstsz = 1
      <4>1. Field(b.mem, 16) = b.mem
        BY <3>1, FieldNat
      <4>2. Field(t.mem, 64) = t.mem
        BY <3>5, FieldNat
      <4>3. LET r == RegisterEventRing(regs, b.mem, t.mem) IN
              r.erstsz = 1 /\ r.erdp = Field(b.mem, 16) /\ r.erstba = Field(t.mem, 64)
        BY <1>1, RingRegisters
      <4> QED
        BY <2>8, <4>1, <4>2, <4>3
    <3>8. regs.dcbaap < b.mem /\ regs.crcr < b.mem /\ b.mem < t.mem
          /\ regs.dcbaap \in Nat /\ regs.crcr \in Nat
      BY <2>5, <3>1, <3>3, <3>5, BlockBelow
    <3>9. IsInjective(<<regs'.dcbaap, regs'.crcr, regs'.erdp, regs'.erstba>>)
      BY <2>4, <2>5, <3>1, <3>5, <3>7, <3>8 DEF IsInjective
    <3>10. CommandRingInv'
      BY <2>3, <2>4, <2>5 DEF CommandRingInv
    <3>11. EventRingInv'
      <4>1. erst'.base = b.mem /\ erst'.size = RingSize
        BY <2>8
      <4>2. BlockAt(regs.erdp, TRBSize * RingSize)' /\ BlockAt(regs.erstba, TRBSize)'
        BY <3>1, <3>6, <3>7 DEF BlockAt, Has, size
      <4> QED
        BY <3>7, <3>9, <4>1, <4>2 DEF EventRingInv
    <3> QED
      BY <2>6, <3>10, <3>11 DEF LeadInv
  <2> QED
    BY <2>1, <2>7, <2>8
<1>10. CASE HcReset
  <2>1. step = "reset_wait" /\ UNCHANGED <<step, machine, dcbaa, blocks>>
    BY <1>10 DEF HcReset, QuietInv, memory_pool
  <2> QED
    BY <2>1 DEF LeadInv, ContextsInv, CommandRingInv, EventRingInv, Succeeded, BeforeSlots,
      BeforeStop, BeforeDevmgr, Started, BlockAt
<1>11. CASE ~Allocating /\ ~EnableSlots /\ ~WriteDCBAAP /\ ~HcReset
  BY <1>11, FrameKeepsLeads
<1> QED
  BY <1>3, <1>4, <1>5, <1>6, <1>7, <1>8, <1>9, <1>10, <1>11 DEF Allocating


LEMMA LeadStep ==
  StartInv /\ QuietInv /\ PoolInv /\ ResultInv /\ LeadInv /\ [Next]_vars => (ResultInv /\ LeadInv)'
<1>1. UNCHANGED startup /\ ResultInv /\ LeadInv => (ResultInv /\ LeadInv)'
  BY DEF startup, card, memory_pool, tables, ResultInv, LeadInv, ContextsInv, CommandRingInv,
    EventRingInv, Succeeded, BlockAt
<1> QED
  BY <1>1, StartUpSteps, ResultSteps, LeadSteps

LEMMA LeadAlways == Spec => [](ResultInv /\ LeadInv)
BY StartAlways, OrderAlways, PoolAlways, ResultInitially, LeadInitially, LeadStep, PTL DEF Spec
-----------------------------------------------------------------------------
(* The interrupts.                                                         *)

LEMMA EnabledInitially == Init => EnabledInv
BY DEF Init, StartUpInit, ResetRegs, EnabledInv, Succeeded, Started

LEMMA EnabledSteps ==
  ASSUME StartInv, OwnerInv, QuietInv, EnabledInv, StartUp \/ Hardware
  PROVE  EnabledInv'
<1>1. regs \in Regs
  BY DEF StartInv, StartUpTypeOK
<1> USE DEF Go, Started
<1>2. CASE Lookup
  <2>1. regs' = regs /\ step \notin Started /\ step' \notin Started
    BY <1>2 DEF Lookup, LookupXHC, WriteMSIHeader, WriteMSIAddr, WriteMSIData, ReadBar,
      SwitchEhci2Xhci
  <2> QED
    BY <2>1 DEF EnabledInv, Succeeded
<1>3. CASE \/ InitializeDevmgr \/ RequestHCOwnership \/ OwnsHC \/ Halted \/ ResetDone
           \/ AllocScratchpads \/ AllocScratchPage
  <2>1. regs' = regs /\ step \notin Started /\ step' \notin Started
    BY <1>3 DEF InitializeDevmgr, RequestHCOwnership, OwnsHC, Halted, ResetDone,
      AllocScratchpads, AllocScratchPage
  <2> QED
    BY <2>1 DEF EnabledInv, Succeeded
<1>4. CASE Stop \/ Reset \/ EnableSlots \/ WriteDCBAAP
  <2>1. regs'.ie = regs.ie /\ step \notin Started /\ step' \notin Started
    BY <1>1, <1>4 DEF Stop, Reset, EnableSlots, WriteDCBAAP, Regs
  <2> QED
    BY <2>1 DEF EnabledInv, Succeeded
<1>5. CASE InitializeCommandRing \/ InitializeEventRing
  <2>1. regs'.ie = regs.ie
    <3>1. \A ring, table : RegisterCommandRing(regs, ring).ie = regs.ie
                          /\ RegisterEventRing(regs, ring, table).ie = regs.ie
      BY <1>1, RingRegisters
    <3> QED
      BY <1>5, <3>1, RingSteps
  <2>2. step \in {"cr", "er"}
        /\ (step' \in {"er", "enable"} \/ (step' = "run" /\ init_err' = "kNoEnoughMemory"))
    <3>1. CASE InitializeCommandRing
      BY <3>1 DEF InitializeCommandRing, Fail
    <3>2. CASE InitializeEventRing
      BY <3>2 DEF InitializeEventRing, Fail
    <3> QED
      BY <1>5, <3>1, <3>2
  <2> QED
    BY <2>1, <2>2 DEF EnabledInv, Succeeded
<1>6. CASE EnableInterrupts
  <2>1. regs'.ie /\ regs'.inte
    BY <1>1, <1>6 DEF EnableInterrupts, Regs
  <2> QED
    BY <1>6, <2>1 DEF EnableInterrupts, EnabledInv
<1>7. CASE Run
  <2>1. regs'.ie = regs.ie /\ regs'.inte = regs.inte /\ regs'.run
    BY <1>1, <1>7 DEF Run, Regs
  <2> QED
    BY <1>7, <2>1 DEF Run, EnabledInv, Succeeded
<1>8. CASE Running
  BY <1>8 DEF Running, EnabledInv, Succeeded
<1>9. CASE HcHalt \/ HcStart \/ HcReady
  <2>1. regs'.ie = regs.ie /\ regs'.inte = regs.inte /\ regs'.run = regs.run
    BY <1>1, <1>9 DEF HcHalt, HcStart, HcReady, Regs
  <2> QED
    BY <1>9, <2>1 DEF HcHalt, HcStart, HcReady, EnabledInv, Succeeded
<1>10. CASE HcReset
  BY <1>10 DEF HcReset, ResetRegs, QuietInv, EnabledInv, Succeeded
<1>11. CASE HcEvent \/ BiosRelease
  BY <1>11 DEF HcEvent, BiosRelease, EnabledInv, Succeeded
<1>12. CASE BiosRun
  <2>1. regs'.ie = regs.ie
    BY <1>1, <1>12 DEF BiosRun, Regs
  <2>2. step' = step /\ step \notin Started
    BY <1>12 DEF BiosRun, OwnerInv, BeforeStop, BeforeDevmgr
  <2> QED
    BY <2>1, <2>2 DEF EnabledInv, Succeeded
<1> QED
  BY <1>2, <1>3, <1>4, <1>5, <1>6, <1>7, <1>8, <1>9, <1>10, <1>11, <1>12
  DEF StartUp, Hardware, TakeController, SetUp

LEMMA EnabledStep == StartInv /\ OwnerInv /\ QuietInv /\ EnabledInv /\ [Next]_vars => EnabledInv'
<1>1. UNCHANGED startup /\ EnabledInv => EnabledInv'
  BY DEF startup, EnabledInv, Succeeded
<1> QED
  BY <1>1, StartUpSteps, EnabledSteps

LEMMA EnabledAlways == Spec => []EnabledInv
BY StartAlways, OrderAlways, EnabledInitially, EnabledStep, PTL DEF Spec

LEMMA MsiInitially == Init => MsiInv
BY DEF Init, StartUpInit, MsiInv, MsiRegs, BeforeBar

LEMMA MsiSteps ==
  ASSUME EnabledInv, MsiInv, StartUp \/ Hardware
  PROVE  MsiInv'
<1> USE DEF Go, BeforeBar
<1>1. machine' = machine /\ MSICaps' = MSICaps
  <2>1. machine' = machine
    BY DEF StartUp, Hardware, Lookup, LookupXHC, WriteMSIHeader, WriteMSIAddr, WriteMSIData,
      ReadBar, SwitchEhci2Xhci, TakeController, InitializeDevmgr, RequestHCOwnership, OwnsHC,
      Stop, Halted, Reset, ResetDone, SetUp, EnableSlots, AllocScratchpads, AllocScratchPage,
      WriteDCBAAP, InitializeCommandRing, InitializeEventRing, EnableInterrupts, Run, Running,
      HcHalt, HcStart, HcReset, HcReady, HcEvent, BiosRun, BiosRelease, card
  <2> QED
    BY <2>1 DEF MSICaps
<1>2. CASE LookupXHC
  BY <1>1, <1>2 DEF LookupXHC, MsiInv
<1>3. CASE WriteMSIHeader
  <2>1. CASE MSICaps = <<>>
    BY <1>1, <1>3, <2>1 DEF WriteMSIHeader, MsiInv
  <2>2. CASE MSICaps # <<>>
    <3>1. msi' \in MsiRegs /\ msi'.upper = msi.upper /\ msi'.enable
      BY <1>3, <2>2 DEF WriteMSIHeader, MsiInv, MsiRegs
    <3> QED
      BY <1>1, <1>3, <2>2, <3>1 DEF WriteMSIHeader, MsiInv
  <2> QED
    BY <2>1, <2>2
<1>4. CASE WriteMSIAddr
  <2>1. /\ msi' \in MsiRegs /\ msi'.upper = msi.upper /\ msi'.enable = msi.enable
        /\ msi'.addr = "lapic"
    BY <1>4 DEF WriteMSIAddr, MsiInv, MsiRegs
  <2> QED
    BY <1>1, <1>4, <2>1 DEF WriteMSIAddr, MsiInv
<1>5. CASE WriteMSIData
  <2>1. /\ msi' \in MsiRegs /\ msi'.upper = msi.upper /\ msi'.enable = msi.enable
        /\ msi'.addr = msi.addr /\ msi'.data = "vector"
    BY <1>5 DEF WriteMSIData, MsiInv, MsiRegs
  <2> QED
    BY <1>1, <1>5, <2>1 DEF WriteMSIData, MsiInv, MessageOf, Message
<1>6. CASE ReadBar \/ SwitchEhci2Xhci
  BY <1>1, <1>6 DEF ReadBar, SwitchEhci2Xhci, MsiInv, MessageOf
<1>7. CASE TakeController \/ SetUp
  <2>1. UNCHANGED <<msi, sent>> /\ step \notin BeforeBar /\ step' \notin BeforeBar
    BY <1>7 DEF TakeController, InitializeDevmgr, RequestHCOwnership, OwnsHC, Stop, Halted,
      Reset, ResetDone, SetUp, EnableSlots, AllocScratchpads, AllocScratchPage, WriteDCBAAP,
      InitializeCommandRing, InitializeEventRing, EnableInterrupts, Run, Running, Fail, card
  <2> QED
    BY <1>1, <2>1 DEF MsiInv, MessageOf
<1>8. CASE HcHalt \/ HcStart \/ HcReset \/ HcReady \/ BiosRun \/ BiosRelease
  <2>1. UNCHANGED <<msi, sent, step>>
    BY <1>8 DEF HcHalt, HcStart, HcReset, HcReady, BiosRun, BiosRelease, card
  <2> QED
    BY <1>1, <2>1 DEF MsiInv, MessageOf
<1>9. CASE HcEvent
  <2>1. UNCHANGED <<msi, step>> /\ sent' = sent \cup {MessageOf(msi)} /\ msi.enable /\ regs.ie
    BY <1>9 DEF HcEvent, card
  <2>2. step \notin BeforeBar
    BY <2>1 DEF EnabledInv, Started
  <2>3. MessageOf(msi) = Message
    BY <2>1, <2>2 DEF MsiInv
  <2> QED
    BY <1>1, <2>1, <2>3 DEF MsiInv, MessageOf
<1> QED
  BY <1>2, <1>3, <1>4, <1>5, <1>6, <1>7, <1>8, <1>9 DEF StartUp, Lookup, Hardware

LEMMA MsiStep == EnabledInv /\ MsiInv /\ [Next]_vars => MsiInv'
<1>1. UNCHANGED startup /\ MsiInv => MsiInv'
  BY DEF startup, card, MsiInv, MSICaps, MessageOf
<1> QED
  BY <1>1, StartUpSteps, MsiSteps

LEMMA MsiAlways == Spec => []MsiInv
BY EnabledAlways, MsiInitially, MsiStep, PTL DEF Spec

-----------------------------------------------------------------------------

(* Whatever the pool is: when Initialize has succeeded and interrupts are on,
   the running controller finds each structure in a block of its own, where the
   driver keeps it, and its interrupts lead to the handler (Initialize, Run). *)
THEOREM RingsAlwaysReachable == Spec => []RingsReachable
<1>1. ASSUME StartInv, OwnerInv, LeadInv, EnabledInv, MsiInv PROVE RingsReachable
  <2> SUFFICES ASSUME step = "sti", init_err = "kSuccess" PROVE RingsReachable
    BY DEF RingsReachable
  <2>1. Succeeded
    BY DEF Succeeded, Started
  <2>2. regs.run /\ regs.inte /\ regs.ie
    BY <1>1, <2>1 DEF EnabledInv
  <2>3. step \notin BeforeSlots \cup {"slots", "scratchpads"} /\ step \notin BeforeBar
    BY DEF BeforeSlots, BeforeStop, BeforeDevmgr, BeforeBar
  <2>4. /\ regs.slots = kDeviceSize /\ regs.dcbaap = dcbaa.ptr
        /\ BlockAt(regs.dcbaap, PointerSize * (kDeviceSize + 1))
        /\ machine.scratchpads > 0 => BlockAt(dcbaa.zero, PointerSize * machine.scratchpads)
    BY <1>1, <2>1, <2>3 DEF LeadInv, ContextsInv, BeforeSlots, BeforeStop
  <2>5. BlockAt(regs.crcr, TRBSize * RingSize)
    BY <1>1, <2>1 DEF LeadInv, CommandRingInv
  <2>6. /\ regs.erdp = erst.base /\ erst.size = RingSize /\ regs.erstsz = 1
        /\ BlockAt(regs.erdp, TRBSize * RingSize) /\ BlockAt(regs.erstba, TRBSize)
        /\ IsInjective(<<regs.dcbaap, regs.crcr, regs.erdp, regs.erstba>>)
    BY <1>1, <2>1 DEF LeadInv, EventRingInv
  <2>7. TRBSize * regs.erstsz = TRBSize
    BY <2>6 DEF TRBSize
  <2>8. Len(scratch) = machine.scratchpads
    BY <1>1 DEF StartInv, ScratchInv, Started
  <2>9. ~legsup.bios
    BY <1>1, <2>3 DEF OwnerInv, BeforeSlots
  <2>10. MSICaps # <<>> => msi.enable /\ MessageOf(msi) = Message
    BY <1>1, <2>3 DEF MsiInv
  <2> QED
    BY <2>2, <2>4, <2>5, <2>6, <2>7, <2>8, <2>9, <2>10 DEF RingsReachable
<1> QED
  BY <1>1, StartAlways, OrderAlways, LeadAlways, EnabledAlways, MsiAlways, PTL

(* With the sizes of the kernel: the blocks are what AllocMem promises, a
   controller that wants up to 30 pages gets all its memory, success means that
   it works with the driver, and no message goes out before it is written
   (AllocMem, Controller::Initialize, Run, WriteMSICapability). *)
THEOREM AlwaysReadyForEvents == ASSUME KernelSizes PROVE Spec => []ReadyForEvents
<1>1. ASSUME RoomInv PROVE PoolSuffices
  BY <1>1 DEF RoomInv, PoolSuffices, Started
<1>2. MsiInv => \A m \in sent : m = Message
  BY DEF MsiInv
<1>3. PoolBlocksApart /\ PoolSuffices /\ RingsReachable /\ (\A m \in sent : m = Message)
        => ReadyForEvents
  BY DEF ReadyForEvents
<1>4. RoomInv => PoolSuffices
  BY <1>1
<1> QED
  BY <1>2, <1>3, <1>4, BlocksStayApart, RoomAlways, RingsAlwaysReachable, MsiAlways, PTL

-----------------------------------------------------------------------------
(* The functions that the search finds.                                    *)

\* In the order of ScanBus and ScanDevice.
Before(a, b) == a[2] < b[2] \/ (a[2] = b[2] /\ a[3] < b[3])

\* The buses whose ScanBus has begun.
Opened == (HostBuses \ roots) \cup {config[a].secondary : a \in Range(devices) \cap Bridges}

OnBus(b) == {a \in DOMAIN config : a[1] = b /\ Visible(a)}

\* Behind function 0 the search is only on a device with several functions.
Reached(p) ==
  p[3] = 0 \/ (<<p[1], p[2], 0>> \in DOMAIN config /\ config[<<p[1], p[2], 0>>].multi)

\* The table T agrees with the call stack stk, where O are the buses opened so
\* far: of a bus being searched it has what lies before the position, and the
\* bridge at the position too where ScanFunction has been called (done says so
\* of the innermost); of a bus that has been searched, everything.
Agrees(stk, done, T, O) ==
  /\ \A a \in T : a[1] \in O /\ a \in OnBus(a[1])
  /\ \A i \in 1 .. Len(stk) : stk[i][1] \in O /\ Reached(stk[i])
  /\ \A i, j \in 1 .. Len(stk) : stk[i][1] = stk[j][1] => i = j
  /\ \A i \in 1 .. Len(stk) : \A a \in OnBus(stk[i][1]) :
       a \in T <=> Before(a, stk[i]) \/ ((done \/ i < Len(stk)) /\ a = stk[i])
  /\ \A b \in O : (\A i \in 1 .. Len(stk) : stk[i][1] # b) => OnBus(b) \subseteq T

(* What is read behind a comes right after a among the functions that answer. *)
LEMMA NextInOrder ==
  ASSUME config \in ConfigSpaces, NEW a \in Position, a[2] < NumDevices, Reached(a)
  PROVE  /\ NextAddress(a)[1] = a[1] /\ Reached(NextAddress(a))
         /\ \A x \in OnBus(a[1]) : Before(x, NextAddress(a)) <=> Before(x, a) \/ x = a
<1> DEFINE first == <<a[1], a[2], 0>>
<1>1. a[1] \in Nat /\ a[2] \in Nat /\ a[3] \in 0 .. NumFunctions - 1 /\ NumFunctions \in Nat
      /\ a = <<a[1], a[2], a[3]>>
  BY Functions DEF Position
<1>2. ASSUME NEW x \in OnBus(a[1])
      PROVE  /\ x[1] = a[1] /\ x[2] \in Nat /\ x[3] \in 0 .. NumFunctions - 1
             /\ x = <<x[1], x[2], x[3]>>
             /\ x[2] = a[2] => first \in DOMAIN config /\ (x[3] = 0 \/ config[first].multi)
  <2>1. x \in DOMAIN config /\ x[1] = a[1] /\ Visible(x)
    BY DEF OnBus
  <2>2. x \in Position
    BY <2>1, Functions
  <2> QED
    BY <2>1, <2>2, Functions DEF Position, Visible
<1>3. CASE first \notin DOMAIN config \/ ~config[first].multi \/ a[3] = NumFunctions - 1
  <2>1. NextAddress(a) = <<a[1], a[2] + 1, 0>>
    BY <1>3 DEF NextAddress
  <2>2. ASSUME NEW x \in OnBus(a[1])
        PROVE  Before(x, <<a[1], a[2] + 1, 0>>) <=> Before(x, a) \/ x = a
    <3>1. /\ x[1] = a[1] /\ x[2] \in Nat /\ x[3] \in 0 .. NumFunctions - 1
          /\ x = <<x[1], x[2], x[3]>>
          /\ x[2] = a[2] => first \in DOMAIN config /\ (x[3] = 0 \/ config[first].multi)
      BY <1>2
    <3>2. x[2] = a[2] => x[3] <= a[3]
      <4>1. ASSUME x[2] = a[2], a[3] # NumFunctions - 1 PROVE x[3] = 0
        BY <1>3, <3>1, <4>1
      <4> QED
        BY <1>1, <3>1, <4>1
    <3>3. x = a <=> x[2] = a[2] /\ x[3] = a[3]
      BY <1>1, <3>1
    <3> QED
      BY <1>1, <3>1, <3>2, <3>3 DEF Before
  <2>3. Reached(<<a[1], a[2] + 1, 0>>)
    BY DEF Reached
  <2> QED
    BY <2>1, <2>2, <2>3
<1>4. CASE ~(first \notin DOMAIN config \/ ~config[first].multi \/ a[3] = NumFunctions - 1)
  <2>1. NextAddress(a) = <<a[1], a[2], a[3] + 1>>
    BY <1>4 DEF NextAddress
  <2>2. ASSUME NEW x \in OnBus(a[1])
        PROVE  Before(x, <<a[1], a[2], a[3] + 1>>) <=> Before(x, a) \/ x = a
    <3>1. /\ x[1] = a[1] /\ x[2] \in Nat /\ x[3] \in 0 .. NumFunctions - 1
          /\ x = <<x[1], x[2], x[3]>>
      BY <1>2
    <3>2. x = a <=> x[2] = a[2] /\ x[3] = a[3]
      BY <1>1, <3>1
    <3> QED
      BY <1>1, <3>1, <3>2 DEF Before
  <2>3. Reached(<<a[1], a[2], a[3] + 1>>)
    BY <1>4 DEF Reached
  <2> QED
    BY <2>1, <2>2, <2>3
<1> QED
  BY <1>3, <1>4

(* The position moves on. *)
LEMMA MovesOn ==
  ASSUME config \in ConfigSpaces, NEW stk \in Seq(Position), stk # <<>>, NEW T, NEW O,
         Last(stk)[2] < NumDevices, Agrees(stk, TRUE, T, O)
  PROVE  Agrees(Replaced(stk, NextAddress(Last(stk))), FALSE, T, O)
<1> DEFINE p == Last(stk)
           n == Len(stk)
           new == Replaced(stk, NextAddress(p))
<1>1. p \in Position /\ p = stk[n] /\ n \in Nat \ {0}
  BY StackTop, EmptySeq
<1>2. p[1] \in O /\ Reached(p)
      /\ \A a \in OnBus(p[1]) : a \in T <=> Before(a, p) \/ a = p
  BY <1>1 DEF Agrees
<1>3. /\ NextAddress(p) \in Position
      /\ NextAddress(p)[1] = p[1] /\ Reached(NextAddress(p))
      /\ \A a \in OnBus(p[1]) : a \in T <=> Before(a, NextAddress(p))
  BY <1>1, <1>2, NextPosition, NextInOrder
<1>4. Len(new) = n /\ new[n] = NextAddress(p) /\ \A i \in 1 .. n - 1 : new[i] = stk[i]
  <2>1. Len(new) = n /\ \A i \in 1 .. n - 1 : new[i] = stk[i]
    BY <1>3, StackReplaced
  <2>2. Front(stk) \in Seq(Position) /\ Len(Front(stk)) = n - 1
    BY StackTop
  <2>3. Append(Front(stk), NextAddress(p))[Len(Front(stk)) + 1] = NextAddress(p)
    BY <1>3, <2>2, AppendProperties
  <2>4. n - 1 + 1 = n
    BY <1>1
  <2> QED
    BY <2>1, <2>2, <2>3, <2>4 DEF Replaced
<1> HIDE DEF p, n, new
<1>5. \A i \in 1 .. n : new[i][1] = stk[i][1]
  BY <1>1, <1>3, <1>4
<1>6. Agrees(stk, TRUE, T, O) /\ n = Len(stk)
  BY DEF n
<1>7. \A i \in 1 .. n : new[i][1] \in O /\ Reached(new[i])
  <2> TAKE i \in 1 .. n
  <2>1. CASE i = n
    BY <1>1, <1>2, <1>3, <1>4, <2>1
  <2>2. CASE i # n
    BY <1>1, <1>4, <1>6, <2>2 DEF Agrees
  <2> QED
    BY <2>1, <2>2
<1>8. \A i \in 1 .. n : \A a \in OnBus(new[i][1]) :
        a \in T <=> Before(a, new[i]) \/ (i < n /\ a = new[i])
  <2> TAKE i \in 1 .. n
  <2>1. CASE i = n
    BY <1>1, <1>3, <1>4, <2>1
  <2>2. CASE i # n
    <3>1. i < n /\ new[i] = stk[i]
      BY <1>1, <1>4, <2>2
    <3> QED
      BY <1>6, <3>1 DEF Agrees
  <2> QED
    BY <2>1, <2>2
<1>9. Agrees(new, FALSE, T, O)
  BY <1>4, <1>5, <1>6, <1>7, <1>8 DEF Agrees
<1> QED
  BY <1>9 DEF new, p

(* A bus that was not open is begun. *)
LEMMA BusBegun ==
  ASSUME config \in ConfigSpaces, NEW stk \in Seq(Position), NEW T, NEW O, NEW b \in Nat, b \notin O,
         Agrees(stk, TRUE, T, O)
  PROVE  Agrees(Append(stk, <<b, 0, 0>>), FALSE, T, O \cup {b})
<1> DEFINE n == Len(stk)
           new == Append(stk, <<b, 0, 0>>)
<1>1. n \in Nat /\ Len(new) = n + 1 /\ new[n + 1] = <<b, 0, 0>>
      /\ \A i \in 1 .. n : new[i] = stk[i]
  OBVIOUS
<1> HIDE DEF new
<1>2. \A i \in 1 .. n : stk[i][1] \in O /\ Reached(stk[i]) /\ stk[i][1] # b
  BY DEF Agrees
<1>3. \A a \in OnBus(b) : a \notin T /\ ~Before(a, <<b, 0, 0>>)
  <2> TAKE a \in OnBus(b)
  <2>1. a \in DOMAIN config /\ a[1] = b
    BY DEF OnBus
  <2>2. a \in Position
    BY <2>1, Functions
  <2>3. a[2] \in Nat /\ a[3] \in Nat
    BY <2>2, Functions DEF Position
  <2>4. ~Before(a, <<b, 0, 0>>)
    BY <2>3 DEF Before
  <2> QED
    BY <2>1, <2>4 DEF Agrees
<1>4. \A i \in 1 .. n + 1 : i = n + 1 \/ i \in 1 .. n
  BY <1>1
<1>5. \A i \in 1 .. n : i < n + 1 /\ i # n + 1
  BY <1>1
<1>6. \A a \in T : a[1] \in O \cup {b} /\ a \in OnBus(a[1])
  BY DEF Agrees
<1>7. \A i \in 1 .. n + 1 : new[i][1] \in O \cup {b} /\ Reached(new[i])
  <2>1. Reached(<<b, 0, 0>>)
    BY DEF Reached
  <2> QED
    BY <1>1, <1>2, <1>4, <2>1
<1>8. \A i, j \in 1 .. n + 1 : new[i][1] = new[j][1] => i = j
  <2> TAKE i, j \in 1 .. n + 1
  <2>1. CASE i \in 1 .. n /\ j \in 1 .. n
    <3>1. new[i] = stk[i] /\ new[j] = stk[j]
      BY <1>1, <2>1
    <3>2. stk[i][1] = stk[j][1] => i = j
      BY <2>1 DEF Agrees
    <3> QED
      BY <3>1, <3>2
  <2>2. CASE i = n + 1 \/ j = n + 1
    <3>1. new[n + 1][1] = b
      BY <1>1
    <3>2. \A k \in 1 .. n : new[k][1] # b
      BY <1>1, <1>2
    <3> QED
      BY <1>4, <2>2, <3>1, <3>2
  <2> QED
    BY <1>4, <2>1, <2>2
<1>9. \A i \in 1 .. n + 1 : \A a \in OnBus(new[i][1]) :
        a \in T <=> Before(a, new[i]) \/ (i < n + 1 /\ a = new[i])
  <2> TAKE i \in 1 .. n + 1
  <2>1. CASE i = n + 1
    BY <1>1, <1>3, <2>1
  <2>2. CASE i \in 1 .. n
    <3>1. \A a \in OnBus(stk[i][1]) : a \in T <=> Before(a, stk[i]) \/ a = stk[i]
      BY <2>2 DEF Agrees
    <3> QED
      BY <1>1, <1>5, <2>2, <3>1
  <2> QED
    BY <1>4, <2>1, <2>2
<1>10. \A c \in O \cup {b} : (\A i \in 1 .. n + 1 : new[i][1] # c) => OnBus(c) \subseteq T
  <2> SUFFICES ASSUME NEW c \in O \cup {b}, \A i \in 1 .. n + 1 : new[i][1] # c
               PROVE  OnBus(c) \subseteq T
    OBVIOUS
  <2>1. n + 1 \in 1 .. n + 1 /\ \A i \in 1 .. n : i \in 1 .. n + 1
    BY <1>1
  <2>2. c \in O /\ \A i \in 1 .. n : stk[i][1] # c
    BY <1>1, <2>1
  <2> QED
    BY <2>2 DEF Agrees
<1>11. Agrees(new, FALSE, T, O \cup {b})
  BY <1>1, <1>6, <1>7, <1>8, <1>9, <1>10 DEF Agrees
<1> QED
  BY <1>11 DEF new

(* A bus is left behind its last device; its caller's bridge has been read. *)
LEMMA BusLeft ==
  ASSUME config \in ConfigSpaces, NEW stk \in Seq(Position), stk # <<>>, NEW T, NEW O,
         Last(stk)[2] = NumDevices, Agrees(stk, FALSE, T, O)
  PROVE  Agrees(Front(stk), TRUE, T, O)
<1> DEFINE n == Len(stk)
           new == Front(stk)
<1>1. /\ n \in Nat \ {0} /\ Last(stk) = stk[n]
      /\ Len(new) = n - 1 /\ \A i \in 1 .. n - 1 : new[i] = stk[i]
  BY StackTop, EmptySeq
<1> HIDE DEF new
<1>2. \A i \in 1 .. n - 1 : i \in 1 .. n /\ i < n /\ i # n
  BY <1>1
<1>3. OnBus(stk[n][1]) \subseteq T
  <2> SUFFICES ASSUME NEW a \in OnBus(stk[n][1]) PROVE a \in T
    OBVIOUS
  <2>1. a \in DOMAIN config
    BY DEF OnBus
  <2>2. a \in Position /\ a[2] < NumDevices
    BY <2>1, Functions
  <2>3. Before(a, stk[n])
    BY <1>1, <2>2 DEF Before
  <2>4. n \in 1 .. n
    BY <1>1
  <2> QED
    BY <2>3, <2>4 DEF Agrees
<1>4. \A i \in 1 .. n - 1 : \A a \in OnBus(new[i][1]) :
        a \in T <=> Before(a, new[i]) \/ a = new[i]
  <2> TAKE i \in 1 .. n - 1
  <2>1. i \in 1 .. n /\ i < n /\ new[i] = stk[i]
    BY <1>1, <1>2
  <2> QED
    BY <2>1 DEF Agrees
<1>5. \A b \in O : (\A i \in 1 .. n - 1 : new[i][1] # b) => OnBus(b) \subseteq T
  <2> SUFFICES ASSUME NEW b \in O, \A i \in 1 .. n - 1 : new[i][1] # b
               PROVE  OnBus(b) \subseteq T
    OBVIOUS
  <2>1. CASE b = stk[n][1]
    BY <1>3, <2>1
  <2>2. CASE b # stk[n][1]
    <3>1. \A i \in 1 .. n : i = n \/ i \in 1 .. n - 1
      BY <1>1
    <3>2. \A i \in 1 .. n : stk[i][1] # b
      BY <1>1, <2>2, <3>1
    <3> QED
      BY <3>2 DEF Agrees
  <2> QED
    BY <2>1, <2>2
<1>6. Agrees(new, TRUE, T, O)
  BY <1>1, <1>2, <1>4, <1>5 DEF Agrees
<1> QED
  BY <1>6 DEF new

SearchInv ==
  IsTree /\ scan_err = "kSuccess" =>
    /\ roots \subseteq HostBuses
    /\ Opened \subseteq Buses
    /\ IsInjective(devices)
    /\ Agrees(stack, FALSE, Range(devices), Opened)

\* AddDevice has failed.
FullInv ==
  scan_err = "kFull" =>
    /\ Scanned
    /\ IsTree => /\ IsInjective(devices)
                 /\ Len(devices) = MaxDevices /\ Cardinality(Present) > MaxDevices

(* Buses is closed, and there is no smaller set that is. *)
LEMMA BusesClosed ==
  /\ HostBuses \subseteq Buses
  /\ \A a \in Bridges : a[1] \in Buses /\ Visible(a) => config[a].secondary \in Buses
  /\ \A S : /\ HostBuses \subseteq S
            /\ \A a \in Bridges : a[1] \in S /\ Visible(a) => config[a].secondary \in S
            => Buses \subseteq S
<1> DEFINE all == HostBuses \cup {config[a].secondary : a \in Bridges}
           Closed(S) == /\ HostBuses \subseteq S
                        /\ \A a \in Bridges : a[1] \in S /\ Visible(a) => config[a].secondary \in S
<1>1. Buses = {b \in all : \A S \in SUBSET all : Closed(S) => b \in S}
  BY DEF Buses
<1>2. \A a \in Bridges : config[a].secondary \in all
  OBVIOUS
<1>3. HostBuses \subseteq Buses
  BY <1>1
<1>4. \A a \in Bridges : a[1] \in Buses /\ Visible(a) => config[a].secondary \in Buses
  BY <1>1, <1>2
<1>5. ASSUME NEW S, Closed(S) PROVE Buses \subseteq S
  <2>1. Closed(S \cap all)
    BY <1>2, <1>5
  <2>2. Buses \subseteq S \cap all
    BY <1>1, <2>1
  <2> QED
    BY <2>2
<1> QED
  BY <1>3, <1>4, <1>5

(* The table with one more entry. *)
LEMMA TableGrows ==
  ASSUME NEW S, NEW t \in Seq(S), NEW x \in S
  PROVE  /\ Range(Append(t, x)) = Range(t) \cup {x}
         /\ IsInjective(t) /\ x \notin Range(t) => IsInjective(Append(t, x))
<1> DEFINE u == Append(t, x)
           n == Len(t)
<1>1. n \in Nat /\ DOMAIN t = 1 .. n /\ DOMAIN u = 1 .. n + 1 /\ u[n + 1] = x
      /\ \A i \in 1 .. n : u[i] = t[i]
  OBVIOUS
<1>2. \A i \in 1 .. n + 1 : i \in 1 .. n \/ i = n + 1
  BY <1>1
<1>3. \A i \in 1 .. n : i \in 1 .. n + 1
  BY <1>1
<1>4. n + 1 \in 1 .. n + 1
  BY <1>1
<1> HIDE DEF u, n
<1>5. Range(u) = Range(t) \cup {x}
  <2>1. Range(u) \subseteq Range(t) \cup {x}
    BY <1>1, <1>2 DEF Range
  <2>2. \A i \in 1 .. n : t[i] \in Range(u)
    BY <1>1, <1>3 DEF Range
  <2>3. x \in Range(u)
    BY <1>1, <1>4 DEF Range
  <2> QED
    BY <1>1, <2>1, <2>2, <2>3 DEF Range
<1>6. ASSUME IsInjective(t), x \notin Range(t) PROVE IsInjective(u)
  <2>1. \A i \in 1 .. n : t[i] # x
    BY <1>1, <1>6 DEF Range
  <2>2. \A i, j \in 1 .. n : t[i] = t[j] => i = j
    BY <1>1, <1>6 DEF IsInjective
  <2>3. ASSUME NEW i \in 1 .. n + 1, NEW j \in 1 .. n + 1, u[i] = u[j] PROVE i = j
    <3>1. CASE i \in 1 .. n /\ j \in 1 .. n
      BY <1>1, <2>2, <2>3, <3>1
    <3>2. CASE i = n + 1 \/ j = n + 1
      BY <1>1, <1>2, <2>1, <2>3, <3>2
    <3> QED
      BY <1>2, <3>1, <3>2
  <2> QED
    BY <1>1, <2>3 DEF IsInjective
<1> QED
  BY <1>5, <1>6 DEF u

(* Where the search is: a function there answers, is new to the table, and is
   one that there is to be found. *)
LEMMA FoundThere ==
  ASSUME ScanInv, SearchInv, IsTree, scan_err = "kSuccess", stack # <<>>, Top \in DOMAIN config
  PROVE  /\ Top \in OnBus(Top[1]) /\ Top[1] \in Opened /\ Top \in Present
         /\ Top \notin Range(devices)
         /\ Range(devices) \subseteq Present
         /\ Top \in Bridges => /\ config[Top].secondary \notin Opened
                               /\ config[Top].secondary \in Buses
<1>1. Top = stack[Len(stack)] /\ Len(stack) \in 1 .. Len(stack) /\ Top \in Position
  BY StackTop, EmptySeq DEF ScanInv, Top
<1>2. Agrees(stack, FALSE, Range(devices), Opened)
  BY DEF SearchInv
<1>3. Reached(Top) /\ Top[1] \in Opened
  BY <1>1, <1>2 DEF Agrees
<1>4. Visible(Top)
  <2>1. Top = <<Top[1], Top[2], Top[3]>>
    BY <1>1 DEF Position
  <2> QED
    BY <1>3, <2>1 DEF Reached, Visible
<1>5. Top \in OnBus(Top[1])
  BY <1>4 DEF OnBus
<1>6. Top \notin Range(devices)
  <2>1. ~Before(Top, Top)
    BY <1>1, Functions DEF Before, Position, ScanInv
  <2> QED
    BY <1>1, <1>2, <1>5, <2>1 DEF Agrees
<1>7. Opened \subseteq Buses
  BY DEF SearchInv
<1>8. Top \in Present
  BY <1>3, <1>4, <1>7 DEF Present
<1>9. Range(devices) \subseteq Present
  BY <1>2, <1>7 DEF Agrees, OnBus, Present
<1>10. ASSUME Top \in Bridges
       PROVE  config[Top].secondary \notin Opened /\ config[Top].secondary \in Buses
  <2>1. config[Top].secondary \in Buses
    BY <1>3, <1>4, <1>7, <1>10, BusesClosed
  <2>2. config[Top].secondary \notin Opened
    BY <1>6, <1>10 DEF IsTree, Opened
  <2> QED
    BY <2>1, <2>2
<1> QED
  BY <1>3, <1>5, <1>6, <1>8, <1>9, <1>10

LEMMA SearchInitially == Init => SearchInv /\ FullInv
<1> SUFFICES ASSUME Init PROVE SearchInv /\ FullInv
  OBVIOUS
<1>1. PICK s \in Systems : ScanInit(s.machine.config)
  BY DEF Init
<1>2. config \in ConfigSpaces
  BY ScanInitially DEF ScanInv
<1>3. scan_err = "kSuccess" /\ devices = <<>> /\ stack = <<>>
      /\ roots = (IF ~config[<<0, 0, 0>>].multi THEN {0}
                  ELSE {f \in 0 .. NumFunctions - 1 : <<0, 0, f>> \in DOMAIN config})
  BY <1>1 DEF ScanInit
<1>4. roots = HostBuses
  <2>1. CASE ~config[<<0, 0, 0>>].multi
    BY <1>3, <2>1 DEF HostBuses
  <2>2. CASE config[<<0, 0, 0>>].multi
    <3>1. HostBuses = {a[3] : a \in {b \in DOMAIN config : b[1] = 0 /\ b[2] = 0}}
      BY <2>2 DEF HostBuses
    <3>2. \A a \in DOMAIN config : a[1] = 0 /\ a[2] = 0 =>
            a[3] \in 0 .. NumFunctions - 1 /\ <<0, 0, a[3]>> = a
      BY <1>2, Functions DEF Position
    <3>3. \A f \in roots : <<0, 0, f>> \in DOMAIN config /\ <<0, 0, f>>[3] = f
      BY <1>3, <2>2
    <3>4. roots \subseteq HostBuses
      BY <3>1, <3>3
    <3>5. HostBuses \subseteq roots
      BY <1>3, <2>2, <3>1, <3>2
    <3> QED
      BY <3>4, <3>5
  <2> QED
    BY <2>1, <2>2
<1>5. Range(devices) = {} /\ IsInjective(devices)
  BY <1>3 DEF Range, IsInjective
<1>6. Opened = {}
  BY <1>4, <1>5 DEF Opened
<1>7. Agrees(<<>>, FALSE, {}, {})
  BY DEF Agrees
<1> QED
  BY <1>3, <1>4, <1>5, <1>6, <1>7 DEF SearchInv, FullInv

(* The table is full of functions that are there, and this one is there too. *)
LEMMA MoreThanFit ==
  ASSUME ScanInv, SearchInv, IsTree, scan_err = "kSuccess", TableFull
  PROVE  Cardinality(Present) > MaxDevices
<1> DEFINE all == Append(devices, Top)
<1>1. stack # <<>> /\ Top \in DOMAIN config /\ Len(devices) = MaxDevices
  BY DEF TableFull
<1>2. devices \in Seq(DOMAIN config) /\ IsInjective(devices) /\ MaxDevices \in Nat
  BY Functions DEF ScanInv, SearchInv
<1>3. Top \in Present /\ Top \notin Range(devices) /\ Range(devices) \subseteq Present
  BY <1>1, FoundThere
<1>4. IsInjective(all) /\ Range(all) \subseteq Present
  BY <1>1, <1>2, <1>3, TableGrows
<1>5. all \in [1 .. MaxDevices + 1 -> Range(all)]
  <2>1. all \in Seq(DOMAIN config) /\ Len(all) = MaxDevices + 1
    BY <1>1, <1>2
  <2> HIDE DEF all
  <2>2. all \in [1 .. MaxDevices + 1 -> DOMAIN config]
    BY <2>1
  <2>3. \A i \in 1 .. MaxDevices + 1 : all[i] \in Range(all)
    BY <2>2 DEF Range
  <2> QED
    BY <2>2, <2>3
<1>6. all \in Injection(1 .. MaxDevices + 1, Present)
  BY <1>4, <1>5 DEF IsInjective, Injection
<1> HIDE DEF all
<1>7. IsFiniteSet(Present)
  <2>1. IsFiniteSet(DOMAIN config)
    BY PciScanAssumption DEF ScanInv
  <2> QED
    BY <2>1, FS_Subset DEF Present
<1>8. Cardinality(1 .. MaxDevices + 1) <= Cardinality(Present)
  BY <1>6, <1>7, FS_Injection
<1>9. Cardinality(1 .. MaxDevices + 1) = MaxDevices + 1
  BY <1>2, FS_Interval
<1>10. Cardinality(Present) \in Nat
  BY <1>7, FS_CardinalityType
<1> QED
  BY <1>2, <1>8, <1>9, <1>10

(* The functions do not change. *)
LEMMA AgreesAfterwards ==
  ASSUME UNCHANGED config, Agrees(stack', FALSE, Range(devices'), Opened')
  PROVE  Agrees(stack, FALSE, Range(devices), Opened)'
BY DEF Agrees, OnBus, Reached, Visible

LEMMA SearchStep ==
  ScanInv /\ SearchInv /\ FullInv /\ [Next]_vars => SearchInv' /\ FullInv'
<1> SUFFICES ASSUME ScanInv, SearchInv, FullInv, [Next]_vars PROVE SearchInv' /\ FullInv'
  OBVIOUS
<1>1. UNCHANGED config
  BY DEF Next, Load, Firmware, ScanAllBus, KernelMain, Environment, vars, scan, Scan,
    ScanRoot, Skip, TableFull, ScanFunction, Return
<1>2. UNCHANGED <<HostBuses, Buses, Present, Bridges>> /\ (IsTree' <=> IsTree)
  <2>1. UNCHANGED <<HostBuses, Bridges>> /\ (IsTree' <=> IsTree) /\ \A a : Visible(a)' <=> Visible(a)
    BY <1>1 DEF HostBuses, Bridges, IsTree, Visible
  <2>2. UNCHANGED Buses
    BY <1>1, <2>1 DEF Buses
  <2>3. UNCHANGED Present
    BY <1>1, <2>1, <2>2 DEF Present
  <2> QED
    BY <1>1, <2>1, <2>2, <2>3
<1>3. CASE UNCHANGED scan
  <2>1. stack' = stack /\ roots' = roots /\ devices' = devices /\ scan_err' = scan_err
    BY <1>3 DEF scan
  <2>2. Opened' = Opened
    BY <1>1, <1>2, <2>1 DEF Opened
  <2>3. SearchInv'
    BY <1>1, <1>2, <2>1, <2>2, AgreesAfterwards DEF SearchInv, IsInjective
  <2> QED
    BY <1>2, <2>1, <2>3 DEF FullInv, Scanned, IsInjective
<1>4. CASE Scan
  <2>1. stack # <<>> \/ roots # {}
    BY <1>4 DEF Scan, ScanRoot, Skip, TableFull, ScanFunction, Return
  <2>2. scan_err = "kSuccess"
    BY <2>1 DEF FullInv, Scanned, ScanInv
  <2>3. CASE ~IsTree
    <3>1. SearchInv'
      BY <1>2, <2>3 DEF SearchInv
    <3>2. FullInv'
      BY <1>2, <1>4, <2>2, <2>3
      DEF FullInv, Scanned, Scan, ScanRoot, Skip, TableFull, ScanFunction, Return
    <3> QED
      BY <3>1, <3>2
  <2>4. CASE IsTree
    <3> DEFINE T == Range(devices)
               O == Opened
    <3>1. /\ config \in ConfigSpaces /\ stack \in Seq(Position) /\ devices \in Seq(DOMAIN config)
          /\ roots \subseteq HostBuses /\ O \subseteq Buses /\ IsInjective(devices)
          /\ Agrees(stack, FALSE, T, O)
      BY <2>2, <2>4 DEF ScanInv, SearchInv
    <3>2. ASSUME scan_err' = "kSuccess", roots' \subseteq roots,
                 Opened' \subseteq Buses, IsInjective(devices'),
                 Agrees(stack', FALSE, Range(devices'), Opened')
          PROVE  SearchInv' /\ FullInv'
      BY <1>1, <1>2, <3>1, <3>2, AgreesAfterwards DEF SearchInv, FullInv
    <3>3. Opened' = (HostBuses \ roots') \cup
                      {config[a].secondary : a \in Range(devices') \cap Bridges}
      BY <1>1, <1>2 DEF Opened
    <3>4. stack # <<>> => Last(stack) = Top /\ Top \in Position
      BY <3>1, StackTop DEF Top
    <3>5. CASE ScanRoot
      <4> DEFINE r == Min(roots)
      <4>1. stack = <<>> /\ roots # {} /\ stack' = <<<<r, 0, 0>>>> /\ roots' = roots \ {r}
            /\ devices' = devices /\ scan_err' = scan_err
        BY <3>5 DEF ScanRoot
      <4>2. r \in roots /\ r \in Nat
        BY <4>1, LeastNat DEF ScanInv
      <4> HIDE DEF r
      <4>3. r \in HostBuses /\ r \notin Opened
        BY <2>4, <3>1, <4>2 DEF Opened, IsTree
      <4>4. Opened' = Opened \cup {r}
        BY <3>3, <4>1, <4>3 DEF Opened
      <4>5. Agrees(stack, TRUE, T, O)
        BY <3>1, <4>1 DEF Agrees
      <4>6. Append(stack, <<r, 0, 0>>) = stack'
        BY <4>1
      <4>7. Agrees(stack', FALSE, T, O \cup {r})
        BY <3>1, <4>2, <4>3, <4>5, <4>6, BusBegun
      <4> QED
        BY <2>2, <3>1, <3>2, <4>1, <4>3, <4>4, <4>7, BusesClosed
    <3>6. CASE Skip
      <4>1. stack # <<>> /\ Top[2] < NumDevices /\ Top \notin DOMAIN config
            /\ stack' = Replaced(stack, NextAddress(Top))
            /\ roots' = roots /\ devices' = devices /\ scan_err' = scan_err
        BY <3>6 DEF Skip
      <4>2. Agrees(stack, TRUE, T, O)
        <5>1. Top = stack[Len(stack)] /\ Len(stack) \in Nat
          BY <3>1, <4>1, StackTop DEF Top
        <5>2. \A i \in 1 .. Len(stack) : i < Len(stack) \/ stack[i] = Top
          BY <5>1
        <5>3. \A b : Top \notin OnBus(b)
          BY <4>1 DEF OnBus
        <5> QED
          BY <3>1, <5>2, <5>3 DEF Agrees
      <4>3. Agrees(stack', FALSE, T, O)
        BY <3>1, <3>4, <4>1, <4>2, MovesOn
      <4>4. Opened' = Opened
        BY <3>3, <4>1 DEF Opened
      <4> QED
        BY <2>2, <3>1, <3>2, <4>1, <4>3, <4>4
    <3>7. CASE TableFull
      <4>1. Cardinality(Present) > MaxDevices
        BY <2>2, <2>4, <3>7, MoreThanFit
      <4>2. /\ Len(devices) = MaxDevices /\ devices' = devices
            /\ scan_err' = "kFull" /\ stack' = <<>> /\ roots' = {}
        BY <3>7 DEF TableFull
      <4>3. FullInv'
        BY <1>2, <3>1, <4>1, <4>2 DEF FullInv, Scanned, IsInjective
      <4> QED
        BY <4>2, <4>3 DEF SearchInv
    <3>8. CASE ScanFunction
      <4>1. stack # <<>> /\ Top \in DOMAIN config /\ devices' = Append(devices, Top)
            /\ roots' = roots /\ scan_err' = scan_err
        BY <3>8 DEF ScanFunction
      <4>2. /\ Top \in OnBus(Top[1]) /\ Top[1] \in O /\ Top \notin T
            /\ Top \in Bridges => /\ config[Top].secondary \notin O
                                  /\ config[Top].secondary \in Buses
        BY <2>2, <2>4, <4>1, FoundThere
      <4>3. Range(devices') = T \cup {Top} /\ IsInjective(devices')
        BY <3>1, <4>1, <4>2, TableGrows
      <4>4. Agrees(stack, TRUE, T \cup {Top}, O)
        <5>1. Top = stack[Len(stack)] /\ Len(stack) \in Nat
          BY <3>1, <4>1, StackTop DEF Top
        <5>2. \A i \in 1 .. Len(stack) : /\ i < Len(stack) \/ stack[i] = Top
                                         /\ stack[i] # Top => i < Len(stack)
          BY <5>1
        <5>3. \A i \in 1 .. Len(stack) : Top \in OnBus(stack[i][1]) => stack[i] = Top
          <6> SUFFICES ASSUME NEW i \in 1 .. Len(stack), Top \in OnBus(stack[i][1])
                       PROVE  stack[i] = Top
            OBVIOUS
          <6>1. stack[i][1] = stack[Len(stack)][1]
            BY <5>1 DEF OnBus
          <6>2. Len(stack) \in 1 .. Len(stack)
            BY <3>1, <4>1, EmptySeq
          <6>3. i = Len(stack)
            BY <3>1, <6>1, <6>2 DEF Agrees
          <6> QED
            BY <5>1, <6>3
        <5>4. \A i \in 1 .. Len(stack) : \A a \in OnBus(stack[i][1]) :
                a \in T \cup {Top} <=> Before(a, stack[i]) \/ a = stack[i]
          <6> TAKE i \in 1 .. Len(stack)
          <6> TAKE a \in OnBus(stack[i][1])
          <6>1. a \in T <=> Before(a, stack[i]) \/ (i < Len(stack) /\ a = stack[i])
            BY <3>1 DEF Agrees
          <6> QED
            BY <5>2, <5>3, <6>1
        <5> QED
          BY <3>1, <4>2, <5>4 DEF Agrees
      <4>5. Top[2] < NumDevices /\ config[Top].secondary \in Nat
        BY <3>1, <4>1, Functions DEF Function
      <4>6. CASE config[Top].class # "bridge"
        <5>1. stack' = Replaced(stack, NextAddress(Top))
          BY <3>8, <4>6 DEF ScanFunction
        <5>2. Agrees(stack', FALSE, T \cup {Top}, O)
          BY <3>1, <3>4, <4>1, <4>4, <4>5, <5>1, MovesOn
        <5>3. Opened' = Opened
          BY <3>3, <4>1, <4>3, <4>6 DEF Opened, Bridges
        <5> QED
          BY <2>2, <3>1, <3>2, <4>1, <4>3, <5>2, <5>3
      <4>7. CASE config[Top].class = "bridge"
        <5> DEFINE b == config[Top].secondary
        <5>1. stack' = Append(stack, <<b, 0, 0>>)
          BY <3>8, <4>7 DEF ScanFunction
        <5>2. Top \in Bridges
          BY <4>1, <4>7 DEF Bridges
        <5>3. Opened' = Opened \cup {b}
          BY <3>3, <4>1, <4>3, <5>2 DEF Opened
        <5> HIDE DEF b
        <5>4. Agrees(stack', FALSE, T \cup {Top}, O \cup {b})
          BY <3>1, <4>2, <4>4, <4>5, <5>1, <5>2, BusBegun DEF b
        <5> QED
          BY <2>2, <3>1, <3>2, <4>1, <4>2, <4>3, <5>2, <5>3, <5>4 DEF b
      <4> QED
        BY <4>6, <4>7
    <3>9. CASE Return
      <4> DEFINE caller == Front(stack)
      <4>1. stack # <<>> /\ Top[2] = NumDevices
            /\ stack' = (IF caller = <<>> THEN caller
                         ELSE Replaced(caller, NextAddress(Last(caller))))
            /\ roots' = roots /\ devices' = devices /\ scan_err' = scan_err
        BY <3>9 DEF Return
      <4>2. /\ caller \in Seq(Position)
            /\ \A i \in 1 .. Len(caller) : caller[i] \in DOMAIN config
        <5>1. caller \in Seq(Position) /\ Len(caller) = Len(stack) - 1
              /\ \A i \in 1 .. Len(stack) - 1 : caller[i] = stack[i]
          BY <3>1, <4>1, StackTop
        <5> QED
          BY <5>1 DEF ScanInv
      <4>3. Agrees(caller, TRUE, T, O)
        BY <3>1, <3>4, <4>1, BusLeft
      <4> HIDE DEF caller
      <4>4. Agrees(stack', FALSE, T, O)
        <5>1. CASE caller = <<>>
          <6>1. stack' = <<>> /\ Agrees(<<>>, TRUE, T, O)
            BY <4>1, <4>3, <5>1
          <6>2. Agrees(<<>>, FALSE, T, O)
            BY <6>1 DEF Agrees
          <6> QED
            BY <6>1, <6>2
        <5>2. CASE caller # <<>>
          <6>1. Last(caller) \in DOMAIN config
            <7>1. Last(caller) = caller[Len(caller)] /\ Len(caller) \in 1 .. Len(caller)
              BY <4>2, <5>2, StackTop, EmptySeq
            <7> QED
              BY <4>2, <7>1
          <6>2. Last(caller)[2] < NumDevices
            BY <3>1, <6>1, Functions
          <6> QED
            BY <3>1, <4>1, <4>2, <4>3, <5>2, <6>2, MovesOn
        <5> QED
          BY <5>1, <5>2
      <4>5. Opened' = Opened
        BY <3>3, <4>1 DEF Opened
      <4> QED
        BY <2>2, <3>1, <3>2, <4>1, <4>4, <4>5
    <3> QED
      BY <1>4, <3>5, <3>6, <3>7, <3>8, <3>9 DEF Scan
  <2> QED
    BY <2>3, <2>4
<1> QED
  BY <1>3, <1>4 DEF Next, Load, Firmware, ScanAllBus, KernelMain, Environment, vars

LEMMA SearchAlways == Spec => [](SearchInv /\ FullInv)
BY ScanAlways, SearchInitially, SearchStep, PTL DEF Spec

(* At the end of a successful search everything on every bus is in the table. *)
LEMMA NothingMissed ==
  ASSUME ScanInv, SearchInv, Scanned, IsTree, scan_err = "kSuccess"
  PROVE  Range(devices) = Present
<1>1. stack = <<>> /\ roots = {} /\ Len(stack) = 0
  BY DEF Scanned
<1>2. Agrees(stack, FALSE, Range(devices), Opened) /\ Opened \subseteq Buses
  BY DEF SearchInv
<1>3. \A b \in Opened : OnBus(b) \subseteq Range(devices)
  BY <1>1, <1>2 DEF Agrees
<1>4. HostBuses \subseteq Opened
  BY <1>1 DEF Opened
<1>5. \A a \in Bridges : a[1] \in Opened /\ Visible(a) => config[a].secondary \in Opened
  <2> SUFFICES ASSUME NEW a \in Bridges, a[1] \in Opened, Visible(a)
               PROVE  config[a].secondary \in Opened
    OBVIOUS
  <2>1. a \in OnBus(a[1])
    BY DEF OnBus, Bridges
  <2>2. a \in Range(devices)
    BY <1>3, <2>1
  <2> QED
    BY <2>2 DEF Opened
<1>6. Buses \subseteq Opened
  BY <1>4, <1>5, BusesClosed
<1>7. Present \subseteq Range(devices)
  BY <1>3, <1>6 DEF Present, OnBus
<1>8. Range(devices) \subseteq Present
  BY <1>2 DEF Agrees, OnBus, Present
<1> QED
  BY <1>7, <1>8

LEMMA CompleteSearch ==
  ASSUME ScanInv, SearchInv, FullInv
  PROVE  ScanComplete
BY NothingMissed DEF ScanComplete, SearchInv, FullInv, ScanInv

-----------------------------------------------------------------------------
(* The controller that the kernel works on.                                *)

BeforeSwitch == {"lookup", "astray", "msi_header", "msi_addr", "msi_data", "bar"}

ChoiceInv ==
  /\ step # "lookup" => Scanned /\ xhc = FoundController
  /\ step \notin BeforeSwitch => mmio = machine.bar.base /\ Mapped(mmio)

LEMMA ChoiceInitially == Init => ChoiceInv
BY DEF Init, StartUpInit, ChoiceInv, BeforeSwitch

(* What is read from the two registers is the base that they hold. *)
LEMMA BarRead ==
  ASSUME machine \in Machines, ReadBar
  PROVE  mmio' = machine.bar.base
<1>1. machine.bar.base \in Nat /\ (machine.bar.wide \/ machine.bar.base < 4)
  BY MachineFacts, StartUpAssumption
<1> DEFINE n == machine.bar.base
<1>2. n % 4 \in Nat /\ n \div 4 \in Nat /\ n = 4 * (n \div 4) + (n % 4)
      /\ (n < 4 => n % 4 = n)
  <2>1. \A k \in Nat : k % 4 \in Nat
    OBVIOUS
  <2>2. \A k \in Nat : k \div 4 \in Nat
    OBVIOUS
  <2>3. \A k \in Nat : k = 4 * (k \div 4) + (k % 4)
    OBVIOUS
  <2>4. \A k \in Nat : k < 4 => k % 4 = k
    OBVIOUS
  <2> QED
    BY <1>1, <2>1, <2>2, <2>3, <2>4
<1>3. mmio' = BarReg(0) + (IF machine.bar.wide THEN 4 * BarReg(1) ELSE 0)
  BY DEF ReadBar
<1>4. BarReg(0) = n % 4 /\ (machine.bar.wide => BarReg(1) = n \div 4)
  BY DEF BarReg
<1>5. CASE machine.bar.wide
  <2>1. mmio' = (n % 4) + 4 * (n \div 4)
    BY <1>3, <1>4, <1>5
  <2> QED
    BY <1>1, <1>2, <2>1
<1>6. CASE ~machine.bar.wide
  <2>1. mmio' = (n % 4) + 0
    BY <1>3, <1>4, <1>6
  <2> QED
    BY <1>1, <1>2, <1>6, <2>1
<1> QED
  BY <1>5, <1>6

LEMMA ChoiceStep == StartInv /\ ChoiceInv /\ [Next]_vars => ChoiceInv'
<1> SUFFICES ASSUME StartInv, ChoiceInv, [Next]_vars PROVE ChoiceInv'
  OBVIOUS
<1>1. machine \in Machines
  BY DEF StartInv, StartUpTypeOK
<1>2. ASSUME UNCHANGED scan
      PROVE  (Scanned' <=> Scanned) /\ FoundController' = FoundController
  BY <1>2 DEF scan, Scanned, FoundController, OfClass, Intel
<1> USE DEF ChoiceInv, BeforeSwitch, card, tables, Go, Mapped
<1>3. CASE UNCHANGED <<boot, scan>> /\ Scanned /\ (StartUp \/ Hardware)
  <2>1. (Scanned' <=> Scanned) /\ FoundController' = FoundController
    BY <1>2, <1>3
  <2>2. CASE LookupXHC
    BY <1>3, <2>1, <2>2 DEF LookupXHC
  <2>3. CASE WriteMSIHeader \/ WriteMSIAddr \/ WriteMSIData
    BY <2>1, <2>3 DEF WriteMSIHeader, WriteMSIAddr, WriteMSIData
  <2>4. CASE ReadBar
    <3>1. mmio' = machine.bar.base
      BY <1>1, <2>4, BarRead
    <3> QED
      BY <2>1, <2>4, <3>1 DEF ReadBar
  <2>5. CASE SwitchEhci2Xhci
    BY <2>1, <2>5 DEF SwitchEhci2Xhci
  <2>6. CASE TakeController
    BY <2>1, <2>6 DEF TakeController, InitializeDevmgr, RequestHCOwnership, OwnsHC, Stop, Halted,
      Reset, ResetDone
  <2>7. CASE SetUp
    BY <2>1, <2>7 DEF SetUp, EnableSlots, AllocScratchpads, AllocScratchPage, WriteDCBAAP,
      InitializeCommandRing, InitializeEventRing, EnableInterrupts, Run, Running, Fail
  <2>8. CASE Hardware
    BY <2>1, <2>8 DEF Hardware, HcHalt, HcStart, HcReset, HcReady, HcEvent, BiosRun, BiosRelease
  <2> QED
    BY <1>3, <2>2, <2>3, <2>4, <2>5, <2>6, <2>7, <2>8 DEF StartUp, Lookup
<1>4. CASE ScanAllBus
  <2>1. ~Scanned
    BY <1>4 DEF ScanAllBus, Scan, Scanned, ScanRoot, Skip, TableFull, ScanFunction, Return
  <2> QED
    BY <1>4, <2>1 DEF ScanAllBus, startup
<1>5. CASE UNCHANGED <<scan, startup>>
  BY <1>2, <1>5 DEF startup
<1> QED
  BY <1>3, <1>4, <1>5 DEF Next, Load, Firmware, KernelMain, Environment, vars

LEMMA ChoiceAlways == Spec => []ChoiceInv
BY StartAlways, ChoiceInitially, ChoiceStep, PTL DEF Spec

(* lookupXHC on a table that has everything. *)
LEMMA ChosenAmongAll ==
  ASSUME ScanInv, Range(devices) = Present
  PROVE  LET all == {a \in Present : config[a].class = "xhc"} IN
           IF all = {} THEN FoundController = Null
           ELSE /\ FoundController \in all
                /\ config[FoundController].intel \/ \A a \in all : ~config[a].intel
<1> DEFINE all == {a \in Present : config[a].class = "xhc"}
<1>1. \A i \in DOMAIN devices : devices[i] \in Present
  BY DEF Range
<1>2. \A a \in Present : \E i \in DOMAIN devices : devices[i] = a
  BY DEF Range
<1>3. DOMAIN devices = 1 .. Len(devices) /\ Len(devices) \in Nat
  BY DEF ScanInv
<1>4. OfClass("xhc") \in SUBSET (0 .. Len(devices))
      /\ OfClass("xhc") \cap Intel \in SUBSET Nat
  BY <1>3 DEF OfClass
<1>5. \A i \in OfClass("xhc") : devices[i] \in all
  BY <1>1 DEF OfClass
<1>6. \A a \in all : \E i \in OfClass("xhc") : devices[i] = a /\ (config[a].intel => i \in Intel)
  BY <1>2 DEF OfClass, Intel
<1>7. CASE OfClass("xhc") \cap Intel # {}
  <2>1. Min(OfClass("xhc") \cap Intel) \in OfClass("xhc") \cap Intel
    BY <1>4, <1>7, LeastNat
  <2>2. FoundController = devices[Min(OfClass("xhc") \cap Intel)]
    BY <1>7 DEF FoundController
  <2>3. FoundController \in all /\ config[FoundController].intel
    BY <1>5, <2>1, <2>2 DEF Intel
  <2> QED
    BY <2>3
<1>8. CASE OfClass("xhc") \cap Intel = {} /\ OfClass("xhc") # {}
  <2>1. Max(OfClass("xhc")) \in OfClass("xhc")
    BY <1>3, <1>4, <1>8, GreatestNat
  <2>2. FoundController = devices[Max(OfClass("xhc"))]
    BY <1>8 DEF FoundController
  <2>3. FoundController \in all /\ \A a \in all : ~config[a].intel
    BY <1>5, <1>6, <1>8, <2>1, <2>2
  <2> QED
    BY <2>3
<1>9. CASE OfClass("xhc") = {}
  <2>1. all = {} /\ FoundController = Null
    BY <1>6, <1>9 DEF FoundController
  <2> QED
    BY <2>1
<1> QED
  BY <1>7, <1>8, <1>9

(* The search goes through every bus behind the host bridges and misses no
   function, or ends with a full table and more functions than fit; with
   lookupXHC it finds a controller if there is one, and Intel's if there is;
   the driver works on that one's registers, where memory is mapped
   (ScanAllBus, lookupXHC, ReadBar).  For every machine whose buses firmware
   has numbered, whatever the tree of bridges. *)
THEOREM BestControllerFound == Spec => []BestController
<1>1. ASSUME ScanInv, SearchInv, FullInv, ChoiceInv PROVE BestController
  <2>1. ScanComplete
    BY <1>1, CompleteSearch
  <2>2. ASSUME step # "lookup", IsTree, scan_err = "kSuccess"
        PROVE  xhc = FoundController /\ Range(devices) = Present
    BY <1>1, <2>2, NothingMissed DEF ChoiceInv
  <2> QED
    BY <1>1, <2>1, <2>2, ChosenAmongAll DEF BestController, ChoiceInv, BeforeSwitch
<1> QED
  BY <1>1, ScanAlways, SearchAlways, ChoiceAlways, PTL
=============================================================================
