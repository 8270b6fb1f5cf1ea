----------------------------- MODULE BootLoader ------------------------------
(***************************************************************************)
(* The UEFI loader (BootLoaderPkg/Main.c): it takes a memory map, copies   *)
(* the LOAD segments of kernel.elf to their addresses, ends the boot       *)
(* services, for which the firmware wants the key of its current map, and  *)
(* jumps to the kernel with the map that it holds.                         *)
(*                                                                         *)
(* loader names the call of UefiMain that comes next.  A call to the       *)
(* firmware may fail, and HaltIfError then stops the loader.  A byte of    *)
(* memory is known by where it came from: an offset in kernel.elf or       *)
(* "zero".  Addresses are scaled down with the page.                       *)
(***************************************************************************)
EXTENDS SequencesExt, FiniteSetsExt, Integers

CONSTANTS
  Page,         \* bytes of a page, 0x1000
  Addresses,    \* 2^64, what UINT64 counts up to: whole pages
  EntryOffset,  \* where the ELF header keeps the entry point, 24
  Images,       \* kernel files
  MaxKey        \* bound: the firmware changes its map of its own no further

Segment == [load : BOOLEAN, offset : Nat, vaddr : Nat, filesz : Nat, memsz : Nat]

Loads(image) == {s \in ToSet(image.segments) : s.load}
Bytes(s) == s.vaddr .. s.vaddr + s.memsz - 1

\* What the linker makes: LOAD segments that do not overlap and end a page or
\* more below the last address, the lowest of them from the beginning of the
\* file and with the header in it (Main.c:342-343, kernel/Makefile:14).  A file
\* may also hold no LOAD segment.
ASSUME BootLoaderAssumption ==
  /\ Page \in Nat \ {0, 1} /\ Addresses \in Nat \ {0} /\ Addresses % Page = 0
  /\ EntryOffset \in Nat /\ MaxKey \in Nat
  /\ \A image \in Images :
       /\ image.segments \in Seq(Segment) /\ image.entry \in Nat
       /\ \A s \in Loads(image) : s.filesz <= s.memsz /\ s.vaddr + s.memsz + Page <= Addresses
       /\ \A s, t \in Loads(image) : s = t \/ Bytes(s) \cap Bytes(t) = {}
       /\ \A s \in Loads(image) : (\A t \in Loads(image) : s.vaddr <= t.vaddr) =>
            s.offset = 0 /\ s.filesz > EntryOffset

VARIABLES
  loader,       \* the call of UefiMain that comes next
  image,        \* kernel.elf
  key,          \* the firmware's: the key of its memory map,
  services,     \*   whether boot services still run
  pages,        \*   and the pages that AllocatePages gave away
  memmap,       \* the loader's map: its key and the pages it lists as loader data
  segment,      \* the program header that CopyLoadSegments reads next
  memory,       \* the bytes written at kernel addresses
  entry         \* where the loader jumps to; -1: no entry point of the file

boot == <<loader, image, key, services, pages, memmap, segment, memory, entry>>

LoaderInit(file) ==
  /\ loader = "map"
  /\ image = file
  /\ key = 0 /\ services = TRUE /\ pages = {}
  /\ memmap = [key |-> -1, listed |-> {}]
  /\ segment = 1
  /\ memory = <<>>
  /\ entry = -1

Call(from, to) == loader = from /\ loader' = to

\* HaltIfError or, at the pixel format, Halt.
Halt ==
  /\ loader \in {"map", "root", "memmap_file", "gop", "kernel_file", "pages", "free", "retry"}
  /\ loader' = "halt"
  /\ UNCHANGED <<image, key, services, pages, memmap, segment, memory, entry>>

GetMemorymap == memmap' = [key |-> key, listed |-> pages]

FirstMap ==
  /\ Call("map", "root")
  /\ GetMemorymap
  /\ UNCHANGED <<image, key, services, pages, segment, memory, entry>>

\* The calls that only bring files and the screen into reach.
OpenRootDir == Call("root", "memmap_file")

\* That the file cannot be opened is ignored.
SaveMemoryMap == Call("memmap_file", "gop")

OpenGOP == Call("gop", "kernel_file")

\* kernel.elf is read into a pool block.
ReadKernel == Call("kernel_file", "pages")

OpenFiles ==
  /\ OpenRootDir \/ SaveMemoryMap \/ OpenGOP \/ ReadKernel
  /\ UNCHANGED <<image, key, services, pages, memmap, segment, memory, entry>>

\* CalcLoadAddressRange
FirstAddr == Min({s.vaddr : s \in Loads(image)} \cup {Addresses - 1})
LastAddr == Max({s.vaddr + s.memsz : s \in Loads(image)} \cup {0})

\* Mutated: the last page is left out when it is not full.
NumPagesDown == ((LastAddr - FirstAddr) % Addresses) \div Page
NumPages == ((LastAddr - FirstAddr + Page - 1) % Addresses) \div Page

\* AllocatePages at a fixed address wants a multiple of the page.
AllocatePages ==
  /\ Call("pages", "copy")
  /\ FirstAddr % Page = 0
  /\ pages' = FirstAddr .. FirstAddr + NumPages * Page - 1
  /\ key' = key + 1
  /\ UNCHANGED <<image, services, memmap, segment, memory, entry>>

\* The part in the file, then zeros.
Byte(s, a) ==
  IF a < s.vaddr + s.filesz THEN <<"file", s.offset + a - s.vaddr>> ELSE <<"zero">>

\* CopyLoadSegments, one program header.
CopySegment ==
  /\ loader = "copy" /\ segment <= Len(image.segments)
  /\ LET s == image.segments[segment]
     IN memory' = IF ~s.load THEN memory
                  ELSE [a \in Bytes(s) \cup DOMAIN memory |->
                          IF a \in Bytes(s) THEN Byte(s, a) ELSE memory[a]]
  /\ segment' = segment + 1
  /\ UNCHANGED <<loader, image, key, services, pages, memmap, entry>>

CopyEnds ==
  /\ segment > Len(image.segments)
  /\ Call("copy", "free")
  /\ UNCHANGED <<image, key, services, pages, memmap, segment, memory, entry>>

FreePool ==
  /\ Call("free", "exit")
  /\ UNCHANGED <<image, key, services, pages, memmap, segment, memory, entry>>

\* ExitBootServicesWithRetry: with an old key the map is taken again, once.
ExitBootServices ==
  /\ \/ memmap.key = key /\ (Call("exit", "enter") \/ Call("exit_again", "enter")) /\ services' = FALSE
     \/ memmap.key # key /\ (Call("exit", "retry") \/ Call("exit_again", "halt")) /\ services' = services
  /\ UNCHANGED <<image, key, pages, memmap, segment, memory, entry>>

\* Mutated: the new key with the old map.
RetryStale ==
  /\ Call("retry", "exit_again")
  /\ memmap' = [memmap EXCEPT !.key = key]
  /\ UNCHANGED <<image, key, services, pages, segment, memory, entry>>

Retry ==
  /\ Call("retry", "exit_again")
  /\ GetMemorymap
  /\ UNCHANGED <<image, key, services, pages, segment, memory, entry>>

\* The entry point is read from the copied header.
EnterKernel ==
  /\ Call("enter", "kernel")
  /\ entry' = IF memory[FirstAddr + EntryOffset] = <<"file", EntryOffset>> THEN image.entry
              ELSE -1
  /\ UNCHANGED <<image, key, services, pages, memmap, segment, memory>>

\* The firmware's timers and drivers allocate memory of their own.
FirmwareChanges ==
  /\ services /\ loader # "halt" /\ key < MaxKey
  /\ key' = key + 1
  /\ UNCHANGED <<loader, image, services, pages, memmap, segment, memory, entry>>

UefiMain ==
  \/ Halt \/ FirstMap \/ OpenFiles \/ AllocatePages \/ CopySegment \/ CopyEnds \/ FreePool
  \/ ExitBootServices \/ Retry \/ EnterKernel

LoaderTypeOK ==
  /\ loader \in {"map", "root", "memmap_file", "gop", "kernel_file", "pages", "copy", "free",
                 "exit", "retry", "exit_again", "enter", "kernel", "halt"}
  /\ image \in Images /\ key \in Nat /\ services \in BOOLEAN /\ entry \in Int
  /\ memmap.key \in Int /\ segment \in 1 .. Len(image.segments) + 1
  /\ pages \subseteq Nat /\ memmap.listed \subseteq Nat

(* The kernel that is entered is the one in the file: every byte of every  *)
(* LOAD segment is where the segment wants it, inside the pages that the   *)
(* loader asked for, and the jump goes to the file's entry point           *)
(* (CalcLoadAddressRange, CopyLoadSegments, UefiMain).                     *)
KernelImageWhole ==
  loader = "kernel" =>
    /\ \A s \in Loads(image) : \A a \in Bytes(s) :
         /\ a \in pages
         /\ memory[a] = IF a - s.vaddr < s.filesz THEN <<"file", s.offset + a - s.vaddr>>
                        ELSE <<"zero">>
    /\ entry = image.entry

(* The kernel that is entered is whole, and the map handed to it is the    *)
(* firmware's last one and has the kernel's own pages in use, although it  *)
(* was first taken before they were: else the frame allocator would give   *)
(* the kernel away (CopyLoadSegments, ExitBootServicesWithRetry).          *)
HandOver ==
  /\ KernelImageWhole
  /\ ~services => memmap.key = key /\ Loads(image) # {} /\ memmap.listed = pages
=============================================================================
