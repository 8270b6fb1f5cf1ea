--------------------------- MODULE FrameAllocator ---------------------------
(***************************************************************************)
(* BitmapMemoryManager of kernel/memory_manager, with the loop of main.cpp *)
(* that feeds it the UEFI memory map, InitializeHeap and sbrk.             *)
(*                                                                         *)
(* The bitmap is the set of frames whose bit is one.  Allocate is not one  *)
(* step but its loop, a step per frame it looks at, so that its result can *)
(* be compared with what a search has to find.  Descriptors are in frames: *)
(* UEFI pages and frames are both 4 KiB.                                   *)
(***************************************************************************)
EXTENDS Integers, Sequences

CONSTANTS
  FrameCount,    \* kFrameCount
  HeapFrames,    \* kHeapFrames
  BytesPerFrame, \* kBytesPerFrame
  MemoryMaps,    \* memory maps the firmware may pass
  Requests,      \* sizes the callers of Allocate ask for
  Increments     \* arguments of sbrk

Descriptor == [start : Nat, pages : Nat, usable : BOOLEAN]
Frames(d) == d.start .. d.start + d.pages - 1

\* The bitmap ends at 128 GiB; so must the memory map.
ASSUME FrameAllocatorAssumption ==
  /\ FrameCount \in Nat
  /\ HeapFrames \in Nat \ {0}
  /\ BytesPerFrame \in Nat \ {0}
  /\ Requests \subseteq Nat \ {0}
  /\ Increments \subseteq Int
  /\ MemoryMaps \subseteq Seq(Descriptor)
  /\ \A m \in MemoryMaps : \A k \in DOMAIN m : Frames(m[k]) \subseteq 0 .. FrameCount - 1
  /\ \A m \in MemoryMaps : \A k \in DOMAIN m : m[k].start <= FrameCount

VARIABLES
  alloc_map,                \* frames whose bit is one
  range_begin, range_end,
  memory_map, iter,         \* the map and the descriptor the loop is at
  available_end,
  pc,                       \* "map", "idle", "scan", or "halt" after exit(1)
  caller,                   \* who called Allocate: "heap" or "client"
  num_frames, start_frame_id, i,
  blocks,                   \* blocks handed out and not freed
  program_break, program_break_end

scan == <<caller, num_frames, start_frame_id, i>>
boot == <<memory_map, iter, available_end>>
heap == <<program_break, program_break_end>>
vars == <<alloc_map, range_begin, range_end, boot, pc, scan, blocks, heap>>

Block(s, n) == s .. s + n - 1

Init ==
  /\ alloc_map = {}
  /\ range_begin = 0
  /\ range_end = FrameCount
  /\ memory_map \in MemoryMaps
  /\ iter = 1
  /\ available_end = 0
  /\ pc = "map"
  /\ caller = "heap"
  /\ num_frames = 0 /\ start_frame_id = 0 /\ i = 0
  /\ blocks = {}
  /\ program_break = 0 /\ program_break_end = 0

-----------------------------------------------------------------------------
(* Boot.                                                                   *)

\* The frames between two descriptors count as used.
Gap(d) == available_end .. d.start - 1

\* Mutated: holes in the map are taken for memory.
ReadDescriptorKeepGaps ==
  /\ pc = "map" /\ iter <= Len(memory_map)
  /\ LET d == memory_map[iter] IN
       /\ alloc_map' = alloc_map \cup (IF d.usable THEN {} ELSE Frames(d))
       /\ available_end' = IF d.usable THEN d.start + d.pages ELSE available_end
  /\ iter' = iter + 1
  /\ UNCHANGED <<range_begin, range_end, memory_map, pc, scan, blocks, heap>>

ReadDescriptor ==
  /\ pc = "map" /\ iter <= Len(memory_map)
  /\ LET d == memory_map[iter] IN
       /\ alloc_map' = alloc_map \cup Gap(d) \cup (IF d.usable THEN {} ELSE Frames(d))
       /\ available_end' = IF d.usable THEN d.start + d.pages ELSE available_end
  /\ iter' = iter + 1
  /\ UNCHANGED <<range_begin, range_end, memory_map, pc, scan, blocks, heap>>

StartScan(who, n, from) ==
  /\ pc' = "scan"
  /\ caller' = who
  /\ num_frames' = n
  /\ start_frame_id' = from
  /\ i' = 0

\* Mutated: frame 0 is handed out like any other.
SetMemoryRangeFromZero ==
  /\ pc = "map" /\ iter > Len(memory_map)
  /\ range_begin' = 0
  /\ range_end' = available_end
  /\ StartScan("heap", HeapFrames, 0)
  /\ UNCHANGED <<alloc_map, boot, blocks, heap>>

\* SetMemoryRange and the call of Allocate in InitializeHeap.
SetMemoryRange ==
  /\ pc = "map" /\ iter > Len(memory_map)
  /\ range_begin' = 1
  /\ range_end' = available_end
  /\ StartScan("heap", HeapFrames, 1)
  /\ UNCHANGED <<alloc_map, boot, blocks, heap>>

-----------------------------------------------------------------------------
(* Allocate.                                                               *)

Allocate(n) ==
  /\ pc = "idle"
  /\ StartScan("client", n, range_begin)
  /\ UNCHANGED <<alloc_map, range_begin, range_end, boot, blocks, heap>>

\* Mutated: range_end taken for the last frame.
NextFramePastEnd ==
  /\ pc = "scan"
  /\ i < num_frames
  /\ i + start_frame_id <= range_end
  /\ i + start_frame_id \notin alloc_map
  /\ i' = i + 1
  /\ UNCHANGED <<alloc_map, range_begin, range_end, boot, pc,
                 caller, num_frames, start_frame_id, blocks, heap>>

NextFrame ==
  /\ pc = "scan"
  /\ i < num_frames
  /\ i + start_frame_id < range_end
  /\ i + start_frame_id \notin alloc_map
  /\ i' = i + 1
  /\ UNCHANGED <<alloc_map, range_begin, range_end, boot, pc,
                 caller, num_frames, start_frame_id, blocks, heap>>

\* Mutated: the search goes on a whole request further on.
SkipUsedTooFar ==
  /\ pc = "scan"
  /\ i < num_frames
  /\ i + start_frame_id < range_end
  /\ i + start_frame_id \in alloc_map
  /\ start_frame_id' = start_frame_id + num_frames
  /\ i' = 0
  /\ UNCHANGED <<alloc_map, range_begin, range_end, boot, pc,
                 caller, num_frames, blocks, heap>>

SkipUsed ==
  /\ pc = "scan"
  /\ i < num_frames
  /\ i + start_frame_id < range_end
  /\ i + start_frame_id \in alloc_map
  /\ start_frame_id' = start_frame_id + i + 1
  /\ i' = 0
  /\ UNCHANGED <<alloc_map, range_begin, range_end, boot, pc,
                 caller, num_frames, blocks, heap>>

\* Mutated: the last frame of the block is not marked.
FoundMarkOneLess ==
  /\ pc = "scan"
  /\ i = num_frames
  /\ alloc_map' = alloc_map \cup Block(start_frame_id, num_frames - 1)
  /\ blocks' = blocks \cup {<<start_frame_id, num_frames>>}
  /\ pc' = "idle"
  /\ IF caller = "heap"
       THEN /\ program_break' = start_frame_id * BytesPerFrame
            /\ program_break_end' = program_break' + HeapFrames * BytesPerFrame
       ELSE UNCHANGED heap
  /\ UNCHANGED <<range_begin, range_end, boot, scan>>

\* The return to a client, or to InitializeHeap.
Found ==
  /\ pc = "scan"
  /\ i = num_frames
  /\ alloc_map' = alloc_map \cup Block(start_frame_id, num_frames)
  /\ blocks' = blocks \cup {<<start_frame_id, num_frames>>}
  /\ pc' = "idle"
  /\ IF caller = "heap"
       THEN /\ program_break' = start_frame_id * BytesPerFrame
            /\ program_break_end' = program_break' + HeapFrames * BytesPerFrame
       ELSE UNCHANGED heap
  /\ UNCHANGED <<range_begin, range_end, boot, scan>>

\* kNoEnoughMemory; without a heap the kernel exits.
NotFound ==
  /\ pc = "scan"
  /\ i < num_frames
  /\ i + start_frame_id >= range_end
  /\ pc' = IF caller = "heap" THEN "halt" ELSE "idle"
  /\ UNCHANGED <<alloc_map, range_begin, range_end, boot, scan, blocks, heap>>

-----------------------------------------------------------------------------
(* Free and sbrk.  A caller frees what it was given, and gives back to     *)
(* sbrk no more than it has taken.                                         *)
HeapStart == program_break_end - HeapFrames * BytesPerFrame
IsHeap(b) == b[1] * BytesPerFrame = HeapStart

\* Mutated: num_frames taken for the last index.
FreeOneLess(b) ==
  /\ pc = "idle"
  /\ ~IsHeap(b)
  /\ alloc_map' = alloc_map \ Block(b[1], b[2] - 1)
  /\ blocks' = blocks \ {b}
  /\ UNCHANGED <<range_begin, range_end, boot, pc, scan, heap>>

Free(b) ==
  /\ pc = "idle"
  /\ ~IsHeap(b)
  /\ alloc_map' = alloc_map \ Block(b[1], b[2])
  /\ blocks' = blocks \ {b}
  /\ UNCHANGED <<range_begin, range_end, boot, pc, scan, heap>>

Sbrk(incr) ==
  /\ pc = "idle"
  /\ program_break + incr >= HeapStart
  /\ ~(program_break = 0 \/ program_break + incr >= program_break_end)
  /\ program_break' = program_break + incr
  /\ UNCHANGED <<alloc_map, range_begin, range_end, boot, pc, scan, blocks,
                 program_break_end>>

-----------------------------------------------------------------------------
Next ==
  \/ ReadDescriptor \/ SetMemoryRange
  \/ NextFrame \/ SkipUsed \/ Found \/ NotFound
  \/ \E n \in Requests : Allocate(n)
  \/ \E b \in blocks : Free(b)
  \/ \E incr \in Increments : Sbrk(incr)

Spec == Init /\ [][Next]_vars

-----------------------------------------------------------------------------
TypeOK ==
  /\ alloc_map \subseteq 0 .. FrameCount - 1
  /\ range_begin \in {0, 1} /\ range_end \in 0 .. FrameCount
  /\ memory_map \in Seq(Descriptor)
  /\ iter \in 1 .. Len(memory_map) + 1
  /\ available_end \in 0 .. FrameCount
  /\ pc \in {"map", "idle", "scan", "halt"}
  /\ caller \in {"heap", "client"}
  /\ num_frames \in Nat /\ start_frame_id \in Nat /\ i \in Nat
  /\ blocks \subseteq Nat \X Nat
  /\ program_break \in Nat /\ program_break_end \in Nat

InUsable(f)   == \E k \in DOMAIN memory_map : memory_map[k].usable /\ f \in Frames(memory_map[k])
InReserved(f) == \E k \in DOMAIN memory_map : ~memory_map[k].usable /\ f \in Frames(memory_map[k])
InRange(f)    == range_begin <= f /\ f < range_end

(* Memory that the firmware reserves or does not mention is never handed   *)
(* out, in whatever order the descriptors come (main.cpp:150-173).         *)
OnlyUsableMemory ==
  pc # "map" =>
    /\ \A f \in 0 .. FrameCount - 1 : InRange(f) /\ f \notin alloc_map => InUsable(f) /\ ~InReserved(f)
    /\ \A b \in blocks : \A f \in Block(b[1], b[2]) : InUsable(f) /\ ~InReserved(f)

(* Two blocks in use never share a frame, and their bits are one           *)
(* (BitmapMemoryManager::Allocate, Free, MarkAllocated).                   *)
BlocksDisjoint ==
  /\ \A b \in blocks : Block(b[1], b[2]) \subseteq alloc_map
  /\ \A b, c \in blocks : b # c => Block(b[1], b[2]) \cap Block(c[1], c[2]) = {}

Fits(s) == \A f \in Block(s, num_frames) : InRange(f) /\ f \notin alloc_map

(* A search that fails has missed no free run of frames, and one that      *)
(* succeeds has found the lowest (BitmapMemoryManager::Allocate).          *)
FirstFit ==
  [][pc = "scan" /\ pc' # "scan" =>
       IF blocks' = blocks
         THEN \A s \in 0 .. FrameCount : ~Fits(s)
         ELSE Fits(start_frame_id) /\ \A s \in 0 .. start_frame_id - 1 : ~Fits(s)]_vars

\* Non-decreasing, without overlap.
Sorted(m) ==
  \A k, l \in DOMAIN m : k < l => m[k].start + m[k].pages <= m[l].start

(* With a sorted map no frame gets lost: every usable frame but frame 0 is *)
(* free or in one block, at every moment between two calls (main.cpp:150-  *)
(* 173; BitmapMemoryManager::Allocate, Free).                              *)
NoFrameLost ==
  pc \in {"idle", "scan", "halt"} /\ Sorted(memory_map) =>
    \A f \in 1 .. FrameCount - 1 : InUsable(f) =>
      InRange(f) /\ (f \notin alloc_map \/ \E b \in blocks : f \in Block(b[1], b[2]))

(* From InitializeHeap on the program break is not null, which sbrk would  *)
(* take for "no heap", and stays inside a block that nobody else has       *)
(* (memory_manager.cpp:74-86, sbrk).                                       *)
HeapOwned ==
  pc = "idle" =>
    /\ \E b \in blocks : IsHeap(b) /\ b[2] = HeapFrames
    /\ 0 < program_break /\ HeapStart <= program_break /\ program_break < program_break_end
=============================================================================
