----------------------- MODULE FrameAllocatorProofs ------------------------
(***************************************************************************)
(* The frame allocator for every memory map, in whatever order, and every  *)
(* sequence of requests.  Each property of FrameAllocator is a conjunct of *)
(* AllocatorInv; what makes it inductive is what the two loops know about  *)
(* the part they have behind them.                                         *)
(***************************************************************************)
EXTENDS FrameAllocator, TLAPS

\* The loop over the memory map, at descriptor iter.
MapInv ==
  /\ memory_map \in MemoryMaps
  /\ pc = "map" =>
       /\ blocks = {} /\ program_break = 0
       /\ \A f \in 0 .. available_end - 1 : f \notin alloc_map => InUsable(f)
       /\ \A k \in 1 .. iter - 1 : ~memory_map[k].usable => Frames(memory_map[k]) \subseteq alloc_map

\* The search, which has looked at start_frame_id + 0 .. i - 1.
ScanInv ==
  pc = "scan" =>
    /\ 0 < num_frames /\ i <= num_frames /\ range_begin <= start_frame_id
    /\ \A f \in Block(start_frame_id, i) : InRange(f) /\ f \notin alloc_map
    /\ \A s \in Nat : s < start_frame_id => ~Fits(s)
    /\ caller = "heap" => num_frames = HeapFrames

RangeInv ==
  /\ pc # "map" => range_begin = 1
  /\ \A b \in blocks : b[1] >= 1

\* Before a client can call, the heap is there.
HeapInv ==
  pc = "idle" \/ (pc = "scan" /\ caller = "client") =>
    /\ \E b \in blocks : IsHeap(b) /\ b[2] = HeapFrames
    /\ 0 < program_break /\ HeapStart <= program_break /\ program_break < program_break_end

AllocatorInv ==
  TypeOK /\ MapInv /\ RangeInv /\ OnlyUsableMemory /\ BlocksDisjoint /\ ScanInv /\ HeapInv

LEMMA Parameters ==
  /\ FrameCount \in Nat /\ HeapFrames \in Nat \ {0} /\ BytesPerFrame \in Nat \ {0}
  /\ Requests \subseteq Nat \ {0} /\ Increments \subseteq Int
BY FrameAllocatorAssumption

LEMMA MapFacts ==
  ASSUME NEW m \in MemoryMaps
  PROVE  /\ m \in Seq(Descriptor) /\ Len(m) \in Nat /\ DOMAIN m = 1 .. Len(m)
         /\ \A k \in 1 .. Len(m) :
              /\ m[k].start \in Nat /\ m[k].pages \in Nat /\ m[k].usable \in BOOLEAN
              /\ m[k].start <= FrameCount /\ m[k].start + m[k].pages <= FrameCount
              /\ Frames(m[k]) \subseteq 0 .. FrameCount - 1
<1>1. m \in Seq(Descriptor)
  BY FrameAllocatorAssumption
<1>2. Len(m) \in Nat /\ DOMAIN m = 1 .. Len(m)
  BY <1>1
<1>3. ASSUME NEW k \in 1 .. Len(m)
      PROVE  /\ m[k].start \in Nat /\ m[k].pages \in Nat /\ m[k].usable \in BOOLEAN
             /\ m[k].start <= FrameCount /\ m[k].start + m[k].pages <= FrameCount
             /\ Frames(m[k]) \subseteq 0 .. FrameCount - 1
  <2>1. m[k] \in Descriptor
    BY <1>1, <1>2
  <2>2. m[k].start \in Nat /\ m[k].pages \in Nat /\ m[k].usable \in BOOLEAN
    BY <2>1 DEF Descriptor
  <2>3. m[k].start <= FrameCount /\ Frames(m[k]) \subseteq 0 .. FrameCount - 1
    BY <1>2, FrameAllocatorAssumption
  <2>4. m[k].start + m[k].pages <= FrameCount
    <3>1. CASE m[k].pages = 0
      BY <2>2, <2>3, <3>1
    <3>2. CASE m[k].pages # 0
      <4>1. m[k].start + m[k].pages - 1 \in Frames(m[k])
        BY <2>2, <3>2 DEF Frames
      <4> QED
        BY <2>2, <2>3, <4>1, Parameters
    <3> QED
      BY <3>1, <3>2
  <2> QED
    BY <2>2, <2>3, <2>4
<1> QED
  BY <1>1, <1>2, <1>3

LEMMA HeapArithmetic ==
  ASSUME NEW s \in Nat, s >= 1
  PROVE  /\ s * BytesPerFrame \in Nat /\ HeapFrames * BytesPerFrame \in Nat
         /\ 0 < s * BytesPerFrame /\ 0 < HeapFrames * BytesPerFrame
BY Parameters

-----------------------------------------------------------------------------
LEMMA AllocatorInit == Init => AllocatorInv
<1> SUFFICES ASSUME Init PROVE AllocatorInv
  OBVIOUS
<1>1. memory_map \in Seq(Descriptor) /\ Len(memory_map) \in Nat
  BY MapFacts DEF Init
<1> QED
  BY <1>1, Parameters
     DEF Init, AllocatorInv, TypeOK, MapInv, RangeInv, OnlyUsableMemory, BlocksDisjoint, ScanInv, HeapInv

LEMMA ReadDescriptorKeeps == AllocatorInv /\ ReadDescriptor => AllocatorInv'
<1> SUFFICES ASSUME AllocatorInv, ReadDescriptor PROVE AllocatorInv'
  OBVIOUS
<1> DEFINE d == memory_map[iter]
<1>1. /\ pc = "map" /\ iter \in 1 .. Len(memory_map)
      /\ alloc_map' = alloc_map \cup Gap(d) \cup (IF d.usable THEN {} ELSE Frames(d))
      /\ available_end' = IF d.usable THEN d.start + d.pages ELSE available_end
      /\ iter' = iter + 1
      /\ UNCHANGED <<range_begin, range_end, memory_map, pc, scan, blocks, heap>>
  BY DEF ReadDescriptor, AllocatorInv, TypeOK
<1>2. /\ memory_map \in MemoryMaps /\ blocks = {} /\ program_break = 0
      /\ \A f \in 0 .. available_end - 1 : f \notin alloc_map => InUsable(f)
      /\ \A k \in 1 .. iter - 1 : ~memory_map[k].usable => Frames(memory_map[k]) \subseteq alloc_map
  BY <1>1 DEF AllocatorInv, MapInv
<1>3. /\ d.start \in Nat /\ d.pages \in Nat /\ d.usable \in BOOLEAN
      /\ d.start <= FrameCount /\ d.start + d.pages <= FrameCount
      /\ Frames(d) \subseteq 0 .. FrameCount - 1
      /\ DOMAIN memory_map = 1 .. Len(memory_map) /\ Len(memory_map) \in Nat
  BY <1>1, <1>2, MapFacts
<1>4. TypeOK'
  <2>1. available_end \in 0 .. FrameCount /\ alloc_map \subseteq 0 .. FrameCount - 1
    BY DEF AllocatorInv, TypeOK
  <2>2. Gap(d) \subseteq 0 .. FrameCount - 1
    BY <1>3, <2>1, Parameters DEF Gap
  <2>3. alloc_map' \subseteq 0 .. FrameCount - 1
    BY <1>1, <1>3, <2>1, <2>2
  <2>4. available_end' \in 0 .. FrameCount
    BY <1>1, <1>3, <2>1, Parameters
  <2>5. iter' \in 1 .. Len(memory_map) + 1
    BY <1>1, <1>3
  <2> QED
    BY <1>1, <2>3, <2>4, <2>5 DEF AllocatorInv, TypeOK, scan, heap
<1>5. MapInv'
  <2>1. ASSUME NEW f \in 0 .. available_end' - 1, f \notin alloc_map' PROVE InUsable(f)
    <3>1. CASE f < available_end
      BY <1>1, <1>2, <1>3, <2>1, <3>1 DEF AllocatorInv, TypeOK
    <3>2. CASE ~(f < available_end)
      <4>1. d.usable /\ f < d.start + d.pages
        BY <1>1, <1>3, <3>2 DEF AllocatorInv, TypeOK
      <4>2. f \notin Gap(d)
        BY <1>1, <2>1
      <4>3. f \in Frames(d)
        BY <1>3, <3>2, <4>1, <4>2 DEF Gap, Frames, AllocatorInv, TypeOK
      <4> QED
        BY <1>1, <1>3, <4>1, <4>3 DEF InUsable
    <3> QED
      BY <3>1, <3>2
  <2>2. ASSUME NEW k \in 1 .. iter' - 1, ~memory_map[k].usable
        PROVE  Frames(memory_map[k]) \subseteq alloc_map'
    <3>1. CASE k = iter
      BY <1>1, <2>2, <3>1
    <3>2. CASE k # iter
      <4>1. k \in 1 .. iter - 1
        BY <1>1, <1>3, <3>2
      <4> QED
        BY <1>1, <1>2, <2>2, <4>1
    <3> QED
      BY <3>1, <3>2
  <2> QED
    BY <1>1, <1>2, <2>1, <2>2 DEF MapInv, InUsable, heap
<1> QED
  BY <1>1, <1>2, <1>4, <1>5
     DEF AllocatorInv, RangeInv, OnlyUsableMemory, BlocksDisjoint, ScanInv, HeapInv

LEMMA SetMemoryRangeKeeps == AllocatorInv /\ SetMemoryRange => AllocatorInv'
<1> SUFFICES ASSUME AllocatorInv, SetMemoryRange PROVE AllocatorInv'
  OBVIOUS
<1>1. /\ pc = "map" /\ iter = Len(memory_map) + 1
      /\ range_begin' = 1 /\ range_end' = available_end
      /\ pc' = "scan" /\ caller' = "heap" /\ num_frames' = HeapFrames
      /\ start_frame_id' = 1 /\ i' = 0
      /\ UNCHANGED <<alloc_map, boot, blocks, heap>>
  <2>1. Len(memory_map) \in Nat
    BY MapFacts DEF AllocatorInv, MapInv
  <2> QED
    BY <2>1 DEF SetMemoryRange, StartScan, AllocatorInv, TypeOK
<1>2. /\ memory_map \in MemoryMaps /\ blocks = {}
      /\ \A f \in 0 .. available_end - 1 : f \notin alloc_map => InUsable(f)
      /\ \A k \in 1 .. Len(memory_map) : ~memory_map[k].usable => Frames(memory_map[k]) \subseteq alloc_map
      /\ DOMAIN memory_map = 1 .. Len(memory_map)
  <2>1. /\ memory_map \in MemoryMaps /\ blocks = {}
        /\ \A f \in 0 .. available_end - 1 : f \notin alloc_map => InUsable(f)
        /\ \A k \in 1 .. iter - 1 : ~memory_map[k].usable => Frames(memory_map[k]) \subseteq alloc_map
    BY <1>1 DEF AllocatorInv, MapInv
  <2>2. DOMAIN memory_map = 1 .. Len(memory_map) /\ iter - 1 = Len(memory_map)
    BY <1>1, <2>1, MapFacts
  <2> QED
    BY <2>1, <2>2
<1>3. TypeOK'
  BY <1>1, Parameters DEF AllocatorInv, TypeOK, boot, heap
<1>4. OnlyUsableMemory'
  <2>1. ASSUME NEW f \in 0 .. FrameCount - 1, 1 <= f, f < available_end, f \notin alloc_map
        PROVE  InUsable(f) /\ ~InReserved(f)
    <3>1. f \in 0 .. available_end - 1
      BY <2>1 DEF AllocatorInv, TypeOK
    <3>2. ~InReserved(f)
      BY <1>2, <2>1 DEF InReserved
    <3> QED
      BY <1>2, <2>1, <3>1, <3>2
  <2> QED
    BY <1>1, <1>2, <2>1 DEF OnlyUsableMemory, InRange, InUsable, InReserved, boot
<1>5. ScanInv'
  <2>1. \A s \in Nat : s < 1 => ~Fits(s)'
    <3> SUFFICES ASSUME NEW s \in Nat, s < 1 PROVE ~Fits(s)'
      OBVIOUS
    <3>1. s \in Block(s, HeapFrames)
      BY Parameters DEF Block
    <3> QED
      BY <1>1, <3>1 DEF Fits, Block, InRange
  <2> QED
    BY <1>1, <2>1, Parameters DEF ScanInv, Block, Fits
<1> QED
  BY <1>1, <1>2, <1>3, <1>4, <1>5
     DEF AllocatorInv, MapInv, RangeInv, BlocksDisjoint, HeapInv, boot, heap

LEMMA AllocateKeeps ==
  ASSUME AllocatorInv, NEW n \in Requests, Allocate(n)
  PROVE  AllocatorInv'
<1>1. /\ pc = "idle" /\ pc' = "scan" /\ caller' = "client"
      /\ num_frames' = n /\ start_frame_id' = range_begin /\ i' = 0
      /\ UNCHANGED <<alloc_map, range_begin, range_end, boot, blocks, heap>>
  BY DEF Allocate, StartScan
<1>2. n \in Nat /\ n > 0 /\ range_begin = 1
  BY <1>1, Parameters DEF AllocatorInv, RangeInv
<1>3. TypeOK'
  BY <1>1, <1>2 DEF AllocatorInv, TypeOK, boot, heap
<1>4. ScanInv'
  <2>1. \A s \in Nat : s < 1 => ~Fits(s)'
    <3> SUFFICES ASSUME NEW s \in Nat, s < 1 PROVE ~Fits(s)'
      OBVIOUS
    <3>1. s \in Block(s, n)
      BY <1>2 DEF Block
    <3> QED
      BY <1>1, <1>2, <3>1 DEF Fits, Block, InRange
  <2> QED
    BY <1>1, <1>2, <2>1 DEF ScanInv, Block, Fits
<1> QED
  BY <1>1, <1>3, <1>4
     DEF AllocatorInv, MapInv, RangeInv, OnlyUsableMemory, BlocksDisjoint, HeapInv,
         InRange, InUsable, InReserved, IsHeap, HeapStart, boot, heap

LEMMA NextFrameKeeps == AllocatorInv /\ NextFrame => AllocatorInv'
<1> SUFFICES ASSUME AllocatorInv, NextFrame PROVE AllocatorInv'
  OBVIOUS
<1>1. /\ pc = "scan" /\ i < num_frames /\ i' = i + 1
      /\ InRange(i + start_frame_id) /\ i + start_frame_id \notin alloc_map
      /\ UNCHANGED <<alloc_map, range_begin, range_end, boot, pc,
                     caller, num_frames, start_frame_id, blocks, heap>>
  BY DEF NextFrame, AllocatorInv, ScanInv, TypeOK, InRange
<1>2. TypeOK'
  BY <1>1 DEF AllocatorInv, TypeOK, boot, heap
<1>3. \A f \in Block(start_frame_id, i + 1) : InRange(f) /\ f \notin alloc_map
  BY <1>1 DEF AllocatorInv, TypeOK, ScanInv, Block
<1>4. ScanInv'
  BY <1>1, <1>3 DEF AllocatorInv, TypeOK, ScanInv, Block, InRange, Fits
<1> QED
  BY <1>1, <1>2, <1>4
     DEF AllocatorInv, MapInv, RangeInv, OnlyUsableMemory, BlocksDisjoint, HeapInv,
         InRange, InUsable, InReserved, IsHeap, HeapStart, boot, heap

LEMMA SkipUsedKeeps == AllocatorInv /\ SkipUsed => AllocatorInv'
<1> SUFFICES ASSUME AllocatorInv, SkipUsed PROVE AllocatorInv'
  OBVIOUS
<1>1. /\ pc = "scan" /\ i < num_frames
      /\ i + start_frame_id \in alloc_map
      /\ start_frame_id' = start_frame_id + i + 1 /\ i' = 0
      /\ UNCHANGED <<alloc_map, range_begin, range_end, boot, pc,
                     caller, num_frames, blocks, heap>>
  BY DEF SkipUsed
<1>t. num_frames \in Nat /\ start_frame_id \in Nat /\ i \in Nat /\ range_begin \in Nat
  BY DEF AllocatorInv, TypeOK
<1>2. TypeOK'
  BY <1>1 DEF AllocatorInv, TypeOK, boot, heap
<1>3. ASSUME NEW s \in Nat, s < start_frame_id + i + 1 PROVE ~Fits(s)
  <2>1. CASE s < start_frame_id
    BY <1>1, <2>1 DEF AllocatorInv, ScanInv
  <2>2. CASE ~(s < start_frame_id)
    <3>1. i + start_frame_id \in Block(s, num_frames)
      BY <1>1, <1>t, <1>3, <2>2 DEF Block
    <3> QED
      BY <1>1, <3>1 DEF Fits
  <2> QED
    BY <2>1, <2>2
<1>4. ScanInv'
  BY <1>1, <1>t, <1>3 DEF AllocatorInv, ScanInv, Block, InRange, Fits
<1> QED
  BY <1>1, <1>2, <1>4
     DEF AllocatorInv, MapInv, RangeInv, OnlyUsableMemory, BlocksDisjoint, HeapInv,
         InRange, InUsable, InReserved, IsHeap, HeapStart, boot, heap

LEMMA FoundFits ==
  ASSUME AllocatorInv, Found
  PROVE  /\ Fits(start_frame_id)
         /\ \A f \in Block(start_frame_id, num_frames) :
              f \in 0 .. FrameCount - 1 /\ InUsable(f) /\ ~InReserved(f) /\ f \notin alloc_map
         /\ num_frames \in Nat \ {0} /\ start_frame_id \in Nat /\ start_frame_id >= 1
<1>1. /\ \A f \in Block(start_frame_id, num_frames) : InRange(f) /\ f \notin alloc_map
      /\ num_frames \in Nat \ {0} /\ start_frame_id \in Nat /\ start_frame_id >= 1
  BY DEF AllocatorInv, TypeOK, ScanInv, RangeInv, Found
<1>2. ASSUME NEW f \in Block(start_frame_id, num_frames)
      PROVE  f \in 0 .. FrameCount - 1 /\ InUsable(f) /\ ~InReserved(f)
  <2>1. f \in 0 .. FrameCount - 1
    BY <1>1, Parameters DEF Block, InRange, AllocatorInv, TypeOK
  <2> QED
    BY <1>1, <2>1 DEF AllocatorInv, OnlyUsableMemory, Found
<1> QED
  BY <1>1, <1>2 DEF Fits

LEMMA FoundKeeps == AllocatorInv /\ Found => AllocatorInv'
<1> SUFFICES ASSUME AllocatorInv, Found PROVE AllocatorInv'
  OBVIOUS
<1> DEFINE b0 == <<start_frame_id, num_frames>>
<1>1. /\ pc = "scan" /\ pc' = "idle"
      /\ alloc_map' = alloc_map \cup Block(start_frame_id, num_frames)
      /\ blocks' = blocks \cup {b0}
      /\ UNCHANGED <<range_begin, range_end, memory_map, iter, available_end, scan>>
  BY DEF Found, boot
<1>2. /\ \A f \in Block(start_frame_id, num_frames) :
           f \in 0 .. FrameCount - 1 /\ InUsable(f) /\ ~InReserved(f) /\ f \notin alloc_map
      /\ num_frames \in Nat \ {0} /\ start_frame_id \in Nat /\ start_frame_id >= 1
  BY FoundFits
<1>t. /\ alloc_map \subseteq 0 .. FrameCount - 1 /\ blocks \subseteq Nat \X Nat
      /\ program_break \in Nat /\ program_break_end \in Nat
  BY DEF AllocatorInv, TypeOK
<1>3. /\ program_break' \in Nat /\ program_break_end' \in Nat
      /\ \E b \in blocks' : IsHeap(b)' /\ b[2] = HeapFrames
      /\ 0 < program_break' /\ HeapStart' <= program_break' /\ program_break' < program_break_end'
  <2>1. CASE caller = "heap"
    <3>1. /\ program_break' = start_frame_id * BytesPerFrame
          /\ program_break_end' = program_break' + HeapFrames * BytesPerFrame
          /\ num_frames = HeapFrames
      BY <1>1, <2>1 DEF Found, AllocatorInv, ScanInv
    <3>2. program_break' \in Nat /\ program_break_end' \in Nat /\ 0 < program_break'
          /\ program_break' < program_break_end' /\ HeapStart' = program_break'
      BY <1>2, <3>1, HeapArithmetic DEF HeapStart
    <3>3. PICK b \in Nat \X Nat : b = b0
      BY <1>2
    <3>4. b \in blocks' /\ IsHeap(b)' /\ b[2] = HeapFrames
      BY <1>1, <3>1, <3>2, <3>3 DEF IsHeap
    <3>5. HeapStart' <= program_break'
      BY <3>2
    <3> QED
      BY <3>2, <3>4, <3>5
  <2>2. CASE caller # "heap"
    <3>1. UNCHANGED heap /\ caller = "client"
      BY <2>2 DEF Found, AllocatorInv, TypeOK
    <3>2. /\ \E b \in blocks : IsHeap(b) /\ b[2] = HeapFrames
          /\ 0 < program_break /\ HeapStart <= program_break /\ program_break < program_break_end
      BY <1>1, <3>1 DEF AllocatorInv, HeapInv
    <3>3. PICK b \in blocks : IsHeap(b) /\ b[2] = HeapFrames
      BY <3>2
    <3>4. b \in blocks' /\ IsHeap(b)' /\ HeapStart' = HeapStart
      BY <1>1, <3>1, <3>3 DEF heap, IsHeap, HeapStart
    <3> QED
      BY <1>t, <3>1, <3>2, <3>3, <3>4 DEF heap
  <2> QED
    BY <2>1, <2>2
<1>4. TypeOK'
  <2>1. alloc_map' \subseteq 0 .. FrameCount - 1
    BY <1>1, <1>2, <1>t
  <2>2. b0 \in Nat \X Nat
    BY <1>2
  <2>3. blocks' \subseteq Nat \X Nat
    BY <1>1, <1>t, <2>2
  <2> QED
    BY <1>1, <1>3, <2>1, <2>3 DEF AllocatorInv, TypeOK, scan
<1>5. OnlyUsableMemory'
  <2>1. ASSUME NEW b \in blocks', NEW f \in Block(b[1], b[2])
        PROVE  InUsable(f) /\ ~InReserved(f)
    <3>1. CASE b = b0
      BY <1>2, <2>1, <3>1
    <3>2. CASE b # b0
      BY <1>1, <2>1, <3>2 DEF AllocatorInv, OnlyUsableMemory
    <3> QED
      BY <3>1, <3>2
  <2>2. \A f \in 0 .. FrameCount - 1 : InRange(f) /\ f \notin alloc_map' => InUsable(f) /\ ~InReserved(f)
    BY <1>1 DEF AllocatorInv, OnlyUsableMemory
  <2> QED
    BY <1>1, <2>1, <2>2 DEF OnlyUsableMemory, InRange, InUsable, InReserved
<1>6. BlocksDisjoint'
  <2>1. ASSUME NEW b \in blocks PROVE Block(b[1], b[2]) \subseteq alloc_map
    BY <2>1 DEF AllocatorInv, BlocksDisjoint
  <2>2. ASSUME NEW b \in blocks' PROVE Block(b[1], b[2]) \subseteq alloc_map'
    BY <1>1, <2>1, <2>2
  <2>3. ASSUME NEW b \in blocks
        PROVE  Block(b[1], b[2]) \cap Block(start_frame_id, num_frames) = {}
    BY <1>2, <2>1
  <2>4. ASSUME NEW b \in blocks', NEW c \in blocks', b # c
        PROVE  Block(b[1], b[2]) \cap Block(c[1], c[2]) = {}
    <3>1. CASE b \in blocks /\ c \in blocks
      BY <2>4, <3>1 DEF AllocatorInv, BlocksDisjoint
    <3>2. CASE b = b0 /\ c \in blocks
      BY <2>3, <3>2
    <3>3. CASE c = b0 /\ b \in blocks
      BY <2>3, <3>3
    <3> QED
      BY <1>1, <2>4, <3>1, <3>2, <3>3
  <2> QED
    BY <2>2, <2>4 DEF BlocksDisjoint
<1>7. MapInv' /\ RangeInv' /\ ScanInv'
  BY <1>1, <1>2 DEF AllocatorInv, MapInv, RangeInv, ScanInv
<1>8. HeapInv'
  BY <1>3 DEF HeapInv
<1> QED
  BY <1>4, <1>5, <1>6, <1>7, <1>8 DEF AllocatorInv

LEMMA NotFoundKeeps == AllocatorInv /\ NotFound => AllocatorInv'
<1> SUFFICES ASSUME AllocatorInv, NotFound PROVE AllocatorInv'
  OBVIOUS
<1>1. /\ pc = "scan" /\ pc' = IF caller = "heap" THEN "halt" ELSE "idle"
      /\ UNCHANGED <<alloc_map, range_begin, range_end, boot, scan, blocks, heap>>
  BY DEF NotFound
<1>2. pc' = "idle" => caller = "client"
  BY <1>1 DEF AllocatorInv, TypeOK
<1> QED
  BY <1>1, <1>2
     DEF AllocatorInv, TypeOK, MapInv, RangeInv, OnlyUsableMemory, BlocksDisjoint, ScanInv,
         HeapInv, InRange, InUsable, InReserved, IsHeap, HeapStart, boot, heap, scan

LEMMA FreeKeeps ==
  ASSUME AllocatorInv, NEW b0 \in blocks, Free(b0)
  PROVE  AllocatorInv'
<1>1. /\ pc = "idle" /\ ~IsHeap(b0)
      /\ alloc_map' = alloc_map \ Block(b0[1], b0[2])
      /\ blocks' = blocks \ {b0}
      /\ UNCHANGED <<range_begin, range_end, memory_map, iter, available_end, pc, scan, heap>>
  BY DEF Free, boot
<1>2. TypeOK' /\ MapInv' /\ RangeInv' /\ ScanInv'
  BY <1>1 DEF AllocatorInv, TypeOK, MapInv, RangeInv, ScanInv, scan, heap
<1>3. OnlyUsableMemory'
  BY <1>1 DEF AllocatorInv, OnlyUsableMemory, InRange, InUsable, InReserved
<1>4. BlocksDisjoint'
  BY <1>1 DEF AllocatorInv, BlocksDisjoint
<1>5. HeapInv'
  <2>1. PICK b \in blocks : IsHeap(b) /\ b[2] = HeapFrames
    BY <1>1 DEF AllocatorInv, HeapInv
  <2>2. b \in blocks'
    BY <1>1, <2>1
  <2> QED
    BY <1>1, <2>1, <2>2 DEF AllocatorInv, HeapInv, IsHeap, HeapStart, heap
<1> QED
  BY <1>2, <1>3, <1>4, <1>5 DEF AllocatorInv

LEMMA SbrkKeeps ==
  ASSUME AllocatorInv, NEW incr \in Increments, Sbrk(incr)
  PROVE  AllocatorInv'
<1>1. /\ pc = "idle"
      /\ program_break' = program_break + incr
      /\ HeapStart <= program_break' /\ program_break' < program_break_end
      /\ UNCHANGED <<alloc_map, range_begin, range_end, boot, pc, scan, blocks, program_break_end>>
  BY Parameters DEF Sbrk, AllocatorInv, TypeOK, HeapStart
<1>2. PICK b \in blocks : IsHeap(b) /\ b[2] = HeapFrames
  BY <1>1 DEF AllocatorInv, HeapInv
<1>3. 0 < HeapStart
  <2>1. b \in Nat \X Nat /\ HeapStart = b[1] * BytesPerFrame
    BY <1>2 DEF AllocatorInv, TypeOK, IsHeap
  <2>2. b[1] >= 1
    BY DEF AllocatorInv, RangeInv
  <2> QED
    BY <2>1, <2>2, HeapArithmetic
<1>4. HeapStart' = HeapStart /\ IsHeap(b)' /\ b \in blocks'
  BY <1>1, <1>2 DEF HeapStart, IsHeap
<1>5. HeapStart \in Int /\ program_break' \in Int
  BY <1>1, Parameters DEF HeapStart, AllocatorInv, TypeOK
<1>6. HeapInv' /\ program_break' \in Nat
  BY <1>1, <1>2, <1>3, <1>4, <1>5 DEF HeapInv, AllocatorInv, TypeOK
<1>7. TypeOK' /\ MapInv' /\ RangeInv' /\ ScanInv'
  BY <1>1, <1>6 DEF AllocatorInv, TypeOK, MapInv, RangeInv, ScanInv, boot, scan
<1>8. OnlyUsableMemory' /\ BlocksDisjoint'
  BY <1>1 DEF AllocatorInv, OnlyUsableMemory, BlocksDisjoint, InRange, InUsable, InReserved, boot
<1> QED
  BY <1>6, <1>7, <1>8 DEF AllocatorInv

LEMMA AllocatorStep == AllocatorInv /\ [Next]_vars => AllocatorInv'
<1> SUFFICES ASSUME AllocatorInv, [Next]_vars PROVE AllocatorInv'
  OBVIOUS
<1>1. CASE UNCHANGED vars
  BY <1>1
     DEF vars, AllocatorInv, TypeOK, MapInv, RangeInv, OnlyUsableMemory, BlocksDisjoint, ScanInv,
         HeapInv, InRange, InUsable, InReserved, Fits, IsHeap, HeapStart, boot, scan, heap
<1> QED
  BY <1>1, ReadDescriptorKeeps, SetMemoryRangeKeeps, AllocateKeeps, NextFrameKeeps, SkipUsedKeeps,
     FoundKeeps, NotFoundKeeps, FreeKeeps, SbrkKeeps DEF Next

LEMMA AllocatorInvariant == Spec => []AllocatorInv
BY AllocatorInit, AllocatorStep, PTL DEF Spec

(* The state keeps its type; no bit outside the bitmap is ever set (the    *)
(* loop of main.cpp, BitmapMemoryManager::SetBit).                         *)
THEOREM TypeCorrect == Spec => []TypeOK
<1>1. AllocatorInv => TypeOK
  BY DEF AllocatorInv
<1> QED
  BY <1>1, AllocatorInvariant, PTL

(* Whatever the order and the overlaps of the descriptors, no frame is     *)
(* handed out but usable memory (main.cpp:150-173).                        *)
THEOREM AllocatesOnlyUsableMemory == Spec => []OnlyUsableMemory
<1>1. AllocatorInv => OnlyUsableMemory
  BY DEF AllocatorInv
<1> QED
  BY <1>1, AllocatorInvariant, PTL

(* No frame is in two blocks (BitmapMemoryManager::Allocate, Free).        *)
THEOREM NoFrameTwice == Spec => []BlocksDisjoint
<1>1. AllocatorInv => BlocksDisjoint
  BY DEF AllocatorInv
<1> QED
  BY <1>1, AllocatorInvariant, PTL

(* The heap is its own (InitializeHeap, sbrk).                             *)
THEOREM HeapIsOwned == Spec => []HeapOwned
<1>1. AllocatorInv => HeapOwned
  BY DEF AllocatorInv, HeapInv, HeapOwned
<1> QED
  BY <1>1, AllocatorInvariant, PTL

(* Allocate is a first fit, and fails only if nothing fits                 *)
(* (BitmapMemoryManager::Allocate).                                        *)
THEOREM AllocateIsFirstFit == Spec => FirstFit
<1>1. ASSUME AllocatorInv, Found
      PROVE  blocks' # blocks /\ Fits(start_frame_id) /\ \A s \in 0 .. start_frame_id - 1 : ~Fits(s)
  <2>1. Fits(start_frame_id) /\ start_frame_id \in Nat /\ num_frames \in Nat \ {0}
    BY <1>1, FoundFits
  <2>2. <<start_frame_id, num_frames>> \notin blocks
    <3>1. start_frame_id \in Block(start_frame_id, num_frames)
      BY <2>1 DEF Block
    <3>2. start_frame_id \notin alloc_map
      BY <2>1, <3>1 DEF Fits
    <3> QED
      BY <1>1, <3>1, <3>2 DEF AllocatorInv, BlocksDisjoint
  <2>3. \A s \in 0 .. start_frame_id - 1 : ~Fits(s)
    BY <1>1, <2>1 DEF AllocatorInv, ScanInv, Found
  <2> QED
    BY <1>1, <2>2, <2>3, <2>1 DEF Found
<1>2. ASSUME AllocatorInv, NotFound
      PROVE  blocks' = blocks /\ \A s \in 0 .. FrameCount : ~Fits(s)
  <2>1. /\ i < num_frames /\ i + start_frame_id >= range_end /\ blocks' = blocks
        /\ \A s \in Nat : s < start_frame_id => ~Fits(s)
    BY <1>2 DEF AllocatorInv, ScanInv, NotFound
  <2>2. ASSUME NEW s \in Nat, s >= start_frame_id PROVE ~Fits(s)
    <3>1. s + num_frames - 1 \in Block(s, num_frames) /\ ~InRange(s + num_frames - 1)
      BY <1>2, <2>1, <2>2 DEF Block, InRange, AllocatorInv, TypeOK
    <3> QED
      BY <3>1 DEF Fits
  <2> QED
    BY <1>2, <2>1, <2>2, Parameters DEF AllocatorInv, TypeOK
<1>3. AllocatorInv /\ [Next]_vars =>
        [pc = "scan" /\ pc' # "scan" =>
           IF blocks' = blocks
             THEN \A s \in 0 .. FrameCount : ~Fits(s)
             ELSE Fits(start_frame_id) /\ \A s \in 0 .. start_frame_id - 1 : ~Fits(s)]_vars
  <2> SUFFICES ASSUME AllocatorInv, Next, pc = "scan", pc' # "scan"
               PROVE  IF blocks' = blocks
                        THEN \A s \in 0 .. FrameCount : ~Fits(s)
                        ELSE /\ Fits(start_frame_id)
                             /\ \A s \in 0 .. start_frame_id - 1 : ~Fits(s)
    OBVIOUS
  <2>1. Found \/ NotFound
    BY DEF Next, ReadDescriptor, SetMemoryRange, StartScan, NextFrame, SkipUsed, Allocate, Free, Sbrk
  <2> QED
    BY <1>1, <1>2, <2>1
<1> QED
  BY <1>3, AllocatorInvariant, PTL DEF Spec, FirstFit

-----------------------------------------------------------------------------
(* The converse of OnlyUsableMemory needs a sorted map.                    *)
SortedInv ==
  Sorted(memory_map) =>
    /\ pc = "map" =>
         /\ \A f \in alloc_map : ~InUsable(f)
         /\ \A k \in 1 .. iter - 1 :
              memory_map[k].usable => memory_map[k].start + memory_map[k].pages <= available_end
    /\ NoFrameLost

LEMMA SortedReadDescriptor ==
  ASSUME AllocatorInv, SortedInv, ReadDescriptor
  PROVE  SortedInv'
<1> SUFFICES ASSUME Sorted(memory_map) PROVE SortedInv'
  BY DEF SortedInv, ReadDescriptor, Sorted
<1> DEFINE m == memory_map
           d == m[iter]
<1>1. /\ pc = "map" /\ iter \in 1 .. Len(m)
      /\ alloc_map' = alloc_map \cup Gap(d) \cup (IF d.usable THEN {} ELSE Frames(d))
      /\ available_end' = IF d.usable THEN d.start + d.pages ELSE available_end
      /\ iter' = iter + 1
      /\ memory_map' = m /\ pc' = pc
  BY DEF ReadDescriptor, AllocatorInv, TypeOK
<1>2. /\ \A f \in alloc_map : ~InUsable(f)
      /\ \A k \in 1 .. iter - 1 : m[k].usable => m[k].start + m[k].pages <= available_end
      /\ m \in MemoryMaps /\ available_end \in Nat
  BY <1>1 DEF SortedInv, AllocatorInv, MapInv, TypeOK
<1>3. /\ DOMAIN m = 1 .. Len(m) /\ Len(m) \in Nat
      /\ \A k \in 1 .. Len(m) :
           m[k].start \in Nat /\ m[k].pages \in Nat /\ m[k].usable \in BOOLEAN
  BY <1>2, MapFacts
<1>4. \A k, l \in 1 .. Len(m) : k < l => m[k].start + m[k].pages <= m[l].start
  BY <1>3 DEF Sorted
<1>5. ASSUME NEW f \in alloc_map', NEW k \in 1 .. Len(m), m[k].usable, f \in Frames(m[k])
      PROVE  FALSE
  <2>1. f \notin alloc_map
    BY <1>2, <1>3, <1>5 DEF InUsable
  <2>2. CASE f \in Gap(d)
    <3>1. f \in Int /\ available_end <= f /\ f < d.start
      BY <1>1, <1>2, <1>3, <2>2 DEF Gap
    <3>2. m[k].start <= f /\ f < m[k].start + m[k].pages
      BY <1>3, <1>5, <3>1 DEF Frames
    <3>3. CASE k < iter
      BY <1>1, <1>2, <1>3, <1>5, <3>1, <3>2, <3>3
    <3>4. CASE k >= iter
      <4>1. d.start <= m[k].start
        BY <1>1, <1>3, <1>4, <3>4
      <4> QED
        BY <1>1, <1>3, <3>1, <3>2, <4>1
    <3> QED
      BY <1>1, <3>3, <3>4
  <2>3. CASE ~d.usable /\ f \in Frames(d)
    <3>1. k # iter
      BY <1>5, <2>3
    <3>2. f \in Int /\ d.start <= f /\ f < d.start + d.pages
      BY <1>1, <1>3, <2>3 DEF Frames
    <3>3. m[k].start <= f /\ f < m[k].start + m[k].pages
      BY <1>3, <1>5, <3>2 DEF Frames
    <3>4. iter \in 1 .. Len(m) /\ k \in 1 .. Len(m) /\ Len(m) \in Nat
      BY <1>1, <1>3, <1>5
    <3>5. CASE k < iter
      BY <1>4, <3>2, <3>3, <3>4, <3>5, <1>3
    <3>6. CASE iter < k
      BY <1>4, <3>2, <3>3, <3>4, <3>6, <1>3
    <3> QED
      BY <3>1, <3>4, <3>5, <3>6
  <2> QED
    BY <1>1, <1>5, <2>1, <2>2, <2>3
<1>6. ASSUME NEW k \in 1 .. iter' - 1, m[k].usable
      PROVE  m[k].start + m[k].pages <= available_end'
  <2>1. CASE k = iter
    BY <1>1, <1>3, <1>6, <2>1
  <2>2. CASE k # iter
    <3>1. k \in 1 .. iter - 1 /\ k \in 1 .. Len(m) /\ k < iter
      BY <1>1, <1>3, <2>2
    <3>2. m[k].start + m[k].pages <= available_end /\ m[k].start + m[k].pages <= d.start
      BY <1>1, <1>2, <1>4, <1>6, <3>1
    <3> QED
      BY <1>1, <1>2, <1>3, <3>1, <3>2
  <2> QED
    BY <2>1, <2>2
<1> QED
  BY <1>1, <1>3, <1>5, <1>6 DEF SortedInv, NoFrameLost, InUsable

LEMMA SortedStep == AllocatorInv /\ SortedInv /\ [Next]_vars => SortedInv'
<1> SUFFICES ASSUME AllocatorInv, SortedInv, [Next]_vars PROVE SortedInv'
  OBVIOUS
<1>1. CASE SetMemoryRange
  <2> SUFFICES ASSUME Sorted(memory_map) PROVE SortedInv'
    BY <1>1 DEF SortedInv, SetMemoryRange, Sorted, boot
  <2>1. /\ pc = "map" /\ iter = Len(memory_map) + 1 /\ pc' = "scan"
        /\ range_begin' = 1 /\ range_end' = available_end
        /\ alloc_map' = alloc_map /\ memory_map' = memory_map
        /\ DOMAIN memory_map = 1 .. Len(memory_map) /\ Len(memory_map) \in Nat
        /\ \A k \in 1 .. Len(memory_map) :
             memory_map[k].start \in Nat /\ memory_map[k].pages \in Nat
    BY <1>1, MapFacts DEF SetMemoryRange, StartScan, AllocatorInv, MapInv, TypeOK, boot
  <2>2. /\ \A f \in alloc_map : ~InUsable(f)
        /\ \A k \in 1 .. Len(memory_map) :
             memory_map[k].usable => memory_map[k].start + memory_map[k].pages <= available_end
    BY <2>1 DEF SortedInv
  <2>3. ASSUME NEW f \in 1 .. FrameCount - 1, InUsable(f) PROVE f < available_end /\ f \notin alloc_map
    BY <2>1, <2>2, <2>3 DEF InUsable, Frames, AllocatorInv, TypeOK
  <2> QED
    BY <2>1, <2>3, Parameters DEF SortedInv, NoFrameLost, InRange, InUsable
<1>2. CASE Found
  <2>1. /\ alloc_map' = alloc_map \cup Block(start_frame_id, num_frames)
        /\ blocks' = blocks \cup {<<start_frame_id, num_frames>>}
        /\ pc = "scan" /\ pc' = "idle"
        /\ UNCHANGED <<memory_map, range_begin, range_end>>
    BY <1>2 DEF Found, boot
  <2> QED
    BY <2>1 DEF SortedInv, NoFrameLost, InUsable, InRange
<1>3. ASSUME NEW b0 \in blocks, Free(b0) PROVE SortedInv'
  <2>1. /\ alloc_map' = alloc_map \ Block(b0[1], b0[2])
        /\ blocks' = blocks \ {b0}
        /\ pc = "idle" /\ pc' = "idle"
        /\ UNCHANGED <<memory_map, range_begin, range_end>>
    BY <1>3 DEF Free, boot
  <2> QED
    BY <2>1 DEF SortedInv, NoFrameLost, InUsable, InRange
<1>4. ASSUME UNCHANGED <<alloc_map, memory_map, range_begin, range_end, blocks>>,
             UNCHANGED <<iter, available_end>>,
             (pc # "map" /\ pc' # "map") \/ pc' = pc
      PROVE  SortedInv'
  BY <1>4 DEF SortedInv, NoFrameLost, InUsable, InRange, AllocatorInv, TypeOK, vars, boot
<1>5. CASE \/ NextFrame \/ SkipUsed \/ NotFound \/ UNCHANGED vars
           \/ \E n \in Requests : Allocate(n)
           \/ \E incr \in Increments : Sbrk(incr)
  BY <1>4, <1>5 DEF NextFrame, SkipUsed, NotFound, Allocate, StartScan, Sbrk, vars, boot
<1> QED
  BY <1>1, <1>2, <1>3, <1>5, SortedReadDescriptor DEF Next

(* With a sorted map no usable frame but frame 0 is ever lost (main.cpp:   *)
(* 150-173; BitmapMemoryManager::Allocate, Free).                          *)
THEOREM NoFrameIsLost == Spec => []NoFrameLost
<1>1. Init => SortedInv
  BY DEF Init, SortedInv, NoFrameLost
<1>2. AllocatorInv /\ SortedInv => NoFrameLost
  BY DEF SortedInv, NoFrameLost
<1> QED
  BY <1>1, <1>2, SortedStep, AllocatorInvariant, PTL DEF Spec
=============================================================================
