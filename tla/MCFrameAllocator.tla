-------------------------- MODULE MCFrameAllocator --------------------------
EXTENDS FrameAllocator, FiniteSets

\* Maps of up to three descriptors without overlap, in any order.
Place == {d \in [start : 0 .. FrameCount - 1, pages : 1 .. FrameCount, usable : BOOLEAN] :
            d.start + d.pages <= FrameCount}
MCIncrements == {-1, 1, 2}
Apart(m) == \A k, l \in DOMAIN m : k # l => Frames(m[k]) \cap Frames(m[l]) = {}
MCMemoryMaps == {m \in UNION {[1 .. n -> Place] : n \in 1 .. 3} : Apart(m)}
=============================================================================
