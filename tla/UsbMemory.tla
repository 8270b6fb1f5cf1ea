----------------------------- MODULE UsbMemory -------------------------------
(***************************************************************************)
(* The pool that the USB driver allocates from (kernel/usb/memory.cpp).    *)
(* FreeMem does nothing: alloc_ptr only grows.  Null is 0.                 *)
(***************************************************************************)
EXTENDS Naturals

CONSTANT kMemoryPoolSize

ASSUME UsbMemoryAssumption == kMemoryPoolSize \in Nat

\* Mutated: a value that is aligned moves up too.
CeilAbove(value, alignment) == ((value + alignment) \div alignment) * alignment

\* The code masks with alignment - 1; alignments are powers of two.
Ceil(value, alignment) == ((value + alignment - 1) \div alignment) * alignment

\* Mutated: the block itself is not counted against the boundary.
PlacedAcross(ptr, size, alignment, boundary) ==
  IF alignment > 0 THEN Ceil(ptr, alignment) ELSE ptr

\* Where a block goes when alloc_ptr is ptr.  0 constrains nothing.
Placed(ptr, size, alignment, boundary) ==
  LET aligned == IF alignment > 0 THEN Ceil(ptr, alignment) ELSE ptr
  IN IF boundary > 0 /\ Ceil(aligned, boundary) < aligned + size
     THEN Ceil(aligned, boundary) ELSE aligned

\* The block that AllocMem returns, and alloc_ptr behind the call.  A failed
\* call has aligned alloc_ptr all the same.
AllocMem(pool, ptr, size, alignment, boundary) ==
  LET p == Placed(ptr, size, alignment, boundary)
  IN IF pool + kMemoryPoolSize < p + size THEN [mem |-> 0, ptr |-> p]
     ELSE [mem |-> p, ptr |-> p + size]
=============================================================================
