------------------------------- MODULE Layers -------------------------------
(***************************************************************************)
(* kernel/layer, kernel/window and the frame buffer of kernel/graphics:    *)
(* layers with windows, the order in which they lie on each other, and     *)
(* what Draw() leaves in the frame buffer.                                 *)
(*                                                                         *)
(* A pixel stands for a character cell, so that a glyph and a part of the  *)
(* pointer are one pixel each.  The frame buffer is memory: a line of it   *)
(* is longer than the screen is wide, and Write() does not look whether it *)
(* is given a place on the screen.                                         *)
(***************************************************************************)
EXTENDS Integers, Sequences, FiniteSets, SequencesExt

CONSTANTS
  Width, Height,  \* horizontal_resolution, vertical_resolution
  Stride,         \* pixels_per_scan_line
  TaskBar,        \* lines of the task bar at the bottom of the desktop
  Char,           \* characters with a glyph
  Pointer,        \* mouse_cursor_shape: from its places to colours
  MaxLayers       \* bound: calls of NewLayer

ASSUME LayersAssumption ==
  /\ Width \in Nat \ {0} /\ Height \in Nat \ {0} /\ Stride \in Nat /\ Stride >= Width
  /\ TaskBar \in 0 .. Height
  /\ DOMAIN Pointer \subseteq (0 .. Stride - 1) \X Nat
  /\ \A xy \in DOMAIN Pointer : Pointer[xy] \in {"black", "white", "transparent"}
  /\ MaxLayers \in Nat /\ MaxLayers >= 2

PixelAt(x, y) == Stride * y + x

\* The addresses that are shown: what is written to others is not recorded.
Place   == (0 .. Width - 1) \X (0 .. Height - 1)
Address == {PixelAt(xy[1], xy[2]) : xy \in Place}

\* A colour, and the glyphs written over it.
Colour == {"blue", "bar", "black", "white", "transparent", "unknown"}
Pixel  == [colour : Colour, ink : SUBSET Char]
Plain(c) == [colour |-> c, ink |-> {}]

\* The first two layers are those of the kernel, others have no window.
Background == 1
Mouse      == 2

VARIABLES
  latest_id,   \* layers 1 .. latest_id exist
  pos,         \* pos_ of the layers with a window
  layer_stack, \* layer_stack_, from the bottom
  bgwindow,    \* data_ of the background's window
  screen       \* the frame buffer

layers == <<latest_id, pos, layer_stack>>

DesktopColour(xy) == IF xy[2] < Height - TaskBar THEN "blue" ELSE "bar"
DrawDesktop == [xy \in Place |-> Plain(DesktopColour(xy))]

\* Frame buffer and window as PixelWriters: the pixels of f, written.
WriteScreen(f) ==
  [a \in Address |->
     IF \E xy \in DOMAIN f : PixelAt(xy[1], xy[2]) = a
       THEN f[CHOOSE xy \in DOMAIN f : PixelAt(xy[1], xy[2]) = a] ELSE screen[a]]

LayersInit ==
  /\ latest_id = 0
  /\ pos = [l \in {Background, Mouse} |-> <<0, 0>>]
  /\ layer_stack = <<>>
  /\ bgwindow = [xy \in Place |-> Plain("black")]
  /\ screen = [a \in Address |-> Plain("unknown")]

-----------------------------------------------------------------------------
(* Drawing.                                                                *)

Content(l) ==
  IF l = Background THEN bgwindow'
  ELSE IF l = Mouse THEN [xy \in DOMAIN Pointer |-> Plain(Pointer[xy])]
  ELSE <<>>

\* The pixels that layer l writes to address a: one at most, none where its
\* window is transparent.
Written(l, a) ==
  {xy \in DOMAIN Content(l) :
     /\ PixelAt(pos'[l][1] + xy[1], pos'[l][2] + xy[2]) = a
     /\ Content(l)[xy].colour # "transparent"}

\* Mutated: the layers are drawn from the top.
DrawFromTop ==
  screen' = [a \in Address |->
    LET n == Len(layer_stack')
        After[k \in 1 .. n + 1] ==
          IF k = n + 1 THEN screen[a]
          ELSE IF Written(layer_stack'[k], a) = {} THEN After[k + 1]
          ELSE Content(layer_stack'[k])[CHOOSE xy \in Written(layer_stack'[k], a) : TRUE]
    IN After[1]]

\* Draw(), of the layers as the same call has left them: the last layer that
\* writes to an address determines what is there.
Draw ==
  screen' = [a \in Address |->
    LET After[k \in 0 .. Len(layer_stack')] ==
          IF k = 0 THEN screen[a]
          ELSE IF Written(layer_stack'[k], a) = {} THEN After[k - 1]
          ELSE Content(layer_stack'[k])[CHOOSE xy \in Written(layer_stack'[k], a) : TRUE]
    IN After[Len(layer_stack')]]

-----------------------------------------------------------------------------
(* The stack.                                                              *)

InStack(stack, l) == \E k \in DOMAIN stack : stack[k] = l
IndexIn(stack, l) == CHOOSE k \in DOMAIN stack : stack[k] = l

Hidden(stack, l) ==
  IF InStack(stack, l) THEN RemoveAt(stack, IndexIn(stack, l)) ELSE stack

\* Mutated: the layer is inserted before its old place is erased.
RaisedInsertFirst(stack, l, height) ==
  LET n == IF height > Len(stack) THEN Len(stack) ELSE height IN
    IF height < 0 THEN Hidden(stack, l)
    ELSE IF ~InStack(stack, l) THEN InsertAt(stack, n + 1, l)
    ELSE RemoveAt(InsertAt(stack, n + 1, l), IndexIn(stack, l))

\* UpDown.  The place to insert at was taken before the erase; in a vector it
\* is the same index after it.
Raised(stack, l, height) ==
  LET n == IF height > Len(stack) THEN Len(stack) ELSE height IN
    IF height < 0 THEN Hidden(stack, l)
    ELSE IF ~InStack(stack, l) THEN InsertAt(stack, n + 1, l)
    ELSE InsertAt(Hidden(stack, l), (IF n = Len(stack) THEN n - 1 ELSE n) + 1, l)

\* The calls of the interface.  None of them draws.
NewLayer ==
  /\ latest_id < MaxLayers
  /\ latest_id' = latest_id + 1
  /\ UNCHANGED <<pos, layer_stack, bgwindow, screen>>

UpDown(l, height) ==
  /\ l <= latest_id
  /\ layer_stack' = Raised(layer_stack, l, height)
  /\ UNCHANGED <<latest_id, pos, bgwindow, screen>>

Hide(l) ==
  /\ l <= latest_id
  /\ layer_stack' = Hidden(layer_stack, l)
  /\ UNCHANGED <<latest_id, pos, bgwindow, screen>>

Move(l, xy) ==
  /\ l <= latest_id /\ l \in DOMAIN pos
  /\ pos' = [pos EXCEPT ![l] = xy]
  /\ UNCHANGED <<latest_id, layer_stack, bgwindow, screen>>

-----------------------------------------------------------------------------
LayersTypeOK ==
  /\ latest_id \in 0 .. MaxLayers
  /\ pos \in [{Background, Mouse} -> Int \X Int]
  /\ layer_stack \in Seq(1 .. latest_id)
  /\ bgwindow \in [Place -> Pixel]
  /\ screen \in [Address -> Pixel]

(* Whatever height is asked for, the layer ends up at it or on top, once,  *)
(* or nowhere, and the others keep their order (LayerManager::UpDown,      *)
(* LayerManager::Hide).                                                    *)
OnlyMoved(l, height) ==
  /\ Hidden(layer_stack', l) = Hidden(layer_stack, l)
  /\ IsInjective(layer_stack')
  /\ height < 0 => ~InStack(layer_stack', l)
  /\ height >= 0 =>
       \/ InStack(layer_stack', l) /\ IndexIn(layer_stack', l) = height + 1
       \/ height >= Len(layer_stack') /\ Last(layer_stack') = l

\* What should be at a place of the screen: the uppermost window there.
Shows(l, xy) ==
  {k \in (IF l = Background THEN Place ELSE IF l = Mouse THEN DOMAIN Pointer ELSE {}) :
     /\ pos[l][1] + k[1] = xy[1] /\ pos[l][2] + k[2] = xy[2]
     /\ l = Mouse => Pointer[k] # "transparent"}

Uppermost(xy) ==
  LET over == {k \in DOMAIN layer_stack : Shows(layer_stack[k], xy) # {}}
      l    == layer_stack[CHOOSE k \in over : \A j \in over : j <= k]
      at   == CHOOSE k \in Shows(l, xy) : TRUE
  IN IF l = Mouse THEN Plain(Pointer[at]) ELSE bgwindow[at]

\* Every window lies on the screen, and the background is shown.
InFrame ==
  /\ InStack(layer_stack, Background)
  /\ pos[Background] = <<0, 0>>
  /\ InStack(layer_stack, Mouse) =>
       \A k \in DOMAIN Pointer : <<pos[Mouse][1] + k[1], pos[Mouse][2] + k[2]>> \in Place

Composed == InFrame => \A xy \in Place : screen[PixelAt(xy[1], xy[2])] = Uppermost(xy)
=============================================================================
