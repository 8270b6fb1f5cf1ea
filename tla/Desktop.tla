------------------------------ MODULE Desktop ------------------------------
(***************************************************************************)
(* What main.cpp makes of console, windows and layers.  The console writes *)
(* to the frame buffer until there are windows; the desktop is drawn over  *)
(* what it wrote; a window with a desktop of its own becomes the console's *)
(* writer; and two layers, the background and the mouse pointer, are laid  *)
(* over each other each time text is put or the mouse moves.               *)
(***************************************************************************)
EXTENDS Console

CONSTANTS
  Displacements,  \* what a mouse reports
  MouseStart,     \* {200, 200}
  Positions,      \* arguments of Move
  Margin,         \* bound: how far the pointer leaves the screen
  MaxCalls        \* bound: calls of the layers' interface, each of which
                  \* takes CallCost characters from MaxText

ASSUME DesktopAssumption ==
  /\ MouseStart \in Int \X Int
  /\ Displacements \subseteq Int \X Int /\ Positions \subseteq Int \X Int
  /\ Margin \in Nat /\ MaxCalls \in Nat

VARIABLES phase, calls

CallCost == 2

vars == <<layers, bgwindow, screen, console, phase, calls>>

Init == LayersInit /\ ConsoleInit /\ phase = "direct" /\ calls = 0

\* DrawDesktop(*pixel_writer): the console does not learn of it.
DrawScreen ==
  /\ phase = "direct" /\ phase' = "wiped"
  /\ screen' = WriteScreen(DrawDesktop)
  /\ UNCHANGED <<layers, bgwindow, console, calls>>

\* Mutated: the desktop is drawn after the console's text.
SetUpWindowsLate ==
  /\ phase = "wiped" /\ phase' = "windows"
  /\ writer' = "window"
  /\ bgwindow' = DrawDesktop
  /\ UNCHANGED <<layers, screen, buffer, cursor_row, cursor_column, text, calls>>

\* The background's window and the mouse's, the console's new writer.
SetUpWindows ==
  /\ phase = "wiped" /\ phase' = "windows"
  /\ writer' = "window"
  /\ bgwindow' = Refresh(DrawDesktop)
  /\ UNCHANGED <<layers, screen, buffer, cursor_row, cursor_column, text, calls>>

SetUpLayers ==
  /\ phase = "windows" /\ phase' = "running"
  /\ latest_id' = Mouse
  /\ pos' = [pos EXCEPT ![Background] = <<0, 0>>, ![Mouse] = MouseStart]
  /\ layer_stack' = Raised(Raised(layer_stack, Background, 0), Mouse, 1)
  /\ bgwindow' = bgwindow
  /\ Draw
  /\ UNCHANGED <<console, calls>>

\* Mutated: text put after the windows are there is not drawn.
PrintkNoDraw(s) ==
  /\ phase # "windows"
  /\ PutString(s)
  /\ Len(text') + CallCost * calls <= MaxText
  /\ writer = "window" => screen' = screen
  /\ UNCHANGED <<layers, phase, calls>>

\* printk, Log
Printk(s) ==
  /\ phase # "windows"
  /\ UNCHANGED <<layers, phase, calls>>
  /\ PutString(s)
  /\ Len(text') + CallCost * calls <= MaxText
  /\ phase = "running" => Draw

\* Bound: the mouse rests while it would leave a trail.
Covered == InStack(layer_stack, Background) /\ pos[Background] = <<0, 0>>

\* Mutated: the pointer is drawn without what it leaves.
MouseObserverNoDraw(d) ==
  /\ phase = "running" /\ Covered
  /\ pos' = [pos EXCEPT ![Mouse] = <<@[1] + d[1], @[2] + d[2]>>]
  /\ UNCHANGED <<latest_id, layer_stack, bgwindow, console, phase, calls>>
  /\ pos'[Mouse][1] \in -Margin .. Width - 1 + Margin /\ pos'[Mouse][2] \in -Margin .. Height - 1 + Margin
  /\ screen' = [a \in Address |->
       IF InStack(layer_stack, Mouse) /\ Written(Mouse, a) # {}
         THEN Content(Mouse)[CHOOSE xy \in Written(Mouse, a) : TRUE] ELSE screen[a]]

\* The pointer may leave the screen: nothing stops it.
MouseObserver(d) ==
  /\ phase = "running" /\ Covered
  /\ pos' = [pos EXCEPT ![Mouse] = <<@[1] + d[1], @[2] + d[2]>>]
  /\ pos'[Mouse][1] \in -Margin .. Width - 1 + Margin /\ pos'[Mouse][2] \in -Margin .. Height - 1 + Margin
  /\ UNCHANGED <<latest_id, layer_stack, bgwindow, console, phase, calls>>
  /\ Draw

\* Other users of the layers.
Call ==
  /\ phase = "running"
  /\ calls < MaxCalls /\ calls' = calls + 1
  /\ Len(text) + CallCost * calls' <= MaxText
  /\ UNCHANGED <<console, phase>>

Next ==
  \/ DrawScreen \/ SetUpWindows \/ SetUpLayers
  \/ \E s \in Strings : Printk(s)
  \/ \E d \in Displacements : MouseObserver(d)
  \/ Call /\ NewLayer
  \/ Call /\ \E l \in 1 .. latest_id, height \in -1 .. MaxLayers : UpDown(l, height)
  \/ Call /\ \E l \in 1 .. latest_id : Hide(l)
  \/ Call /\ \E l \in {Background, Mouse}, xy \in Positions : Move(l, xy)

Spec == Init /\ [][Next]_vars

-----------------------------------------------------------------------------
(* The state is well typed: cursor, buffer and layers stay within their    *)
(* bounds, whatever is printed (Console::PutString, LayerManager).         *)
TypeOK ==
  /\ LayersTypeOK /\ ConsoleTypeOK
  /\ phase \in {"direct", "wiped", "windows", "running"}
  /\ calls \in 0 .. MaxCalls

(* What the console writes to shows the last lines of all that was ever    *)
(* put, each character in its cell and nothing under it, and the desktop   *)
(* around them; only between the drawing of the desktop over the frame     *)
(* buffer and the first window is it less (Console::PutString, Newline,    *)
(* SetWriter, DrawDesktop).                                                *)
TextShown ==
  phase # "wiped" =>
    \A xy \in Place :
      /\ Target[xy].ink = IF xy \in Cell THEN Laid(text, xy) ELSE {}
      /\ writer = "window" => Target[xy].colour = DesktopColour(xy)

(* After text was put, after the mouse was moved and when the layers are   *)
(* first drawn, each place of the screen shows the uppermost window there, *)
(* where the pointer was before and beside the screen included             *)
(* (LayerManager::Draw, MouseObserver, Console::PutString).                *)
ScreenShown ==
  [][(phase' = "running" /\ calls' = calls) => Composed']_vars

(* Raising, lowering and hiding a layer moves that layer and no other      *)
(* (LayerManager::UpDown, LayerManager::Hide).                             *)
StackOrder ==
  [][\A l \in 1 .. latest_id :
       /\ \A height \in -1 .. MaxLayers :
            Call /\ UpDown(l, height) => OnlyMoved(l, height)
       /\ Call /\ Hide(l) => OnlyMoved(l, -1)]_vars
=============================================================================
