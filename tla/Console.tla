------------------------------ MODULE Console ------------------------------
(***************************************************************************)
(* kernel/console over kernel/font: a grid of characters that are written  *)
(* into a frame buffer or a window as they come, kept in a buffer for the  *)
(* day the window changes, and moved up when the last line is full.        *)
(*                                                                         *)
(* Writing a glyph sets the pixels of the glyph only: what was written to  *)
(* the cell before stays under it until the cell is cleared.               *)
(***************************************************************************)
EXTENDS Layers

CONSTANTS
  kRows, kColumns,
  NewlineChar,     \* '\n'
  NUL,             \* an unused place of the buffer
  Strings,         \* arguments of PutString
  MaxText          \* bound: characters put

ASSUME ConsoleAssumption ==
  /\ kRows \in Nat \ {0} /\ kColumns \in Nat \ {0} /\ MaxText \in Nat
  /\ kColumns <= Width /\ kRows <= Height - TaskBar
  /\ NewlineChar \notin Char /\ NUL \notin Char \cup {NewlineChar}
  /\ \A s \in Strings : s \in Seq(Char \cup {NewlineChar})

VARIABLES
  writer,                     \* writer_: "screen" or "window"
  buffer,                     \* buffer_
  cursor_row, cursor_column,
  text                        \* ghost: all that was put

console == <<writer, buffer, cursor_row, cursor_column, text>>

Cell == (0 .. kColumns - 1) \X (0 .. kRows - 1)

ConsoleInit ==
  /\ writer = "screen"
  /\ buffer = [row \in 0 .. kRows - 1 |-> [column \in 0 .. kColumns - 1 |-> NUL]]
  /\ cursor_row = 0 /\ cursor_column = 0
  /\ text = <<>>

\* The pixels the console writes to, where it writes to.
Target == IF writer = "window" THEN bgwindow
          ELSE [xy \in Place |-> screen[PixelAt(xy[1], xy[2])]]

WriteAscii(f, xy, c) == [f EXCEPT ![xy].ink = @ \cup {c}]

\* WriteString, of the given rows of buffer b.
WriteRows(f, b, rows) ==
  [xy \in Place |->
     IF xy \in Cell /\ xy[2] \in rows /\ \A i \in 0 .. xy[1] : b[xy[2]][i] # NUL
       THEN WriteAscii(f, xy, b[xy[2]][xy[1]])[xy] ELSE f[xy]]

Refresh(f) == WriteRows(f, buffer, 0 .. kRows - 1)

\* Mutated: the last line is one below the grid.
NewlineBelow(c) == [c EXCEPT !.row = IF @ < kRows THEN @ + 1 ELSE @, !.column = 0]

\* Mutated: the rows are written over what they were.
NewlineOverlaid(c) ==
  IF c.row + 1 < kRows THEN [c EXCEPT !.row = @ + 1, !.column = 0]
  ELSE LET b == [r \in 0 .. kRows - 1 |-> IF r < kRows - 1 THEN c.buffer[r + 1]
                                          ELSE [i \in 0 .. kColumns - 1 |-> NUL]]
       IN [c EXCEPT !.column = 0, !.buffer = b, !.pixels = WriteRows(@, b, 0 .. kRows - 2)]

\* Newline(), of a console c and the pixels it writes to.
Newline(c) ==
  IF c.row + 1 < kRows THEN [c EXCEPT !.row = @ + 1, !.column = 0]
  ELSE LET cleared == [xy \in Place |-> IF xy \in Cell THEN Plain("blue") ELSE c.pixels[xy]]
           b == [r \in 0 .. kRows - 1 |-> IF r < kRows - 1 THEN c.buffer[r + 1]
                                          ELSE [i \in 0 .. kColumns - 1 |-> NUL]]
       IN [c EXCEPT !.column = 0, !.buffer = b, !.pixels = WriteRows(cleared, b, 0 .. kRows - 2)]

\* Mutated: the line is broken after its last column.
PutCharBreaks(c, s) ==
  IF s = NewlineChar THEN Newline(c)
  ELSE LET d == [c EXCEPT !.pixels = WriteAscii(@, <<c.column, c.row>>, s),
                          !.buffer[c.row][c.column] = s, !.column = @ + 1]
       IN IF d.column >= kColumns THEN Newline(d) ELSE d

\* The body of PutString's loop.
PutChar(c, s) ==
  IF s = NewlineChar \/ c.column >= kColumns THEN Newline(c)
  ELSE [c EXCEPT !.pixels = WriteAscii(@, <<c.column, c.row>>, s),
                 !.buffer[c.row][c.column] = s, !.column = @ + 1]

\* All of PutString but the Draw() at its end.  A character that meets a full
\* line is spent on the line break.
PutString(s) ==
  LET After[k \in 0 .. Len(s)] ==
        IF k = 0 THEN [pixels |-> Target, buffer |-> buffer,
                       row |-> cursor_row, column |-> cursor_column]
        ELSE PutChar(After[k - 1], s[k])
      c == After[Len(s)]
  IN /\ Len(text) + Len(s) <= MaxText
     /\ buffer' = c.buffer /\ cursor_row' = c.row /\ cursor_column' = c.column
     /\ text' = text \o s
     /\ IF writer = "window" THEN bgwindow' = c.pixels
        ELSE bgwindow' = bgwindow /\ screen' = WriteScreen(c.pixels)
     /\ UNCHANGED writer

-----------------------------------------------------------------------------
ConsoleTypeOK ==
  /\ writer \in {"screen", "window"}
  /\ buffer \in [0 .. kRows - 1 -> [0 .. kColumns - 1 -> Char \cup {NUL}]]
  /\ cursor_row \in 0 .. kRows - 1 /\ cursor_column \in 0 .. kColumns

\* Where the characters of a text t belong, from the text alone: lines end
\* with a newline, or with the character for which there is no column.
LineStart(t, i) ==
  LET ends == {j \in 1 .. i - 1 : t[j] = NewlineChar} IN
    IF ends = {} THEN 0 ELSE CHOOSE j \in ends : \A k \in ends : k <= j

Column(t, i) == (i - LineStart(t, i) - 1) % (kColumns + 1)
Breaks(t, i) == t[i] = NewlineChar \/ Column(t, i) = kColumns
Row(t, i)    == Cardinality({j \in 1 .. i - 1 : Breaks(t, j)})

\* The lines that have left the grid, and what is in its place xy.
Scrolled(t) == IF Row(t, Len(t) + 1) < kRows THEN 0 ELSE Row(t, Len(t) + 1) - (kRows - 1)

Laid(t, xy) == {t[i] : i \in {j \in DOMAIN t : /\ ~Breaks(t, j) /\ Column(t, j) = xy[1]
                                               /\ Row(t, j) - Scrolled(t) = xy[2]}}
=============================================================================
