----------------------------- MODULE MCDesktop -----------------------------
(***************************************************************************)
(* A console of 2 x 2 characters on a screen of 3 x 3, lines of 4 pixels   *)
(* in the frame buffer, a pointer of 2 x 2 with a transparent place, and a *)
(* third layer without a window.                                           *)
(***************************************************************************)
EXTENDS Desktop

CONSTANTS ch1, ch2, nl

MCPointer == (<<0, 0>> :> "black") @@ (<<1, 0>> :> "transparent")
             @@ (<<0, 1>> :> "white") @@ (<<1, 1>> :> "black")

MCStrings == {<<ch1>>, <<ch2, nl>>, <<ch2, ch2, ch2>>}

MCDisplacements == {<<1, 0>>, <<-1, 1>>, <<0, -1>>}

MCMouseStart == <<1, 1>>

MCPositions == {<<0, 0>>, <<0, 1>>}
=============================================================================
