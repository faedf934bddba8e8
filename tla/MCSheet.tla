------------------------------- MODULE MCSheet -------------------------------
(* A screen of 8 x 2 pixels, so that a window can be on it, over its left or  *)
(* its right edge, and a stroke can end within a word of four pixels.         *)
EXTENDS Sheet

MCWindows == {[bxsize |-> 5, bysize |-> 2]}
MCCorners == {<<-4, 0>>, <<0, 0>>, <<4, 1>>}
MCMouseAt == {<<1, 0>>, <<4, 1>>}
MCStrokes == {Rect(1, 1, 2, 2)}
=============================================================================
