-------------------------- MODULE MCGestureHistory --------------------------
(* A small user for GestureHistory: two units of time for a double click,   *)
(* one for a triple click, and positions within and beyond a tiny movement. *)
EXTENDS GestureHistory

MCPositions == {0, 1, 2}
=============================================================================
