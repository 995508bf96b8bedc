------------------------------ MODULE Gesture -------------------------------
(***************************************************************************)
(* What recognising a selection means, without keys, buttons, times or     *)
(* positions: presses of one button are counted up to three, a press may   *)
(* turn into a drag, and a drag or at least two clicks make a selection.   *)
(* A selection may have to be confirmed before it is reported, and a       *)
(* double click that is not yet forgotten may still grow into a triple     *)
(* click.  InputMonitor is shown to implement it.                          *)
(***************************************************************************)
EXTENDS Naturals

VARIABLES
    phase,    \* "idle", "pressed", "dragging", "released", "pending", "reported"
    clicks    \* clicks counted; 0 for a drag or when idle

gvars == <<phase, clicks>>

GInit == phase = "idle" /\ clicks = 0

\* A press that begins a new gesture, whatever came before.
Begin == phase' = "pressed" /\ clicks' = 1

\* A press that adds a click to the one or two clicks before it.
Continue ==
    /\ phase \in {"released", "pending", "reported"}
    /\ clicks \in {1, 2}
    /\ phase' = "pressed" /\ clicks' = clicks + 1

Drag ==
    /\ phase = "pressed"
    /\ phase' = "dragging" /\ clicks' = 0

\* The first click alone selects nothing.
ReleaseFirst ==
    /\ phase = "pressed" /\ clicks = 1
    /\ phase' = "released" /\ UNCHANGED clicks

\* The release that completes a drag, a double click or a triple click.
Select ==
    /\ phase = "dragging" \/ (phase = "pressed" /\ clicks > 1)
    /\ phase' \in {"pending", "reported"} /\ UNCHANGED clicks

Confirm ==
    /\ phase = "pending"
    /\ phase' = "reported" /\ UNCHANGED clicks

\* A double click that was reported stays open for its third click.
Lapse ==
    /\ phase = "reported" /\ clicks = 2
    /\ phase' = "released" /\ UNCHANGED clicks

Abandon == phase' = "idle" /\ clicks' = 0

GNext ==
    \/ Begin \/ Continue \/ Drag \/ ReleaseFirst \/ Select \/ Confirm \/ Lapse
    \/ Abandon

GSpec == GInit /\ [][GNext]_gvars
=============================================================================
