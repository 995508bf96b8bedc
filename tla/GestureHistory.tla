--------------------------- MODULE GestureHistory ---------------------------
(***************************************************************************)
(* What the user really did, recorded beside the recogniser of             *)
(* InputMonitor without looking at its states.  The properties compare     *)
(* what the recogniser reports with this record.                           *)
(***************************************************************************)
EXTENDS InputMonitor

VARIABLES
    sincePress,   \* age of the last press of the left button
    gaps,         \* the last two gaps between presses, the newer one first
    dragged,      \* the pointer moved with the button held since that press
    disturbed,    \* another button, a touch or a pull since that press
    ctrlClick,    \* Ctrl since the last release: "none", "down" or "clicked"
    ctrlMode      \* the trigger mode at the last release

historyVars == <<sincePress, gaps, dragged, disturbed, ctrlClick, ctrlMode>>
recordVars == <<vars, historyVars>>

\* The length of a gap, as far as the recogniser tells gaps apart.
GapOf(age) == CASE age <= TRIPLE_CLICK_TIME -> "triple"
                [] age > TRIPLE_CLICK_TIME /\ age <= DOUBLE_CLICK_TIME -> "double"
                [] OTHER -> "slow"
Gaps == {"triple", "double", "slow"}

RecordPointer(p) ==
    /\ sincePress' = IF p.button = "left" /\ p.action = "down" THEN 0 ELSE sincePress
    /\ gaps' = IF p.button = "left" /\ p.action = "down"
               THEN <<GapOf(sincePress), gaps[1]>> ELSE gaps
    /\ dragged' = IF p.button # "left" THEN dragged
                  ELSE CASE p.action = "down" -> FALSE
                         [] p.action = "move" -> TRUE
                         [] OTHER -> dragged
    /\ disturbed' = IF p.button = "left" THEN p.action # "down" /\ (disturbed \/ p.action = "other")
                    ELSE disturbed \/ p.action # "cross_window"
    /\ IF p.button = "left" /\ p.action = "up"
       THEN ctrlClick' = "none" /\ ctrlMode' = triggered
       ELSE UNCHANGED <<ctrlClick, ctrlMode>>

RecordKey(k) ==
    /\ ctrlClick' = CASE ~k.ctrl -> "none"
                      [] k.ctrl /\ k.action = "down" /\ ~k.repeat -> "down"
                      [] k.ctrl /\ k.action = "up" /\ ctrlClick = "down" -> "clicked"
                      [] k.ctrl /\ k.action = "cancel" -> "none"
                      [] OTHER -> ctrlClick
    /\ UNCHANGED <<sincePress, gaps, dragged, disturbed, ctrlMode>>

RecordTick ==
    /\ sincePress' = Older(sincePress)
    /\ UNCHANGED <<gaps, dragged, disturbed, ctrlClick, ctrlMode>>

HistoryInit ==
    /\ Init
    /\ sincePress = DOUBLE_CLICK_TIME + 1
    /\ gaps = <<"slow", "slow">>
    /\ dragged = FALSE
    /\ disturbed = FALSE
    /\ ctrlClick = "none"
    /\ ctrlMode = triggered

HistoryNext ==
    \/ \E k \in KeyEvents : OnKeyEvent(k) /\ RecordKey(k)
    \/ \E p \in PointerEvents : OnPointerEvent(p) /\ RecordPointer(p)
    \/ Tick /\ RecordTick
    \/ \E b \in BOOLEAN : SetTriggered(b) /\ UNCHANGED historyVars

HistorySpec == HistoryInit /\ [][HistoryNext]_recordVars
-----------------------------------------------------------------------------
(* What the recogniser promises about the user. *)

\* A selection that is reported was really made: a drag moved the pointer with
\* the button held, a double click had its second press in time, a triple click
\* both of its later presses, and no click moved (IsClickTimeout,
\* JudgeTripleClick, SaveSelectionType).
ReportedGestureIsReal ==
    curSelectState = "DONE" =>
        CASE selectionInfo_.selectionType = "MOVE" -> dragged
          [] selectionInfo_.selectionType = "DOUBLE_CLICKED" ->
                ~dragged /\ gaps[1] # "slow"
          [] selectionInfo_.selectionType = "TRIPLE_CLICKED" ->
                ~dragged /\ gaps[1] = "triple" /\ gaps[2] # "slow"

\* In Ctrl mode a selection is reported exactly when the user clicked Ctrl, and
\* no other key, since the gesture ended: never without that click, and never
\* still waiting after it (the key ProcessInputEvent; the mode that counts is
\* the one ProcessWordSelection read).
CtrlClickDecides ==
    /\ curSelectState = "DONE" /\ ctrlMode => ctrlClick = "clicked"
    /\ subSelectState \in CtrlSubStates => ctrlMode /\ ctrlClick # "clicked"

\* Whatever state an earlier gesture left the recogniser in, a press that
\* nothing disturbs is followed from its first event: while the button is held
\* still it is a click, once it moves it is a drag, so that its release is
\* never missed (ResetProcess handles the event that broke a gesture again).
HeldButtonIsFollowed ==
    leftButton # "up" /\ ~disturbed =>
        IF dragged
        THEN curSelectState = "WAIT_LEFT_MOVE"
        ELSE \/ curSelectState = "WORD_BEGIN"
             \/ /\ curSelectState \in {"WAIT_DOUBLE_CLICK", "WAIT_TRIPLE_CLICK"}
                /\ subSelectState = "WAIT_BUTTON_UP"
=============================================================================
