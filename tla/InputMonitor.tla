---------------------------- MODULE InputMonitor ----------------------------
(***************************************************************************)
(* The recogniser of word selections: BaseSelectionInputMonitor of         *)
(* service/src/selection_input_monitor.cpp.  The multimodal input service  *)
(* delivers every key and pointer event of the user to it, one at a time;  *)
(* two state variables, curSelectState and subSelectState, recognise a     *)
(* drag, a double click or a triple click of the left mouse button, and,   *)
(* when the user's trigger is "ctrl", a click of the Ctrl key after it.    *)
(*                                                                         *)
(* Abstractions.  A position is one coordinate.  The time of day is kept   *)
(* as the age of lastClickTime, saturated just above DOUBLE_CLICK_TIME:    *)
(* no comparison of the code tells larger ages apart.  An event of a       *)
(* button or a key the code does not name is one representative.  The      *)
(* sequence number of FinishedWordSelection is only ever logged and is     *)
(* left out.                                                               *)
(***************************************************************************)
EXTENDS Integers

CONSTANTS
    DOUBLE_CLICK_TIME,             \* longest gap of a double click
    TRIPLE_CLICK_TIME,             \* longest gap before the third click
    MAX_POSITION_CHANGE_OFFSET,    \* a movement up to this much is "tiny"
    Positions,                     \* where the pointer may be
    Windows,                       \* windows a press may be aimed at
    NoWindow,                      \* an event without a valid target window
    NoBundle                       \* the empty bundle name

ASSUME ClickTimeAssumption ==
    /\ DOUBLE_CLICK_TIME \in Nat
    /\ TRIPLE_CLICK_TIME \in Nat
    /\ TRIPLE_CLICK_TIME < DOUBLE_CLICK_TIME

ASSUME PositionAssumption ==
    /\ Positions \subseteq Int
    /\ 0 \in Positions
    /\ MAX_POSITION_CHANGE_OFFSET \in Nat

ASSUME WindowAssumption ==
    /\ NoWindow \notin Windows
    /\ NoBundle \notin Windows

VARIABLES
    curSelectState,   \* how far the gesture has come
    subSelectState,   \* the event the gesture waits for
    sinceClick,       \* age of lastClickTime
    selectionInfo_,   \* what the listener will be told
    triggered,        \* MemSelectionConfig: TRUE if a Ctrl click is required
    leftButton        \* what the user does with it (not program state)

gestureVars == <<curSelectState, subSelectState>>
monitorVars == <<curSelectState, subSelectState, sinceClick, selectionInfo_>>
vars == <<monitorVars, triggered, leftButton>>

-----------------------------------------------------------------------------
(* The states, and the events of the user. *)

SelectInputState ==
    {"INITIAL", "WORD_BEGIN", "WAIT_LEFT_MOVE", "WAIT_DOUBLE_CLICK",
     "WAIT_TRIPLE_CLICK", "WORD_END", "DONE"}

SelectInputSubState ==
    {"SUB_INITIAL", "WAIT_BUTTON_DOWN", "WAIT_BUTTON_UP", "WAIT_CTRL_DOWN",
     "WAIT_CTRL_UP", "WAIT_BUTTON_OR_CTRL_DOWN"}

CtrlSubStates == {"WAIT_CTRL_DOWN", "WAIT_CTRL_UP", "WAIT_BUTTON_OR_CTRL_DOWN"}

SelectionType == {"MOVE", "DOUBLE_CLICKED", "TRIPLE_CLICKED"}

SelectionInfo ==
    [start : Positions, end : Positions, selectionType : SelectionType,
     window : Windows \cup {NoWindow}, bundle : Windows \cup {NoBundle}]

KeyEvents ==
    [ctrl : BOOLEAN, action : {"down", "up", "cancel"}, repeat : BOOLEAN]

PointerEvents ==
    [button : {"left", "none", "other"},
     action : {"down", "up", "move", "cross_window", "other"},
     x : Positions, window : Windows \cup {NoWindow}]

\* Events one mouse can produce: the left button goes down only when it is up
\* and up only when it is down, and a movement carries the left button only
\* while it is held.  "other" is, with the left button, the pull of a
\* drag-and-drop that a movement began (its end also releases the button), and
\* without it the scroll wheel or a touch screen.
Possible(p) ==
    /\ p.button = "left" => CASE p.action = "down"  -> leftButton = "up"
                              [] p.action = "other" -> leftButton = "dragging"
                              [] OTHER              -> leftButton # "up"
    /\ p.button = "none" => p.action \in {"move", "other", "cross_window"}
    /\ p.button = "other" => p.action # "cross_window"
    /\ p.action # "down" => p.window = NoWindow

Distance(x, y) == IF x < y THEN y - x ELSE x - y

-----------------------------------------------------------------------------
(* The steps the handlers are made of. *)

Goto(cur, sub) == curSelectState' = cur /\ subSelectState' = sub

\* Mutation for StatesBelongTogether: the sub-state is not reset.
ResetStateOnly == curSelectState' = "INITIAL" /\ UNCHANGED subSelectState

ResetState == Goto("INITIAL", "SUB_INITIAL")

IsTinyMovement(p) ==
    Distance(selectionInfo_.start, p.x) <= MAX_POSITION_CHANGE_OFFSET

\* The bundle name is looked up in the window manager, which may not know the
\* window: then, and for a press without a valid window, the name of the
\* previous selection stays.
SaveSelectionStartInfo(p) ==
    LET moved == [selectionInfo_ EXCEPT !.start = p.x, !.end = p.x] IN
    IF p.window = NoWindow
    THEN selectionInfo_' = moved
    ELSE \E bundle \in {p.window, selectionInfo_.bundle} :
            selectionInfo_' = [moved EXCEPT !.window = p.window, !.bundle = bundle]

TypeOfGesture ==
    CASE curSelectState = "WAIT_LEFT_MOVE"    -> "MOVE"
      [] curSelectState = "WAIT_DOUBLE_CLICK" -> "DOUBLE_CLICKED"
      [] curSelectState = "WAIT_TRIPLE_CLICK" -> "TRIPLE_CLICKED"
      [] OTHER -> selectionInfo_.selectionType

SaveSelectionEndInfo(p) ==
    selectionInfo_' = [selectionInfo_ EXCEPT !.end = p.x,
                                             !.selectionType = TypeOfGesture]

FirstPress(p) ==
    /\ Goto("WORD_BEGIN", "SUB_INITIAL")
    /\ sinceClick' = 0
    /\ SaveSelectionStartInfo(p)

InputInitialProcess(p) ==
    IF p.action = "down" THEN FirstPress(p) ELSE UNCHANGED monitorVars

\* Mutation for HeldButtonIsFollowed: the press that breaks a gesture is lost.
ResetProcessOnly(p) == ResetState /\ UNCHANGED <<sinceClick, selectionInfo_>>

\* Both states are reset and the event is handled again as a first one.  It
\* sets the click time itself, so a click time set before is overwritten.
ResetProcess(p) ==
    IF p.action = "down"
    THEN FirstPress(p)
    ELSE ResetState /\ UNCHANGED <<sinceClick, selectionInfo_>>

InputWordBeginProcess(p) ==
    /\ CASE p.action = "move" -> Goto("WAIT_LEFT_MOVE", "WAIT_BUTTON_UP")
         [] p.action = "up"   -> Goto("WAIT_DOUBLE_CLICK", "WAIT_BUTTON_DOWN")
         [] OTHER             -> UNCHANGED gestureVars
    /\ UNCHANGED <<sinceClick, selectionInfo_>>

\* The gesture is complete: in Ctrl mode it waits for the Ctrl key, otherwise
\* it is done.  After a double click a third click may still come.
ProcessWordSelection(p) ==
    LET double == curSelectState = "WAIT_DOUBLE_CLICK" IN
    /\ SaveSelectionEndInfo(p)
    /\ IF triggered
       THEN Goto("WORD_END", IF double THEN "WAIT_BUTTON_OR_CTRL_DOWN"
                                       ELSE "WAIT_CTRL_DOWN")
       ELSE Goto("DONE", IF double THEN "WAIT_BUTTON_DOWN" ELSE "SUB_INITIAL")
    /\ UNCHANGED sinceClick

InputWordLeftMoveProcess(p) ==
    \/ p.action = "up" /\ ProcessWordSelection(p)
    \/ p.action = "move" /\ UNCHANGED monitorVars
    \/ p.action \notin {"up", "move"} /\ ResetProcess(p)

\* Mutation for PressAwaitedWithButtonUp: the wrong sub-state after a press.
PressInTimeAwaitingPress(p, time, cur) ==
    IF sinceClick > time
    THEN ResetProcess(p)
    ELSE Goto(cur, "WAIT_BUTTON_DOWN") /\ sinceClick' = 0 /\ UNCHANGED selectionInfo_

\* A press that must come within `time` of the press before it.
PressInTime(p, time, cur) ==
    IF sinceClick > time
    THEN ResetProcess(p)
    ELSE /\ Goto(cur, "WAIT_BUTTON_UP")
         /\ sinceClick' = 0
         /\ UNCHANGED selectionInfo_

\* Mutation for ReportedGestureIsReal: the third click may come as late as the second.
JudgeTripleClickLate(p) == PressInTime(p, DOUBLE_CLICK_TIME, "WAIT_TRIPLE_CLICK")

JudgeTripleClick(p) == PressInTime(p, TRIPLE_CLICK_TIME, "WAIT_TRIPLE_CLICK")

InputWordDoubleClickProcess(p) ==
    CASE subSelectState = "WAIT_BUTTON_DOWN" /\ p.action = "down" ->
            PressInTime(p, DOUBLE_CLICK_TIME, "WAIT_DOUBLE_CLICK")
      [] subSelectState = "WAIT_BUTTON_UP" /\ p.action = "up" ->
            ProcessWordSelection(p)
      [] subSelectState = "WAIT_BUTTON_UP" /\ p.action = "move" ->
            /\ Goto("WAIT_LEFT_MOVE", subSelectState)
            /\ UNCHANGED <<sinceClick, selectionInfo_>>
      [] subSelectState = "WAIT_BUTTON_OR_CTRL_DOWN" /\ p.action = "down" ->
            JudgeTripleClick(p)
      [] OTHER -> UNCHANGED monitorVars

\* Mutation for ImplementsGesture: any selection may grow into a triple click.
InputWordEndProcessAlwaysTriple(p) ==
    \/ /\ p.action # "down"
       /\ ResetState
       /\ UNCHANGED <<sinceClick, selectionInfo_>>
    \/ p.action = "down" /\ JudgeTripleClick(p)

\* Also InputDoneProcess, which only calls it.
InputWordEndProcess(p) ==
    \/ /\ p.action # "down"
       /\ ResetState
       /\ UNCHANGED <<sinceClick, selectionInfo_>>
    \/ /\ p.action = "down"
       /\ IF subSelectState \in {"WAIT_BUTTON_DOWN", "WAIT_BUTTON_OR_CTRL_DOWN"}
          THEN JudgeTripleClick(p)
          ELSE ResetProcess(p)

InputWordTripleClickProcess(p) ==
    \/ p.action = "down" /\ PressInTime(p, TRIPLE_CLICK_TIME, curSelectState)
    \/ p.action = "up" /\ ProcessWordSelection(p)
    \/ /\ p.action = "move"
       /\ Goto("WAIT_LEFT_MOVE", subSelectState)
       /\ UNCHANGED <<sinceClick, selectionInfo_>>
    \/ p.action \notin {"down", "up", "move"} /\ ResetProcess(p)

-----------------------------------------------------------------------------
(* The two handlers. *)

\* A movement without a button that the gesture survives.
ToleratedMovement(p) ==
    \/ subSelectState = "WAIT_BUTTON_DOWN" /\ IsTinyMovement(p)
    \/ subSelectState \in CtrlSubStates

ProcessMovement(p) ==
    /\ curSelectState' = IF subSelectState = "WAIT_BUTTON_DOWN" /\ curSelectState = "DONE"
                         THEN "WAIT_TRIPLE_CLICK" ELSE curSelectState
    /\ subSelectState' = IF subSelectState = "WAIT_BUTTON_OR_CTRL_DOWN"
                         THEN "WAIT_CTRL_DOWN" ELSE subSelectState
    /\ UNCHANGED <<sinceClick, selectionInfo_>>

LeftButtonProcess(p) ==
    \/ curSelectState = "INITIAL" /\ InputInitialProcess(p)
    \/ curSelectState = "WORD_BEGIN" /\ InputWordBeginProcess(p)
    \/ curSelectState = "WAIT_LEFT_MOVE" /\ InputWordLeftMoveProcess(p)
    \/ curSelectState = "WAIT_DOUBLE_CLICK" /\ InputWordDoubleClickProcess(p)
    \/ curSelectState \in {"WORD_END", "DONE"} /\ InputWordEndProcess(p)
    \/ curSelectState = "WAIT_TRIPLE_CLICK" /\ InputWordTripleClickProcess(p)

ProcessPointerEvent(p) ==
    \/ p.action = "cross_window" /\ UNCHANGED monitorVars
    \/ /\ p.button = "none" /\ p.action = "move" /\ ToleratedMovement(p)
       /\ ProcessMovement(p)
    \/ /\ p.action # "cross_window" /\ p.button # "left"
       /\ ~(p.button = "none" /\ p.action = "move" /\ ToleratedMovement(p))
       /\ ResetState
       /\ UNCHANGED <<sinceClick, selectionInfo_>>
    \/ /\ p.action # "cross_window" /\ p.button = "left"
       /\ LeftButtonProcess(p)

\* A Ctrl key while the gesture waits for one.
CtrlKeyProcess(k) ==
    \/ k.action = "down" /\ k.repeat /\ UNCHANGED gestureVars
    \/ /\ k.action = "down" /\ ~k.repeat /\ subSelectState # "WAIT_CTRL_UP"
       /\ Goto(curSelectState, "WAIT_CTRL_UP")
    \/ /\ k.action = "up" /\ subSelectState = "WAIT_CTRL_UP"
       /\ Goto(IF curSelectState = "WORD_END" THEN "DONE" ELSE curSelectState,
               "SUB_INITIAL")
    \/ /\ k.action = "up" /\ k.repeat /\ subSelectState # "WAIT_CTRL_UP"
       /\ UNCHANGED gestureVars
    \/ /\ \/ k.action = "down" /\ ~k.repeat /\ subSelectState = "WAIT_CTRL_UP"
          \/ k.action = "up" /\ ~k.repeat /\ subSelectState # "WAIT_CTRL_UP"
          \/ k.action = "cancel"
       /\ ResetState

\* Mutation for CtrlClickDecides: another key does not disturb the Ctrl click.
ProcessKeyEventIgnoringOthers(k) ==
    /\ \/ /\ curSelectState = "DONE" /\ subSelectState # "SUB_INITIAL"
          /\ Goto("WORD_END", subSelectState)
       \/ curSelectState = "DONE" /\ subSelectState = "SUB_INITIAL" /\ ResetState
       \/ /\ curSelectState # "DONE"
          /\ IF k.ctrl /\ subSelectState \in CtrlSubStates
             THEN CtrlKeyProcess(k) ELSE UNCHANGED gestureVars
    /\ UNCHANGED <<sinceClick, selectionInfo_>>

\* Mutation for OneReportPerGesture: a key leaves a done gesture done.
ProcessKeyEventKeepingDone(k) ==
    /\ IF curSelectState # "DONE" /\ subSelectState \in CtrlSubStates /\ k.ctrl
       THEN CtrlKeyProcess(k) ELSE UNCHANGED gestureVars
    /\ UNCHANGED <<sinceClick, selectionInfo_>>

ProcessKeyEvent(k) ==
    /\ \/ /\ curSelectState = "DONE" /\ subSelectState # "SUB_INITIAL"
          /\ Goto("WORD_END", subSelectState)
       \/ curSelectState = "DONE" /\ subSelectState = "SUB_INITIAL" /\ ResetState
       \/ /\ curSelectState # "DONE" /\ subSelectState \notin CtrlSubStates
          /\ UNCHANGED gestureVars
       \/ /\ curSelectState # "DONE" /\ subSelectState \in CtrlSubStates
          /\ IF k.ctrl THEN CtrlKeyProcess(k) ELSE ResetState
    /\ UNCHANGED <<sinceClick, selectionInfo_>>

-----------------------------------------------------------------------------
(* The user, the clock and the setting. *)

OnKeyEvent(k) == ProcessKeyEvent(k) /\ UNCHANGED <<triggered, leftButton>>

OnPointerEvent(p) ==
    /\ Possible(p)
    /\ ProcessPointerEvent(p)
    /\ leftButton' \in
          IF p.button # "left" THEN {leftButton}
          ELSE CASE p.action = "down"         -> {"held"}
                 [] p.action = "up"           -> {"up"}
                 [] p.action = "move"         -> {"dragging"}
                 [] p.action = "other"        -> {"dragging", "up"}
                 [] p.action = "cross_window" -> {leftButton}
    /\ UNCHANGED triggered

\* One unit of time; ages above DOUBLE_CLICK_TIME are all alike.
Older(age) == IF age <= DOUBLE_CLICK_TIME THEN age + 1 ELSE age

Tick ==
    /\ sinceClick' = Older(sinceClick)
    /\ UNCHANGED <<gestureVars, selectionInfo_, triggered, leftButton>>

\* The trigger mode is a setting the user may change at any time.
SetTriggered(b) ==
    /\ triggered' = b
    /\ UNCHANGED <<monitorVars, leftButton>>

Init ==
    /\ curSelectState = "INITIAL"
    /\ subSelectState = "SUB_INITIAL"
    /\ sinceClick = DOUBLE_CLICK_TIME + 1     \* lastClickTime = 0
    /\ selectionInfo_ = [start |-> 0, end |-> 0, selectionType |-> "MOVE",
                         window |-> NoWindow, bundle |-> NoBundle]
    /\ triggered \in BOOLEAN
    /\ leftButton = "up"

Next ==
    \/ \E k \in KeyEvents : OnKeyEvent(k)
    \/ \E p \in PointerEvents : OnPointerEvent(p)
    \/ Tick
    \/ \E b \in BOOLEAN : SetTriggered(b)

Spec == Init /\ [][Next]_vars
-----------------------------------------------------------------------------
(* Properties. *)

TypeOK ==
    /\ curSelectState \in SelectInputState
    /\ subSelectState \in SelectInputSubState
    /\ sinceClick \in 0..(DOUBLE_CLICK_TIME + 1)
    /\ selectionInfo_ \in SelectionInfo
    /\ triggered \in BOOLEAN
    /\ leftButton \in {"up", "held", "dragging"}

\* The sub-state always belongs to the state: no sequence of events leaves the
\* recogniser waiting for an event its state has no answer to, so the Ctrl key
\* always finds a finished gesture and the branch of the double click for
\* SUB_WAIT_BUTTON_OR_CTRL_DOWN is never taken.  The third click a
\* double click leaves room for is the only reason to wait for the button in
\* WORD_END or DONE.
StatesBelongTogether ==
    /\ curSelectState \in {"INITIAL", "WORD_BEGIN"} => subSelectState = "SUB_INITIAL"
    /\ curSelectState = "WAIT_LEFT_MOVE" => subSelectState = "WAIT_BUTTON_UP"
    /\ curSelectState \in {"WAIT_DOUBLE_CLICK", "WAIT_TRIPLE_CLICK"} =>
          subSelectState \in {"WAIT_BUTTON_DOWN", "WAIT_BUTTON_UP"}
    /\ curSelectState = "WORD_END" =>
          \/ subSelectState \in {"WAIT_CTRL_DOWN", "WAIT_CTRL_UP"}
          \/ /\ subSelectState \in {"WAIT_BUTTON_DOWN", "WAIT_BUTTON_OR_CTRL_DOWN"}
             /\ selectionInfo_.selectionType = "DOUBLE_CLICKED"
    /\ curSelectState = "DONE" =>
          \/ subSelectState = "SUB_INITIAL"
          \/ /\ subSelectState = "WAIT_BUTTON_DOWN"
             /\ selectionInfo_.selectionType = "DOUBLE_CLICKED"

\* While the recogniser waits for a press the button is up, so every event of
\* the button that follows is that press: no release or movement of an earlier
\* press can be taken for part of the next click.
PressAwaitedWithButtonUp == subSelectState = "WAIT_BUTTON_DOWN" => leftButton = "up"

\* The refinement mapping to Gesture.
PhaseOf ==
    CASE curSelectState = "INITIAL" -> "idle"
      [] curSelectState = "WORD_BEGIN" -> "pressed"
      [] curSelectState = "WAIT_LEFT_MOVE" -> "dragging"
      [] curSelectState \in {"WAIT_DOUBLE_CLICK", "WAIT_TRIPLE_CLICK"} ->
            IF subSelectState = "WAIT_BUTTON_UP" THEN "pressed" ELSE "released"
      [] curSelectState = "WORD_END" ->
            IF subSelectState = "WAIT_BUTTON_DOWN" THEN "released" ELSE "pending"
      [] OTHER -> "reported"

ClicksOf ==
    CASE PhaseOf \in {"idle", "dragging"} -> 0
      [] PhaseOf = "pressed" ->
            CASE curSelectState = "WORD_BEGIN" -> 1
              [] curSelectState = "WAIT_DOUBLE_CLICK" -> 2
              [] OTHER -> 3
      [] PhaseOf = "released" -> IF curSelectState = "WAIT_DOUBLE_CLICK" THEN 1 ELSE 2
      [] OTHER -> CASE selectionInfo_.selectionType = "MOVE" -> 0
                    [] selectionInfo_.selectionType = "DOUBLE_CLICKED" -> 2
                    [] OTHER -> 3

G == INSTANCE Gesture WITH phase <- PhaseOf, clicks <- ClicksOf

\* Every event moves the gesture as Gesture allows: a selection is reported only
\* after a drag or after at least two clicks counted one by one, a single click
\* never selects, and no event takes a gesture back or skips a click.
ImplementsGesture == G!GSpec
=============================================================================
