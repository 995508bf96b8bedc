----------------------------- MODULE MonitorProofs -----------------------------
(***************************************************************************)
(* Theorems about the recogniser of InputMonitor, for any times, positions *)
(* and windows.  The inductive invariant is the type invariant together    *)
(* with StatesBelongTogether, since a handler chooses what to do by the    *)
(* state and what it does is right only if the sub-state belongs to it,    *)
(* and with PressAwaitedWithButtonUp, without which a movement could find  *)
(* WAIT_TRIPLE_CLICK waiting for a press and leave the sub-state behind.   *)
(* From it follows that the recogniser implements Gesture.                 *)
(*                                                                         *)
(* That what it reports is what the user did is proved in the second part: *)
(* the record of GestureHistory is compared with the states, each of which *)
(* says how the button is held, whether the pointer moved, how long the    *)
(* last gaps were and how far the Ctrl key is.                             *)
(*                                                                         *)
(* The third part is about SelectionMonitor, for any limits and readers:   *)
(* what a report is based on, how often a gesture is reported and what a   *)
(* reader is let in for.                                                   *)
(*                                                                         *)
(* The last part is about what the service reads and stores through the    *)
(* plugin library of PluginModules, for every number of callers, users and *)
(* configurations.  NoHalfSavedRow is not inductive: that a commit makes   *)
(* the committed rows those that were acknowledged needs what the open     *)
(* transaction holds at every step of Save and of GetOneByUserId           *)
(* (TransactionIsOurs), that no other caller is in one (OneTransaction),   *)
(* and that a transaction nobody is in is one that could not be rolled     *)
(* back (OpenWhileInside).                                                 *)
(***************************************************************************)
EXTENDS SelectionMonitor, GestureHistory, PluginModules, TLAPS

Inv == TypeOK /\ StatesBelongTogether /\ PressAwaitedWithButtonUp

\* What a handler must establish: the conjuncts of Inv that mention only the
\* variables of the monitor.
MonitorOK ==
    /\ curSelectState \in SelectInputState
    /\ subSelectState \in SelectInputSubState
    /\ sinceClick \in 0..(DOUBLE_CLICK_TIME + 1)
    /\ selectionInfo_ \in SelectionInfo
    /\ StatesBelongTogether

-----------------------------------------------------------------------------
(* The steps the handlers are made of. *)

\* A movement of the start position keeps the selection info well formed.
LEMMA StartInfoType ==
    ASSUME selectionInfo_ \in SelectionInfo,
           NEW p \in PointerEvents, SaveSelectionStartInfo(p)
    PROVE  /\ selectionInfo_' \in SelectionInfo
           /\ selectionInfo_'.selectionType = selectionInfo_.selectionType
<1>1. p.x \in Positions /\ p.window \in Windows \cup {NoWindow}
    BY DEF PointerEvents
<1>2. CASE p.window = NoWindow
    BY <1>1, <1>2 DEF SaveSelectionStartInfo, SelectionInfo
<1>3. CASE p.window # NoWindow
    <2>1. p.window \in Windows
        BY <1>1, <1>3
    <2>2. PICK bundle \in {p.window, selectionInfo_.bundle} :
             selectionInfo_' = [selectionInfo_ EXCEPT !.start = p.x, !.end = p.x,
                                   !.window = p.window, !.bundle = bundle]
        BY <1>3 DEF SaveSelectionStartInfo, SelectionInfo
    <2>3. bundle \in Windows \cup {NoBundle}
        BY <2>1, <2>2 DEF SelectionInfo
    <2>4. QED
        BY <1>1, <2>1, <2>2, <2>3 DEF SelectionInfo
<1>4. QED
    BY <1>2, <1>3

LEMMA EndInfoType ==
    ASSUME selectionInfo_ \in SelectionInfo,
           NEW p \in PointerEvents, SaveSelectionEndInfo(p)
    PROVE  /\ selectionInfo_' \in SelectionInfo
           /\ selectionInfo_'.selectionType = TypeOfGesture
<1>1. p.x \in Positions
    BY DEF PointerEvents
<1>2. TypeOfGesture \in SelectionType
    BY DEF TypeOfGesture, SelectionType, SelectionInfo
<1>3. QED
    BY <1>1, <1>2 DEF SaveSelectionEndInfo, SelectionInfo

LEMMA FirstPressOK ==
    ASSUME MonitorOK, NEW p \in PointerEvents, FirstPress(p)
    PROVE  MonitorOK'
<1>1. selectionInfo_' \in SelectionInfo
    BY StartInfoType DEF FirstPress, MonitorOK
<1>2. sinceClick' \in 0..(DOUBLE_CLICK_TIME + 1)
    BY ClickTimeAssumption DEF FirstPress
<1>3. QED
    BY <1>1, <1>2
    DEF FirstPress, Goto, MonitorOK, StatesBelongTogether, SelectInputState, SelectInputSubState

LEMMA ResetStateOK ==
    ASSUME MonitorOK, ResetState, UNCHANGED <<sinceClick, selectionInfo_>>
    PROVE  MonitorOK'
BY DEF ResetState, Goto, MonitorOK, StatesBelongTogether, SelectInputState, SelectInputSubState

LEMMA ResetProcessOK ==
    ASSUME MonitorOK, NEW p \in PointerEvents, ResetProcess(p)
    PROVE  MonitorOK'
BY FirstPressOK, ResetStateOK DEF ResetProcess

LEMMA PressInTimeOK ==
    ASSUME MonitorOK, NEW p \in PointerEvents, NEW time,
           NEW cur \in {"WAIT_DOUBLE_CLICK", "WAIT_TRIPLE_CLICK"},
           PressInTime(p, time, cur)
    PROVE  MonitorOK'
<1>1. CASE sinceClick > time
    BY <1>1, ResetProcessOK DEF PressInTime
<1>2. CASE ~(sinceClick > time)
    <2>1. sinceClick' \in 0..(DOUBLE_CLICK_TIME + 1)
        BY <1>2, ClickTimeAssumption DEF PressInTime
    <2>2. QED
        BY <1>2, <2>1
        DEF PressInTime, Goto, MonitorOK, StatesBelongTogether, SelectInputState,
            SelectInputSubState
<1>3. QED
    BY <1>1, <1>2

\* The only handler that leaves WORD_END or DONE open for a third click does so
\* after a double click.
LEMMA ProcessWordSelectionOK ==
    ASSUME MonitorOK, NEW p \in PointerEvents, ProcessWordSelection(p)
    PROVE  MonitorOK'
<1>1. /\ selectionInfo_' \in SelectionInfo
      /\ selectionInfo_'.selectionType = TypeOfGesture
    BY EndInfoType DEF ProcessWordSelection, MonitorOK
<1>2. curSelectState = "WAIT_DOUBLE_CLICK" =>
         selectionInfo_'.selectionType = "DOUBLE_CLICKED"
    BY <1>1 DEF TypeOfGesture
<1>3. CASE triggered
    BY <1>1, <1>2, <1>3
    DEF ProcessWordSelection, Goto, MonitorOK, StatesBelongTogether, SelectInputState,
        SelectInputSubState
<1>4. CASE ~triggered
    BY <1>1, <1>2, <1>4
    DEF ProcessWordSelection, Goto, MonitorOK, StatesBelongTogether, SelectInputState,
        SelectInputSubState
<1>5. QED
    BY <1>3, <1>4

-----------------------------------------------------------------------------
(* The handlers of the states. *)

LEMMA WordBeginOK ==
    ASSUME MonitorOK, curSelectState = "WORD_BEGIN",
           NEW p \in PointerEvents, InputWordBeginProcess(p)
    PROVE  MonitorOK'
BY DEF InputWordBeginProcess, gestureVars, Goto, MonitorOK, StatesBelongTogether,
       SelectInputState, SelectInputSubState

LEMMA LeftMoveOK ==
    ASSUME MonitorOK, NEW p \in PointerEvents, InputWordLeftMoveProcess(p)
    PROVE  MonitorOK'
<1>1. CASE p.action = "up" /\ ProcessWordSelection(p)
    BY <1>1, ProcessWordSelectionOK
<1>2. CASE p.action = "move" /\ UNCHANGED monitorVars
    BY <1>2 DEF monitorVars, MonitorOK, StatesBelongTogether
<1>3. CASE p.action \notin {"up", "move"} /\ ResetProcess(p)
    BY <1>3, ResetProcessOK
<1>4. QED
    BY <1>1, <1>2, <1>3 DEF InputWordLeftMoveProcess

LEMMA DoubleClickOK ==
    ASSUME MonitorOK, curSelectState = "WAIT_DOUBLE_CLICK",
           NEW p \in PointerEvents, InputWordDoubleClickProcess(p)
    PROVE  MonitorOK'
<1>1. CASE PressInTime(p, DOUBLE_CLICK_TIME, "WAIT_DOUBLE_CLICK")
    BY <1>1, PressInTimeOK
<1>2. CASE ProcessWordSelection(p)
    BY <1>2, ProcessWordSelectionOK
<1>3. CASE /\ subSelectState = "WAIT_BUTTON_UP"
           /\ Goto("WAIT_LEFT_MOVE", subSelectState)
           /\ UNCHANGED <<sinceClick, selectionInfo_>>
    BY <1>3 DEF Goto, MonitorOK, StatesBelongTogether, SelectInputState, SelectInputSubState
<1>4. CASE UNCHANGED monitorVars
    BY <1>4 DEF monitorVars, MonitorOK, StatesBelongTogether
<1>5. subSelectState # "WAIT_BUTTON_OR_CTRL_DOWN"
    BY DEF MonitorOK, StatesBelongTogether
<1>6. QED
    BY <1>1, <1>2, <1>3, <1>4, <1>5 DEF InputWordDoubleClickProcess

LEMMA WordEndOK ==
    ASSUME MonitorOK, NEW p \in PointerEvents, InputWordEndProcess(p)
    PROVE  MonitorOK'
<1>1. CASE ResetState /\ UNCHANGED <<sinceClick, selectionInfo_>>
    BY <1>1, ResetStateOK
<1>2. CASE JudgeTripleClick(p)
    BY <1>2, PressInTimeOK DEF JudgeTripleClick
<1>3. CASE ResetProcess(p)
    BY <1>3, ResetProcessOK
<1>4. QED
    BY <1>1, <1>2, <1>3 DEF InputWordEndProcess

\* A movement with the button held finds the recogniser waiting for its release.
LEMMA TripleClickOK ==
    ASSUME MonitorOK, curSelectState = "WAIT_TRIPLE_CLICK",
           NEW p \in PointerEvents, InputWordTripleClickProcess(p),
           p.action = "move" => subSelectState = "WAIT_BUTTON_UP"
    PROVE  MonitorOK'
<1>1. CASE PressInTime(p, TRIPLE_CLICK_TIME, curSelectState)
    BY <1>1, PressInTimeOK
<1>2. CASE ProcessWordSelection(p)
    BY <1>2, ProcessWordSelectionOK
<1>3. CASE /\ p.action = "move"
           /\ Goto("WAIT_LEFT_MOVE", subSelectState)
           /\ UNCHANGED <<sinceClick, selectionInfo_>>
    BY <1>3 DEF Goto, MonitorOK, StatesBelongTogether, SelectInputState, SelectInputSubState
<1>4. CASE ResetProcess(p)
    BY <1>4, ResetProcessOK
<1>5. QED
    BY <1>1, <1>2, <1>3, <1>4 DEF InputWordTripleClickProcess

LEMMA LeftButtonOK ==
    ASSUME MonitorOK, PressAwaitedWithButtonUp,
           NEW p \in PointerEvents, p.button = "left", Possible(p),
           p.action # "cross_window", LeftButtonProcess(p)
    PROVE  MonitorOK'
<1>1. CASE curSelectState = "INITIAL" /\ InputInitialProcess(p)
    BY <1>1, FirstPressOK
    DEF InputInitialProcess, monitorVars, MonitorOK, StatesBelongTogether
<1>2. CASE curSelectState = "WORD_BEGIN" /\ InputWordBeginProcess(p)
    BY <1>2, WordBeginOK
<1>3. CASE curSelectState = "WAIT_LEFT_MOVE" /\ InputWordLeftMoveProcess(p)
    BY <1>3, LeftMoveOK
<1>4. CASE curSelectState = "WAIT_DOUBLE_CLICK" /\ InputWordDoubleClickProcess(p)
    BY <1>4, DoubleClickOK
<1>5. CASE curSelectState \in {"WORD_END", "DONE"} /\ InputWordEndProcess(p)
    BY <1>5, WordEndOK
<1>6. CASE curSelectState = "WAIT_TRIPLE_CLICK" /\ InputWordTripleClickProcess(p)
    <2>1. p.action = "move" => leftButton # "up"
        BY DEF Possible
    <2>2. p.action = "move" => subSelectState = "WAIT_BUTTON_UP"
        BY <1>6, <2>1 DEF PressAwaitedWithButtonUp, MonitorOK, StatesBelongTogether
    <2>3. QED
        BY <1>6, <2>2, TripleClickOK
<1>7. QED
    BY <1>1, <1>2, <1>3, <1>4, <1>5, <1>6 DEF LeftButtonProcess

LEMMA ProcessPointerEventOK ==
    ASSUME MonitorOK, PressAwaitedWithButtonUp,
           NEW p \in PointerEvents, Possible(p), ProcessPointerEvent(p)
    PROVE  MonitorOK'
<1>1. CASE UNCHANGED monitorVars
    BY <1>1 DEF monitorVars, MonitorOK, StatesBelongTogether
<1>2. CASE ProcessMovement(p)
    BY <1>2 DEF ProcessMovement, MonitorOK, StatesBelongTogether, SelectInputState,
                SelectInputSubState
<1>3. CASE ResetState /\ UNCHANGED <<sinceClick, selectionInfo_>>
    BY <1>3, ResetStateOK
<1>4. CASE p.action # "cross_window" /\ p.button = "left" /\ LeftButtonProcess(p)
    BY <1>4, LeftButtonOK
<1>5. QED
    BY <1>1, <1>2, <1>3, <1>4 DEF ProcessPointerEvent

LEMMA ProcessKeyEventOK ==
    ASSUME MonitorOK, NEW k \in KeyEvents, ProcessKeyEvent(k)
    PROVE  MonitorOK'
<1>1. UNCHANGED <<sinceClick, selectionInfo_>>
    BY DEF ProcessKeyEvent
<1>2. CASE /\ curSelectState = "DONE" /\ subSelectState # "SUB_INITIAL"
           /\ Goto("WORD_END", subSelectState)
    BY <1>1, <1>2 DEF Goto, MonitorOK, StatesBelongTogether, SelectInputState
<1>3. CASE ResetState
    BY <1>1, <1>3, ResetStateOK
<1>4. CASE UNCHANGED gestureVars
    BY <1>1, <1>4 DEF gestureVars, MonitorOK, StatesBelongTogether
<1>5. CASE /\ curSelectState # "DONE" /\ subSelectState \in CtrlSubStates
           /\ CtrlKeyProcess(k)
    <2>1. curSelectState = "WORD_END"
        BY <1>5 DEF MonitorOK, StatesBelongTogether, SelectInputState, CtrlSubStates
    <2>2. CASE Goto(curSelectState, "WAIT_CTRL_UP")
        BY <1>1, <2>1, <2>2
        DEF Goto, MonitorOK, StatesBelongTogether, SelectInputState, SelectInputSubState
    <2>3. CASE Goto("DONE", "SUB_INITIAL")
        BY <1>1, <2>3
        DEF Goto, MonitorOK, StatesBelongTogether, SelectInputState, SelectInputSubState
    <2>4. QED
        BY <1>3, <1>4, <1>5, <2>1, <2>2, <2>3 DEF CtrlKeyProcess
<1>6. QED
    BY <1>2, <1>3, <1>4, <1>5 DEF ProcessKeyEvent

-----------------------------------------------------------------------------
(* The button is up while a press is awaited. *)

\* Only a release makes the recogniser wait for a press.
LEMMA PressAwaitedAfterRelease ==
    ASSUME MonitorOK, PressAwaitedWithButtonUp,
           NEW p \in PointerEvents, p.button = "left", Possible(p),
           LeftButtonProcess(p), subSelectState' = "WAIT_BUTTON_DOWN",
           p.action \notin {"up", "cross_window"}
    PROVE  FALSE
<1>1. ~FirstPress(p) /\ ~ResetState /\ ~ResetProcess(p)
    BY DEF FirstPress, ResetState, ResetProcess, Goto
<1>2. ~PressInTime(p, DOUBLE_CLICK_TIME, "WAIT_DOUBLE_CLICK") /\ ~JudgeTripleClick(p)
    BY <1>1 DEF PressInTime, JudgeTripleClick, Goto
<1>3. curSelectState = "WAIT_TRIPLE_CLICK" =>
         ~PressInTime(p, TRIPLE_CLICK_TIME, curSelectState)
    BY <1>1 DEF PressInTime, Goto
<1>4. subSelectState = "WAIT_BUTTON_DOWN" => p.action = "down"
    BY DEF Possible, PressAwaitedWithButtonUp, PointerEvents
<1>5. curSelectState \notin {"INITIAL", "WORD_BEGIN"}
    BY <1>1, <1>4
    DEF LeftButtonProcess, InputInitialProcess, InputWordBeginProcess, monitorVars,
        gestureVars, Goto, MonitorOK, StatesBelongTogether
<1>6. curSelectState # "WAIT_LEFT_MOVE"
    BY <1>1
    DEF LeftButtonProcess, InputWordLeftMoveProcess, monitorVars, MonitorOK,
        StatesBelongTogether
<1>7. curSelectState # "WAIT_DOUBLE_CLICK"
    <2>1. SUFFICES ASSUME InputWordDoubleClickProcess(p), curSelectState = "WAIT_DOUBLE_CLICK"
                   PROVE  FALSE
        BY DEF LeftButtonProcess
    <2>2. CASE subSelectState = "WAIT_BUTTON_DOWN"
        BY <1>2, <1>4, <2>1, <2>2 DEF InputWordDoubleClickProcess
    <2>3. CASE subSelectState = "WAIT_BUTTON_UP"
        BY <2>1, <2>3 DEF InputWordDoubleClickProcess, Goto, monitorVars
    <2>4. QED
        BY <2>1, <2>2, <2>3 DEF MonitorOK, StatesBelongTogether
<1>8. curSelectState \notin {"WORD_END", "DONE"}
    BY <1>1, <1>2 DEF LeftButtonProcess, InputWordEndProcess
<1>9. curSelectState # "WAIT_TRIPLE_CLICK"
    BY <1>1, <1>3, <1>4 DEF LeftButtonProcess, InputWordTripleClickProcess, Goto
<1>10. QED
    BY <1>5, <1>6, <1>7, <1>8, <1>9 DEF MonitorOK, SelectInputState

LEMMA PointerKeepsPressAwaited ==
    ASSUME MonitorOK, PressAwaitedWithButtonUp, NEW p \in PointerEvents, OnPointerEvent(p)
    PROVE  PressAwaitedWithButtonUp'
<1>1. SUFFICES ASSUME subSelectState' = "WAIT_BUTTON_DOWN" PROVE leftButton' = "up"
    BY DEF PressAwaitedWithButtonUp
<1>2. CASE p.button # "left"
    <2>1. leftButton' = leftButton
        BY <1>2 DEF OnPointerEvent
    <2>2. subSelectState = "WAIT_BUTTON_DOWN"
        BY <1>1, <1>2
        DEF OnPointerEvent, ProcessPointerEvent, ProcessMovement, ResetState, Goto, monitorVars
    <2>3. QED
        BY <2>1, <2>2 DEF PressAwaitedWithButtonUp
<1>3. CASE p.button = "left" /\ p.action = "cross_window"
    BY <1>1, <1>3
    DEF OnPointerEvent, ProcessPointerEvent, monitorVars, PressAwaitedWithButtonUp
<1>4. CASE p.button = "left" /\ p.action = "up"
    BY <1>4 DEF OnPointerEvent
<1>5. CASE p.button = "left" /\ p.action \notin {"up", "cross_window"}
    BY <1>1, <1>5, PressAwaitedAfterRelease DEF OnPointerEvent, ProcessPointerEvent
<1>6. QED
    BY <1>2, <1>3, <1>4, <1>5

LEMMA KeyKeepsPressAwaited ==
    ASSUME PressAwaitedWithButtonUp, NEW k \in KeyEvents, OnKeyEvent(k)
    PROVE  PressAwaitedWithButtonUp'
BY DEF OnKeyEvent, ProcessKeyEvent, CtrlKeyProcess, ResetState, Goto, gestureVars,
       PressAwaitedWithButtonUp

-----------------------------------------------------------------------------
(* The invariant. *)

LEMMA InitInv ==
    ASSUME Init
    PROVE  Inv
BY ClickTimeAssumption, PositionAssumption
DEF Init, Inv, TypeOK, StatesBelongTogether, PressAwaitedWithButtonUp, SelectInputState,
    SelectInputSubState, SelectionInfo, SelectionType

LEMMA NextInv ==
    ASSUME Inv, [Next]_vars
    PROVE  Inv'
<1>1. MonitorOK /\ PressAwaitedWithButtonUp
    BY DEF Inv, TypeOK, MonitorOK
<1>2. triggered \in BOOLEAN /\ leftButton \in {"up", "held", "dragging"}
    BY DEF Inv, TypeOK
<1>3. ASSUME NEW k \in KeyEvents, OnKeyEvent(k) PROVE Inv'
    <2>1. MonitorOK'
        BY <1>1, <1>3, ProcessKeyEventOK DEF OnKeyEvent
    <2>2. PressAwaitedWithButtonUp'
        BY <1>1, <1>3, KeyKeepsPressAwaited
    <2>3. QED
        BY <1>2, <1>3, <2>1, <2>2 DEF OnKeyEvent, Inv, TypeOK, MonitorOK
<1>4. ASSUME NEW p \in PointerEvents, OnPointerEvent(p) PROVE Inv'
    <2>1. MonitorOK'
        BY <1>1, <1>4, ProcessPointerEventOK DEF OnPointerEvent
    <2>2. PressAwaitedWithButtonUp'
        BY <1>1, <1>4, PointerKeepsPressAwaited
    <2>3. leftButton' \in {"up", "held", "dragging"}
        BY <1>2, <1>4 DEF OnPointerEvent, PointerEvents
    <2>4. QED
        BY <1>2, <1>4, <2>1, <2>2, <2>3 DEF OnPointerEvent, Inv, TypeOK, MonitorOK
<1>5. CASE Tick
    <2>1. sinceClick' \in 0..(DOUBLE_CLICK_TIME + 1)
        BY <1>1, <1>5, ClickTimeAssumption DEF Tick, Older, MonitorOK
    <2>2. QED
        BY <1>1, <1>2, <1>5, <2>1
        DEF Tick, gestureVars, Inv, TypeOK, StatesBelongTogether, PressAwaitedWithButtonUp,
            MonitorOK
<1>6. ASSUME NEW b \in BOOLEAN, SetTriggered(b) PROVE Inv'
    BY <1>1, <1>2, <1>6
    DEF SetTriggered, monitorVars, Inv, TypeOK, StatesBelongTogether,
        PressAwaitedWithButtonUp, MonitorOK
<1>7. CASE UNCHANGED vars
    BY <1>1, <1>2, <1>7
    DEF vars, monitorVars, Inv, TypeOK, StatesBelongTogether, PressAwaitedWithButtonUp,
        MonitorOK
<1>8. QED
    BY <1>3, <1>4, <1>5, <1>6, <1>7 DEF Next

\* Inv is an invariant.
LEMMA MonitorInvariant == Spec => []Inv
<1>1. Init => Inv
    BY InitInv
<1>2. Inv /\ [Next]_vars => Inv'
    BY NextInv
<1>3. QED
    BY <1>1, <1>2, PTL DEF Spec

\* Whatever the user does, the variables of the recogniser keep their types.
THEOREM MonitorTypeCorrect == Spec => []TypeOK
BY MonitorInvariant, PTL DEF Inv

\* No sequence of events makes the recogniser wait for an event its state has
\* no answer to.
THEOREM MonitorStatesBelongTogether == Spec => []StatesBelongTogether
BY MonitorInvariant, PTL DEF Inv

\* The recogniser never waits for a press of a button that is down.
THEOREM MonitorAwaitsPressWithButtonUp == Spec => []PressAwaitedWithButtonUp
BY MonitorInvariant, PTL DEF Inv

-----------------------------------------------------------------------------
(* The recogniser implements Gesture: every step of a handler is one step of the *)
(* abstract gesture, or none.  The lemmas go through the handlers and name for    *)
(* each the step of Gesture it takes.                                             *)

\* A step of the abstract gesture, or none.
GStep == G!GNext \/ UNCHANGED G!gvars

LEMMA UnchangedImplements ==
    ASSUME UNCHANGED <<curSelectState, subSelectState, selectionInfo_>>
    PROVE  GStep
BY DEF GStep, G!gvars, PhaseOf, ClicksOf

LEMMA FirstPressImplements ==
    ASSUME NEW p \in PointerEvents, FirstPress(p)
    PROVE  GStep
<1>1. G!Begin
    BY DEF FirstPress, Goto, PhaseOf, ClicksOf, G!Begin
<1>2. QED
    BY <1>1 DEF GStep, G!GNext

LEMMA ResetStateImplements ==
    ASSUME ResetState
    PROVE  GStep
<1>1. G!Abandon
    BY DEF ResetState, Goto, PhaseOf, ClicksOf, G!Abandon
<1>2. QED
    BY <1>1 DEF GStep, G!GNext

LEMMA ResetProcessImplements ==
    ASSUME NEW p \in PointerEvents, ResetProcess(p)
    PROVE  GStep
BY FirstPressImplements, ResetStateImplements DEF ResetProcess

\* A press in time continues the gesture when one or two clicks came before.
LEMMA PressInTimeImplements ==
    ASSUME NEW p \in PointerEvents, NEW time,
           NEW cur \in {"WAIT_DOUBLE_CLICK", "WAIT_TRIPLE_CLICK"}, PressInTime(p, time, cur),
           \/ /\ PhaseOf \in {"released", "pending", "reported"}
              /\ ClicksOf = IF cur = "WAIT_DOUBLE_CLICK" THEN 1 ELSE 2
           \/ PhaseOf = "pressed" /\ ClicksOf = 3 /\ cur = "WAIT_TRIPLE_CLICK"
    PROVE  GStep
<1>1. CASE sinceClick > time
    BY <1>1, ResetProcessImplements DEF PressInTime
<1>2. CASE ~(sinceClick > time)
    <2>1. PhaseOf' = "pressed" /\ ClicksOf' = IF cur = "WAIT_DOUBLE_CLICK" THEN 2 ELSE 3
        BY <1>2 DEF PressInTime, Goto, PhaseOf, ClicksOf
    <2>2. G!Continue \/ UNCHANGED G!gvars
        BY <2>1 DEF G!Continue, G!gvars
    <2>3. QED
        BY <2>2 DEF GStep, G!GNext
<1>3. QED
    BY <1>1, <1>2

LEMMA DragImplements ==
    ASSUME PhaseOf = "pressed", Goto("WAIT_LEFT_MOVE", "WAIT_BUTTON_UP")
    PROVE  GStep
<1>1. G!Drag
    BY DEF Goto, PhaseOf, ClicksOf, G!Drag
<1>2. QED
    BY <1>1 DEF GStep, G!GNext

\* The release that completes a gesture selects.
LEMMA ProcessWordSelectionImplements ==
    ASSUME MonitorOK, NEW p \in PointerEvents, ProcessWordSelection(p),
           \/ curSelectState = "WAIT_LEFT_MOVE"
           \/ /\ curSelectState \in {"WAIT_DOUBLE_CLICK", "WAIT_TRIPLE_CLICK"}
              /\ subSelectState = "WAIT_BUTTON_UP"
    PROVE  GStep
<1>1. selectionInfo_'.selectionType = TypeOfGesture
    BY EndInfoType DEF ProcessWordSelection, MonitorOK
<1>2. PhaseOf' \in {"pending", "reported"}
    BY DEF ProcessWordSelection, Goto, PhaseOf
<1>3. ClicksOf' = CASE TypeOfGesture = "MOVE" -> 0
                    [] TypeOfGesture = "DOUBLE_CLICKED" -> 2
                    [] OTHER -> 3
    BY <1>1, <1>2 DEF ClicksOf
<1>4. /\ PhaseOf = "dragging" \/ (PhaseOf = "pressed" /\ ClicksOf > 1)
      /\ ClicksOf' = ClicksOf
    BY <1>3 DEF TypeOfGesture, PhaseOf, ClicksOf
<1>5. G!Select
    BY <1>2, <1>4 DEF G!Select
<1>6. QED
    BY <1>5 DEF GStep, G!GNext

-----------------------------------------------------------------------------
(* The handlers. *)

LEMMA WordBeginImplements ==
    ASSUME curSelectState = "WORD_BEGIN", NEW p \in PointerEvents, InputWordBeginProcess(p)
    PROVE  GStep
<1>1. PhaseOf = "pressed" /\ ClicksOf = 1
    BY DEF PhaseOf, ClicksOf
<1>2. CASE Goto("WAIT_LEFT_MOVE", "WAIT_BUTTON_UP")
    BY <1>1, <1>2, DragImplements
<1>3. CASE Goto("WAIT_DOUBLE_CLICK", "WAIT_BUTTON_DOWN")
    <2>1. G!ReleaseFirst
        BY <1>1, <1>3 DEF Goto, PhaseOf, ClicksOf, G!ReleaseFirst
    <2>2. QED
        BY <2>1 DEF GStep, G!GNext
<1>4. CASE UNCHANGED <<gestureVars, selectionInfo_>>
    BY <1>4, UnchangedImplements DEF gestureVars
<1>5. QED
    BY <1>2, <1>3, <1>4 DEF InputWordBeginProcess

LEMMA DoubleClickImplements ==
    ASSUME MonitorOK, curSelectState = "WAIT_DOUBLE_CLICK",
           NEW p \in PointerEvents, InputWordDoubleClickProcess(p)
    PROVE  GStep
<1>1. CASE subSelectState = "WAIT_BUTTON_DOWN" /\ PressInTime(p, DOUBLE_CLICK_TIME, "WAIT_DOUBLE_CLICK")
    <2>1. PhaseOf = "released" /\ ClicksOf = 1
        BY <1>1 DEF PhaseOf, ClicksOf
    <2>2. QED
        BY <1>1, <2>1, PressInTimeImplements
<1>2. CASE subSelectState = "WAIT_BUTTON_UP" /\ ProcessWordSelection(p)
    BY <1>2, ProcessWordSelectionImplements
<1>3. CASE subSelectState = "WAIT_BUTTON_UP" /\ Goto("WAIT_LEFT_MOVE", subSelectState)
    <2>1. PhaseOf = "pressed"
        BY <1>3 DEF PhaseOf
    <2>2. QED
        BY <1>3, <2>1, DragImplements
<1>4. CASE UNCHANGED monitorVars
    BY <1>4, UnchangedImplements DEF monitorVars
<1>5. subSelectState # "WAIT_BUTTON_OR_CTRL_DOWN"
    BY DEF MonitorOK, StatesBelongTogether
<1>6. QED
    BY <1>1, <1>2, <1>3, <1>4, <1>5 DEF InputWordDoubleClickProcess

LEMMA WordEndImplements ==
    ASSUME MonitorOK, curSelectState \in {"WORD_END", "DONE"},
           NEW p \in PointerEvents, InputWordEndProcess(p)
    PROVE  GStep
<1>1. CASE ResetState
    BY <1>1, ResetStateImplements
<1>2. CASE ResetProcess(p)
    BY <1>2, ResetProcessImplements
<1>3. CASE /\ subSelectState \in {"WAIT_BUTTON_DOWN", "WAIT_BUTTON_OR_CTRL_DOWN"}
           /\ JudgeTripleClick(p)
    <2>1. selectionInfo_.selectionType = "DOUBLE_CLICKED"
        BY <1>3 DEF MonitorOK, StatesBelongTogether
    <2>2. PhaseOf \in {"released", "pending", "reported"} /\ ClicksOf = 2
        BY <1>3, <2>1 DEF PhaseOf, ClicksOf
    <2>3. QED
        BY <1>3, <2>2, PressInTimeImplements DEF JudgeTripleClick
<1>4. QED
    BY <1>1, <1>2, <1>3 DEF InputWordEndProcess

LEMMA TripleClickImplements ==
    ASSUME MonitorOK, curSelectState = "WAIT_TRIPLE_CLICK",
           NEW p \in PointerEvents, InputWordTripleClickProcess(p),
           p.action \in {"move", "up"} => subSelectState = "WAIT_BUTTON_UP"
    PROVE  GStep
<1>1. CASE PressInTime(p, TRIPLE_CLICK_TIME, curSelectState)
    <2>1. \/ PhaseOf = "released" /\ ClicksOf = 2
          \/ PhaseOf = "pressed" /\ ClicksOf = 3
        BY DEF PhaseOf, ClicksOf, MonitorOK, StatesBelongTogether
    <2>2. QED
        BY <1>1, <2>1, PressInTimeImplements
<1>2. CASE p.action = "up" /\ ProcessWordSelection(p)
    BY <1>2, ProcessWordSelectionImplements
<1>3. CASE p.action = "move" /\ Goto("WAIT_LEFT_MOVE", subSelectState)
    <2>1. PhaseOf = "pressed" /\ subSelectState = "WAIT_BUTTON_UP"
        BY <1>3 DEF PhaseOf
    <2>2. QED
        BY <1>3, <2>1, DragImplements
<1>4. CASE ResetProcess(p)
    BY <1>4, ResetProcessImplements
<1>5. QED
    BY <1>1, <1>2, <1>3, <1>4 DEF InputWordTripleClickProcess

LEMMA PointerImplements ==
    ASSUME MonitorOK, PressAwaitedWithButtonUp, NEW p \in PointerEvents, OnPointerEvent(p)
    PROVE  GStep
<1>1. CASE UNCHANGED monitorVars
    BY <1>1, UnchangedImplements DEF monitorVars
<1>2. CASE ResetState
    BY <1>2, ResetStateImplements
<1>3. CASE ToleratedMovement(p) /\ ProcessMovement(p)
    <2>1. CASE curSelectState = "DONE" /\ subSelectState = "WAIT_BUTTON_DOWN"
        <3>1. selectionInfo_.selectionType = "DOUBLE_CLICKED"
            BY <2>1 DEF MonitorOK, StatesBelongTogether
        <3>2. G!Lapse
            BY <1>3, <2>1, <3>1 DEF ProcessMovement, PhaseOf, ClicksOf, G!Lapse
        <3>3. QED
            BY <3>2 DEF GStep, G!GNext
    <2>2. CASE subSelectState = "WAIT_BUTTON_OR_CTRL_DOWN"
        <3>1. curSelectState = "WORD_END"
            BY <2>2 DEF MonitorOK, StatesBelongTogether, SelectInputState
        <3>2. UNCHANGED G!gvars
            BY <1>3, <2>2, <3>1 DEF ProcessMovement, PhaseOf, ClicksOf, G!gvars
        <3>3. QED
            BY <3>2 DEF GStep
    <2>3. CASE /\ ~(curSelectState = "DONE" /\ subSelectState = "WAIT_BUTTON_DOWN")
               /\ subSelectState # "WAIT_BUTTON_OR_CTRL_DOWN"
        BY <1>3, <2>3, UnchangedImplements DEF ProcessMovement
    <2>4. QED
        BY <2>1, <2>2, <2>3
<1>4. CASE p.button = "left" /\ LeftButtonProcess(p)
    <2>1. CASE curSelectState = "INITIAL" /\ InputInitialProcess(p)
        BY <2>1, FirstPressImplements, UnchangedImplements DEF InputInitialProcess, monitorVars
    <2>2. CASE curSelectState = "WORD_BEGIN" /\ InputWordBeginProcess(p)
        BY <2>2, WordBeginImplements
    <2>3. CASE curSelectState = "WAIT_LEFT_MOVE" /\ InputWordLeftMoveProcess(p)
        BY <2>3, ProcessWordSelectionImplements, ResetProcessImplements, UnchangedImplements
        DEF InputWordLeftMoveProcess, monitorVars
    <2>4. CASE curSelectState = "WAIT_DOUBLE_CLICK" /\ InputWordDoubleClickProcess(p)
        BY <2>4, DoubleClickImplements
    <2>5. CASE curSelectState \in {"WORD_END", "DONE"} /\ InputWordEndProcess(p)
        BY <2>5, WordEndImplements
    <2>6. CASE curSelectState = "WAIT_TRIPLE_CLICK" /\ InputWordTripleClickProcess(p)
        <3>1. p.action \in {"move", "up"} => leftButton # "up"
            BY <1>4 DEF OnPointerEvent, Possible
        <3>2. p.action \in {"move", "up"} => subSelectState = "WAIT_BUTTON_UP"
            BY <2>6, <3>1 DEF PressAwaitedWithButtonUp, MonitorOK, StatesBelongTogether
        <3>3. QED
            BY <2>6, <3>2, TripleClickImplements
    <2>7. QED
        BY <1>4, <2>1, <2>2, <2>3, <2>4, <2>5, <2>6 DEF LeftButtonProcess
<1>5. QED
    BY <1>1, <1>2, <1>3, <1>4 DEF OnPointerEvent, ProcessPointerEvent

LEMMA KeyImplements ==
    ASSUME MonitorOK, NEW k \in KeyEvents, OnKeyEvent(k)
    PROVE  GStep
<1>1. UNCHANGED selectionInfo_
    BY DEF OnKeyEvent, ProcessKeyEvent
<1>2. CASE ResetState
    BY <1>2, ResetStateImplements
<1>3. CASE UNCHANGED gestureVars
    BY <1>1, <1>3, UnchangedImplements DEF gestureVars
<1>4. CASE /\ curSelectState = "DONE" /\ subSelectState # "SUB_INITIAL"
           /\ Goto("WORD_END", subSelectState)
    <2>1. subSelectState = "WAIT_BUTTON_DOWN" /\ selectionInfo_.selectionType = "DOUBLE_CLICKED"
        BY <1>4 DEF MonitorOK, StatesBelongTogether
    <2>2. G!Lapse
        BY <1>1, <1>4, <2>1 DEF Goto, PhaseOf, ClicksOf, G!Lapse
    <2>3. QED
        BY <2>2 DEF GStep, G!GNext
<1>5. CASE subSelectState \in CtrlSubStates /\ CtrlKeyProcess(k)
    <2>1. curSelectState = "WORD_END" /\ PhaseOf = "pending"
        BY <1>5 DEF MonitorOK, StatesBelongTogether, SelectInputState, CtrlSubStates, PhaseOf
    <2>2. CASE Goto(curSelectState, "WAIT_CTRL_UP")
        <3>1. UNCHANGED G!gvars
            BY <1>1, <2>1, <2>2 DEF Goto, PhaseOf, ClicksOf, G!gvars
        <3>2. QED
            BY <3>1 DEF GStep
    <2>3. CASE Goto("DONE", "SUB_INITIAL")
        <3>1. G!Confirm
            BY <1>1, <2>1, <2>3 DEF Goto, PhaseOf, ClicksOf, G!Confirm
        <3>2. QED
            BY <3>1 DEF GStep, G!GNext
    <2>4. QED
        BY <1>2, <1>3, <1>5, <2>1, <2>2, <2>3 DEF CtrlKeyProcess
<1>6. QED
    BY <1>2, <1>3, <1>4, <1>5 DEF OnKeyEvent, ProcessKeyEvent

\* The recogniser implements Gesture: for any times, positions and windows, a
\* selection is reported only after a drag or after two or three clicks that were
\* counted one by one.
THEOREM MonitorImplementsGesture == Spec => ImplementsGesture
<1>1. Init => G!GInit
    BY DEF Init, PhaseOf, ClicksOf, G!GInit
<1>2. Inv /\ [Next]_vars => [G!GNext]_(G!gvars)
    <2>1. SUFFICES ASSUME Inv, [Next]_vars PROVE GStep
        BY DEF GStep
    <2>2. MonitorOK /\ PressAwaitedWithButtonUp
        BY <2>1 DEF Inv, TypeOK, MonitorOK
    <2>3. ASSUME NEW k \in KeyEvents, OnKeyEvent(k) PROVE GStep
        BY <2>2, <2>3, KeyImplements
    <2>4. ASSUME NEW p \in PointerEvents, OnPointerEvent(p) PROVE GStep
        BY <2>2, <2>4, PointerImplements
    <2>5. CASE Tick
        BY <2>5, UnchangedImplements DEF Tick, gestureVars
    <2>6. ASSUME NEW b \in BOOLEAN, SetTriggered(b) PROVE GStep
        BY <2>6, UnchangedImplements DEF SetTriggered, monitorVars
    <2>7. CASE UNCHANGED vars
        BY <2>7, UnchangedImplements DEF vars, monitorVars
    <2>8. QED
        BY <2>1, <2>3, <2>4, <2>5, <2>6, <2>7 DEF Next
<1>3. QED
    BY <1>1, <1>2, MonitorInvariant, PTL DEF Spec, ImplementsGesture, G!GSpec

-----------------------------------------------------------------------------
(* What the states of the recogniser say of the user. *)

\* The recogniser saw every press: its clock is the user's.
PressIsSeen == sinceClick = sincePress

\* What the user does with the button in the states that wait for its release.
ButtonOfState ==
    /\ curSelectState = "WORD_BEGIN" => leftButton = "held"
    /\ curSelectState = "WAIT_LEFT_MOVE" => leftButton = "dragging"
    /\ curSelectState \in {"WAIT_DOUBLE_CLICK", "WAIT_TRIPLE_CLICK"}
       /\ subSelectState = "WAIT_BUTTON_UP" => leftButton = "held"

DoubleClicked == ~dragged /\ gaps[1] # "slow"
TripleClicked == ~dragged /\ gaps[1] = "triple" /\ gaps[2] # "slow"

\* A click that may become a double or triple click did not move, and the presses
\* before it came in time.
ClicksInTime ==
    /\ curSelectState = "WORD_BEGIN" => ~dragged
    /\ curSelectState = "WAIT_LEFT_MOVE" => dragged
    /\ curSelectState = "WAIT_DOUBLE_CLICK" =>
          ~dragged /\ (subSelectState = "WAIT_BUTTON_UP" => DoubleClicked)
    /\ curSelectState = "WAIT_TRIPLE_CLICK" =>
          IF subSelectState = "WAIT_BUTTON_UP" THEN TripleClicked ELSE DoubleClicked

\* A gesture that is complete, reported or not, was made.
CompleteIsReal ==
    curSelectState \in {"WORD_END", "DONE"} =>
        CASE selectionInfo_.selectionType = "MOVE" -> dragged
          [] selectionInfo_.selectionType = "DOUBLE_CLICKED" -> DoubleClicked
          [] OTHER -> TripleClicked

\* A gesture that waits for Ctrl knows whether it was pressed.
CtrlIsSeen ==
    /\ subSelectState = "WAIT_CTRL_UP" => ctrlMode /\ ctrlClick = "down"
    /\ subSelectState \in {"WAIT_CTRL_DOWN", "WAIT_BUTTON_OR_CTRL_DOWN"} =>
          ctrlMode /\ ctrlClick = "none"
    /\ curSelectState = "DONE" /\ ctrlMode => ctrlClick = "clicked"

\* What is remembered of the user is true.
Recorded ==
    /\ dragged \in BOOLEAN /\ disturbed \in BOOLEAN /\ ctrlMode \in BOOLEAN
    /\ PressIsSeen /\ ButtonOfState /\ ClicksInTime /\ CompleteIsReal /\ CtrlIsSeen
    /\ HeldButtonIsFollowed

HistoryInv == Inv /\ Recorded

-----------------------------------------------------------------------------
(* What each event of the mouse does, in the states it can be found in. *)

ToWordBegin == curSelectState' = "WORD_BEGIN" /\ subSelectState' = "SUB_INITIAL"
ToInitial == curSelectState' = "INITIAL" /\ subSelectState' = "SUB_INITIAL"
ToLeftMove == curSelectState' = "WAIT_LEFT_MOVE" /\ subSelectState' = "WAIT_BUTTON_UP"

SecondPress ==
    /\ curSelectState = "WAIT_DOUBLE_CLICK" /\ sinceClick <= DOUBLE_CLICK_TIME
    /\ curSelectState' = "WAIT_DOUBLE_CLICK" /\ subSelectState' = "WAIT_BUTTON_UP"

ThirdPress ==
    /\ \/ curSelectState = "WAIT_TRIPLE_CLICK" /\ subSelectState = "WAIT_BUTTON_DOWN"
       \/ /\ curSelectState \in {"WORD_END", "DONE"}
          /\ selectionInfo_.selectionType = "DOUBLE_CLICKED"
    /\ sinceClick <= TRIPLE_CLICK_TIME
    /\ curSelectState' = "WAIT_TRIPLE_CLICK" /\ subSelectState' = "WAIT_BUTTON_UP"

LEMMA FirstPressStep ==
    ASSUME NEW p, FirstPress(p)
    PROVE  sinceClick' = 0 /\ ToWordBegin
BY DEF FirstPress, Goto, ToWordBegin

LEMMA PressInTimeStep ==
    ASSUME NEW p, p.action = "down", NEW time, NEW cur, PressInTime(p, time, cur)
    PROVE  /\ sinceClick' = 0
           /\ \/ ToWordBegin
              \/ ~(sinceClick > time) /\ curSelectState' = cur /\ subSelectState' = "WAIT_BUTTON_UP"
BY FirstPressStep DEF PressInTime, ResetProcess, Goto

\* Every press is the first, the second or the third of a gesture.
LEMMA DownStep ==
    ASSUME Inv, ButtonOfState, NEW p \in PointerEvents, p.button = "left", p.action = "down",
           OnPointerEvent(p)
    PROVE  /\ sinceClick' = 0 /\ leftButton' = "held"
           /\ ToWordBegin \/ SecondPress \/ ThirdPress
<1>1. leftButton = "up" /\ leftButton' = "held" /\ LeftButtonProcess(p)
  BY DEF OnPointerEvent, Possible, ProcessPointerEvent
<1>2. /\ curSelectState \notin {"WORD_BEGIN", "WAIT_LEFT_MOVE"}
      /\ curSelectState \in {"WAIT_DOUBLE_CLICK", "WAIT_TRIPLE_CLICK"}
           => subSelectState = "WAIT_BUTTON_DOWN"
  BY <1>1 DEF ButtonOfState, Inv, StatesBelongTogether
<1>3. sinceClick \in Int /\ DOUBLE_CLICK_TIME \in Int /\ TRIPLE_CLICK_TIME \in Int
  BY ClickTimeAssumption DEF Inv, TypeOK
<1>4. CASE curSelectState = "INITIAL"
  BY <1>1, <1>4, FirstPressStep DEF LeftButtonProcess, InputInitialProcess
<1>5. CASE curSelectState = "WAIT_DOUBLE_CLICK"
  <2>1. PressInTime(p, DOUBLE_CLICK_TIME, "WAIT_DOUBLE_CLICK")
    BY <1>1, <1>2, <1>5 DEF LeftButtonProcess, InputWordDoubleClickProcess
  <2> QED BY <1>1, <1>3, <1>5, <2>1, PressInTimeStep DEF SecondPress
<1>6. CASE curSelectState = "WAIT_TRIPLE_CLICK"
  <2>1. PressInTime(p, TRIPLE_CLICK_TIME, "WAIT_TRIPLE_CLICK")
    BY <1>1, <1>2, <1>6 DEF LeftButtonProcess, InputWordTripleClickProcess
  <2> QED BY <1>1, <1>2, <1>3, <1>6, <2>1, PressInTimeStep DEF ThirdPress
<1>7. CASE curSelectState \in {"WORD_END", "DONE"}
  <2>1. CASE /\ subSelectState \in {"WAIT_BUTTON_DOWN", "WAIT_BUTTON_OR_CTRL_DOWN"}
             /\ PressInTime(p, TRIPLE_CLICK_TIME, "WAIT_TRIPLE_CLICK")
    <3>1. selectionInfo_.selectionType = "DOUBLE_CLICKED"
      BY <1>7, <2>1 DEF Inv, StatesBelongTogether
    <3> QED BY <1>1, <1>3, <1>7, <2>1, <3>1, PressInTimeStep DEF ThirdPress
  <2>2. CASE ResetProcess(p)
    BY <1>1, <2>2, FirstPressStep DEF ResetProcess
  <2> QED
    BY <1>1, <1>7, <2>1, <2>2 DEF LeftButtonProcess, InputWordEndProcess, JudgeTripleClick
<1> QED BY <1>2, <1>4, <1>5, <1>6, <1>7 DEF Inv, TypeOK, SelectInputState

\* The gesture that a release completes.
Completes ==
    /\ \/ curSelectState = "WAIT_LEFT_MOVE"
       \/ /\ curSelectState \in {"WAIT_DOUBLE_CLICK", "WAIT_TRIPLE_CLICK"}
          /\ subSelectState = "WAIT_BUTTON_UP"
    /\ selectionInfo_'.selectionType =
          CASE curSelectState = "WAIT_LEFT_MOVE" -> "MOVE"
            [] curSelectState = "WAIT_DOUBLE_CLICK" -> "DOUBLE_CLICKED"
            [] OTHER -> "TRIPLE_CLICKED"
    /\ IF triggered
       THEN /\ curSelectState' = "WORD_END"
            /\ subSelectState' \in {"WAIT_CTRL_DOWN", "WAIT_BUTTON_OR_CTRL_DOWN"}
       ELSE /\ curSelectState' = "DONE"
            /\ subSelectState' \in {"WAIT_BUTTON_DOWN", "SUB_INITIAL"}

FirstRelease ==
    /\ curSelectState = "WORD_BEGIN"
    /\ curSelectState' = "WAIT_DOUBLE_CLICK" /\ subSelectState' = "WAIT_BUTTON_DOWN"

LEMMA ProcessWordSelectionStep ==
    ASSUME Inv, NEW p \in PointerEvents, ProcessWordSelection(p),
           \/ curSelectState = "WAIT_LEFT_MOVE"
           \/ /\ curSelectState \in {"WAIT_DOUBLE_CLICK", "WAIT_TRIPLE_CLICK"}
              /\ subSelectState = "WAIT_BUTTON_UP"
    PROVE  sinceClick' = sinceClick /\ Completes
<1>1. selectionInfo_'.selectionType = TypeOfGesture
  BY EndInfoType DEF ProcessWordSelection, Inv, TypeOK
<1> QED BY <1>1 DEF ProcessWordSelection, Goto, TypeOfGesture, Completes

LEMMA UpStep ==
    ASSUME Inv, ButtonOfState, NEW p \in PointerEvents, p.button = "left", p.action = "up",
           OnPointerEvent(p)
    PROVE  /\ sinceClick' = sinceClick /\ leftButton' = "up"
           /\ ToInitial \/ FirstRelease \/ Completes
<1>1. leftButton # "up" /\ leftButton' = "up" /\ LeftButtonProcess(p)
  BY DEF OnPointerEvent, Possible, ProcessPointerEvent
<1>2. curSelectState \in {"WAIT_DOUBLE_CLICK", "WAIT_TRIPLE_CLICK"}
           => subSelectState = "WAIT_BUTTON_UP"
  BY <1>1 DEF Inv, StatesBelongTogether, PressAwaitedWithButtonUp
<1>3. CASE curSelectState = "INITIAL"
  BY <1>1, <1>3
     DEF LeftButtonProcess, InputInitialProcess, monitorVars, ToInitial, Inv, StatesBelongTogether
<1>4. CASE curSelectState = "WORD_BEGIN"
  BY <1>1, <1>4 DEF LeftButtonProcess, InputWordBeginProcess, Goto, FirstRelease
<1>5. CASE curSelectState = "WAIT_LEFT_MOVE"
  <2>1. ProcessWordSelection(p)
    BY <1>1, <1>5 DEF LeftButtonProcess, InputWordLeftMoveProcess
  <2> QED BY <1>1, <1>5, <2>1, ProcessWordSelectionStep
<1>6. CASE curSelectState = "WAIT_DOUBLE_CLICK"
  <2>1. ProcessWordSelection(p)
    BY <1>1, <1>2, <1>6 DEF LeftButtonProcess, InputWordDoubleClickProcess
  <2> QED BY <1>1, <1>2, <1>6, <2>1, ProcessWordSelectionStep
<1>7. CASE curSelectState = "WAIT_TRIPLE_CLICK"
  <2>1. ProcessWordSelection(p)
    BY <1>1, <1>2, <1>7 DEF LeftButtonProcess, InputWordTripleClickProcess
  <2> QED BY <1>1, <1>2, <1>7, <2>1, ProcessWordSelectionStep
<1>8. CASE curSelectState \in {"WORD_END", "DONE"}
  BY <1>1, <1>8 DEF LeftButtonProcess, InputWordEndProcess, ResetState, Goto, ToInitial
<1> QED BY <1>3, <1>4, <1>5, <1>6, <1>7, <1>8 DEF Inv, TypeOK, SelectInputState

\* A movement with the button held makes a drag of what was a click, or ends a
\* gesture that was complete.
LEMMA MoveStep ==
    ASSUME Inv, ButtonOfState, NEW p \in PointerEvents, p.button = "left", p.action = "move",
           OnPointerEvent(p)
    PROVE  /\ sinceClick' = sinceClick /\ leftButton' = "dragging"
           /\ IF curSelectState \in {"INITIAL", "WORD_END", "DONE"} THEN ToInitial ELSE ToLeftMove
<1>1. leftButton # "up" /\ leftButton' = "dragging" /\ LeftButtonProcess(p)
  BY DEF OnPointerEvent, Possible, ProcessPointerEvent
<1>2. /\ curSelectState \in {"WAIT_DOUBLE_CLICK", "WAIT_TRIPLE_CLICK"}
           => subSelectState = "WAIT_BUTTON_UP"
      /\ curSelectState = "WAIT_LEFT_MOVE" => subSelectState = "WAIT_BUTTON_UP"
      /\ curSelectState = "INITIAL" => subSelectState = "SUB_INITIAL"
  BY <1>1 DEF Inv, StatesBelongTogether, PressAwaitedWithButtonUp
<1>3. CASE curSelectState = "INITIAL"
  BY <1>1, <1>2, <1>3 DEF LeftButtonProcess, InputInitialProcess, monitorVars, ToInitial
<1>4. CASE curSelectState = "WORD_BEGIN"
  BY <1>1, <1>4 DEF LeftButtonProcess, InputWordBeginProcess, Goto, ToLeftMove
<1>5. CASE curSelectState = "WAIT_LEFT_MOVE"
  BY <1>1, <1>2, <1>5
     DEF LeftButtonProcess, InputWordLeftMoveProcess, monitorVars, ToLeftMove
<1>6. CASE curSelectState = "WAIT_DOUBLE_CLICK"
  BY <1>1, <1>2, <1>6 DEF LeftButtonProcess, InputWordDoubleClickProcess, Goto, ToLeftMove
<1>7. CASE curSelectState = "WAIT_TRIPLE_CLICK"
  BY <1>1, <1>2, <1>7 DEF LeftButtonProcess, InputWordTripleClickProcess, Goto, ToLeftMove
<1>8. CASE curSelectState \in {"WORD_END", "DONE"}
  BY <1>1, <1>8 DEF LeftButtonProcess, InputWordEndProcess, ResetState, Goto, ToInitial
<1> QED BY <1>3, <1>4, <1>5, <1>6, <1>7, <1>8 DEF Inv, TypeOK, SelectInputState

\* A pull begins while the pointer is dragged, and ends any gesture.
LEMMA PullStep ==
    ASSUME Inv, ButtonOfState, NEW p \in PointerEvents, p.button = "left", p.action = "other",
           OnPointerEvent(p)
    PROVE  sinceClick' = sinceClick /\ ToInitial
<1>1. leftButton = "dragging" /\ LeftButtonProcess(p)
  BY DEF OnPointerEvent, Possible, ProcessPointerEvent
<1>2. curSelectState \in {"INITIAL", "WAIT_LEFT_MOVE", "WORD_END", "DONE"}
  BY <1>1 DEF ButtonOfState, Inv, TypeOK, SelectInputState, StatesBelongTogether,
              PressAwaitedWithButtonUp
<1>3. CASE curSelectState = "INITIAL"
  BY <1>1, <1>3
     DEF LeftButtonProcess, InputInitialProcess, monitorVars, ToInitial, Inv, StatesBelongTogether
<1>4. CASE curSelectState = "WAIT_LEFT_MOVE"
  BY <1>1, <1>4
     DEF LeftButtonProcess, InputWordLeftMoveProcess, ResetProcess, ResetState, Goto, ToInitial
<1>5. CASE curSelectState \in {"WORD_END", "DONE"}
  BY <1>1, <1>5 DEF LeftButtonProcess, InputWordEndProcess, ResetState, Goto, ToInitial
<1> QED BY <1>2, <1>3, <1>4, <1>5

\* Without the left button: a small movement lets a reported double click lapse into
\* an open triple click, and one that waits for Ctrl wait for nothing else.
Tolerated ==
    /\ curSelectState' = IF subSelectState = "WAIT_BUTTON_DOWN" /\ curSelectState = "DONE"
                         THEN "WAIT_TRIPLE_CLICK" ELSE curSelectState
    /\ subSelectState' = IF subSelectState = "WAIT_BUTTON_OR_CTRL_DOWN"
                         THEN "WAIT_CTRL_DOWN" ELSE subSelectState
    /\ UNCHANGED selectionInfo_

LEMMA OtherStep ==
    ASSUME NEW p \in PointerEvents, p.button # "left", p.action # "cross_window",
           OnPointerEvent(p)
    PROVE  /\ sinceClick' = sinceClick /\ leftButton' = leftButton
           /\ Tolerated \/ ToInitial
BY DEF OnPointerEvent, ProcessPointerEvent, ProcessMovement, ResetState, Goto, Tolerated,
       ToInitial

LEMMA CrossStep ==
    ASSUME NEW p \in PointerEvents, p.action = "cross_window", OnPointerEvent(p)
    PROVE  UNCHANGED <<monitorVars, leftButton>>
<1>1. UNCHANGED monitorVars
  BY DEF OnPointerEvent, ProcessPointerEvent
<1>2. leftButton' = leftButton BY DEF OnPointerEvent
<1> QED BY <1>1, <1>2

-----------------------------------------------------------------------------
(* Every event keeps what is remembered true. *)

LEMMA GapIsInTime ==
    ASSUME Inv, PressIsSeen
    PROVE  /\ sinceClick <= DOUBLE_CLICK_TIME => GapOf(sincePress) # "slow"
           /\ sinceClick <= TRIPLE_CLICK_TIME => GapOf(sincePress) = "triple"
BY ClickTimeAssumption DEF Inv, TypeOK, PressIsSeen, GapOf

LEMMA DownRecorded ==
    ASSUME Inv, Recorded, NEW p \in PointerEvents, p.button = "left", p.action = "down",
           OnPointerEvent(p), RecordPointer(p)
    PROVE  Recorded'
<1>1. sinceClick' = 0 /\ leftButton' = "held" /\ (ToWordBegin \/ SecondPress \/ ThirdPress)
  BY DownStep DEF Recorded
<1>2. /\ sincePress' = 0 /\ gaps' = <<GapOf(sincePress), gaps[1]>>
      /\ dragged' = FALSE /\ disturbed' = FALSE /\ ctrlClick' = ctrlClick /\ ctrlMode' = ctrlMode
  BY DEF RecordPointer
<1>3. gaps'[1] = GapOf(sincePress) /\ gaps'[2] = gaps[1] BY <1>2
<1>4. PressIsSeen' /\ ButtonOfState' /\ HeldButtonIsFollowed' /\ CtrlIsSeen' /\ CompleteIsReal'
  BY <1>1, <1>2
     DEF PressIsSeen, ButtonOfState, HeldButtonIsFollowed, CtrlIsSeen, CompleteIsReal,
         ToWordBegin, SecondPress, ThirdPress
<1>5. ClicksInTime'
  <2>1. CASE ToWordBegin BY <1>2, <2>1 DEF ToWordBegin, ClicksInTime
  <2>2. CASE SecondPress
    <3>1. GapOf(sincePress) # "slow" BY <2>2, GapIsInTime DEF SecondPress, Recorded
    <3> QED BY <1>2, <1>3, <2>2, <3>1 DEF SecondPress, ClicksInTime, DoubleClicked
  <2>3. CASE ThirdPress
    <3>1. GapOf(sincePress) = "triple" BY <2>3, GapIsInTime DEF ThirdPress, Recorded
    <3>2. gaps[1] # "slow"
      BY <2>3 DEF ThirdPress, Recorded, ClicksInTime, CompleteIsReal, DoubleClicked
    <3> QED BY <1>2, <1>3, <2>3, <3>1, <3>2 DEF ThirdPress, ClicksInTime, TripleClicked
  <2> QED BY <1>1, <2>1, <2>2, <2>3
<1> QED BY <1>2, <1>4, <1>5 DEF Recorded

LEMMA UpRecorded ==
    ASSUME Inv, Recorded, NEW p \in PointerEvents, p.button = "left", p.action = "up",
           OnPointerEvent(p), RecordPointer(p)
    PROVE  Recorded'
<1>1. /\ sinceClick' = sinceClick /\ leftButton' = "up"
      /\ ToInitial \/ FirstRelease \/ Completes
  BY UpStep DEF Recorded
<1>2. /\ sincePress' = sincePress /\ gaps' = gaps /\ dragged' = dragged
      /\ disturbed' = disturbed /\ ctrlClick' = "none" /\ ctrlMode' = triggered
  BY DEF RecordPointer, Recorded
<1>3. triggered \in BOOLEAN BY DEF Inv, TypeOK
<1>4. PressIsSeen' /\ ButtonOfState' /\ HeldButtonIsFollowed' /\ CtrlIsSeen'
  BY <1>1, <1>2
     DEF Recorded, PressIsSeen, ButtonOfState, HeldButtonIsFollowed, CtrlIsSeen, ToInitial,
         FirstRelease, Completes
<1>5. ClicksInTime'
  BY <1>1, <1>2
     DEF Recorded, ClicksInTime, DoubleClicked, TripleClicked, ToInitial, FirstRelease, Completes
<1>6. CompleteIsReal'
  BY <1>1, <1>2
     DEF Recorded, ClicksInTime, CompleteIsReal, DoubleClicked, TripleClicked, ToInitial,
         FirstRelease, Completes
<1> QED BY <1>2, <1>3, <1>4, <1>5, <1>6 DEF Recorded

LEMMA MoveRecorded ==
    ASSUME Inv, Recorded, NEW p \in PointerEvents, p.button = "left", p.action = "move",
           OnPointerEvent(p), RecordPointer(p)
    PROVE  Recorded'
<1>1. /\ sinceClick' = sinceClick /\ leftButton' = "dragging"
      /\ IF curSelectState \in {"INITIAL", "WORD_END", "DONE"} THEN ToInitial ELSE ToLeftMove
  BY MoveStep DEF Recorded
<1>2. /\ sincePress' = sincePress /\ gaps' = gaps /\ dragged' = TRUE
      /\ disturbed' = disturbed /\ ctrlClick' = ctrlClick /\ ctrlMode' = ctrlMode
  BY DEF RecordPointer, Recorded
<1>3. leftButton # "up" BY DEF OnPointerEvent, Possible
<1>4. HeldButtonIsFollowed'
  BY <1>1, <1>2, <1>3 DEF Recorded, HeldButtonIsFollowed, ToInitial, ToLeftMove
<1>5. PressIsSeen' /\ ButtonOfState' /\ CtrlIsSeen' /\ ClicksInTime' /\ CompleteIsReal'
  BY <1>1, <1>2
     DEF Recorded, PressIsSeen, ButtonOfState, CtrlIsSeen, ClicksInTime, CompleteIsReal,
         ToInitial, ToLeftMove
<1> QED BY <1>2, <1>4, <1>5 DEF Recorded

LEMMA PullRecorded ==
    ASSUME Inv, Recorded, NEW p \in PointerEvents, p.button = "left", p.action = "other",
           OnPointerEvent(p), RecordPointer(p)
    PROVE  Recorded'
<1>1. sinceClick' = sinceClick /\ ToInitial BY PullStep DEF Recorded
<1>2. /\ sincePress' = sincePress /\ dragged' = dragged
      /\ disturbed' = TRUE /\ ctrlClick' = ctrlClick /\ ctrlMode' = ctrlMode
  BY DEF RecordPointer
<1> QED
  BY <1>1, <1>2
     DEF Recorded, PressIsSeen, ButtonOfState, HeldButtonIsFollowed, CtrlIsSeen, ClicksInTime,
         CompleteIsReal, ToInitial

LEMMA OtherRecorded ==
    ASSUME Inv, Recorded, NEW p \in PointerEvents, p.button # "left", p.action # "cross_window",
           OnPointerEvent(p), RecordPointer(p)
    PROVE  Recorded'
<1>1. sinceClick' = sinceClick /\ leftButton' = leftButton /\ (Tolerated \/ ToInitial)
  BY OtherStep
<1>2. /\ sincePress' = sincePress /\ gaps' = gaps /\ dragged' = dragged
      /\ disturbed' = TRUE /\ ctrlClick' = ctrlClick /\ ctrlMode' = ctrlMode
  BY DEF RecordPointer
<1>3. CASE ToInitial
  BY <1>1, <1>2, <1>3
     DEF Recorded, PressIsSeen, ButtonOfState, HeldButtonIsFollowed, CtrlIsSeen, ClicksInTime,
         CompleteIsReal, ToInitial
<1>4. CASE Tolerated
  <2>1. PressIsSeen' /\ ButtonOfState' /\ HeldButtonIsFollowed' /\ CtrlIsSeen'
    BY <1>1, <1>2, <1>4
       DEF Recorded, PressIsSeen, ButtonOfState, HeldButtonIsFollowed, CtrlIsSeen, Tolerated
  <2>2. curSelectState = "DONE" /\ subSelectState = "WAIT_BUTTON_DOWN"
           => selectionInfo_.selectionType = "DOUBLE_CLICKED"
    BY DEF Inv, StatesBelongTogether
  <2>3. subSelectState = "WAIT_BUTTON_OR_CTRL_DOWN" => curSelectState = "WORD_END"
    BY DEF Inv, TypeOK, SelectInputState, StatesBelongTogether
  <2>4. ClicksInTime' /\ CompleteIsReal'
    BY <1>1, <1>2, <1>4, <2>2, <2>3
       DEF Recorded, ClicksInTime, CompleteIsReal, DoubleClicked, TripleClicked, Tolerated
  <2> QED BY <1>2, <2>1, <2>4 DEF Recorded
<1> QED BY <1>1, <1>3, <1>4

LEMMA CrossRecorded ==
    ASSUME Inv, Recorded, NEW p \in PointerEvents, p.action = "cross_window",
           OnPointerEvent(p), RecordPointer(p)
    PROVE  Recorded'
<1>1. UNCHANGED <<monitorVars, leftButton>> BY CrossStep
<1>2. UNCHANGED historyVars
  BY DEF OnPointerEvent, Possible, RecordPointer, Recorded, historyVars, PointerEvents
<1> QED
  BY <1>1, <1>2
     DEF Recorded, PressIsSeen, ButtonOfState, HeldButtonIsFollowed, CtrlIsSeen, ClicksInTime,
         CompleteIsReal, DoubleClicked, TripleClicked, monitorVars, historyVars

LEMMA PointerRecorded ==
    ASSUME Inv, Recorded, NEW p \in PointerEvents, OnPointerEvent(p), RecordPointer(p)
    PROVE  Recorded'
BY DownRecorded, UpRecorded, MoveRecorded, PullRecorded, OtherRecorded, CrossRecorded
   DEF PointerEvents

\* A key changes nothing but a gesture that is complete.
LEMMA KeyStep ==
    ASSUME Inv, NEW k \in KeyEvents, OnKeyEvent(k)
    PROVE  /\ UNCHANGED <<sinceClick, selectionInfo_, leftButton>>
           /\ \/ UNCHANGED gestureVars
              \/ curSelectState \in {"WORD_END", "DONE"} /\ ToInitial
              \/ curSelectState \in {"WORD_END", "DONE"} /\ curSelectState' \in {"WORD_END", "DONE"}
<1>1. subSelectState \in CtrlSubStates => curSelectState = "WORD_END"
  BY DEF Inv, TypeOK, SelectInputState, StatesBelongTogether, CtrlSubStates
<1>2. UNCHANGED <<sinceClick, selectionInfo_, leftButton>> BY DEF OnKeyEvent, ProcessKeyEvent
<1> QED
  BY <1>1, <1>2
     DEF OnKeyEvent, ProcessKeyEvent, CtrlKeyProcess, ResetState, Goto, ToInitial

\* The gesture and the record follow the Ctrl key in the same way.
LEMMA CtrlRecorded ==
    ASSUME Inv, CtrlIsSeen, NEW k \in KeyEvents, OnKeyEvent(k), RecordKey(k)
    PROVE  CtrlIsSeen'
<1>1. /\ k.action \in {"down", "up", "cancel"} /\ k.ctrl \in BOOLEAN /\ k.repeat \in BOOLEAN
      /\ ctrlMode' = ctrlMode
  BY DEF KeyEvents, RecordKey
<1>2. /\ subSelectState \in CtrlSubStates => curSelectState = "WORD_END"
      /\ curSelectState = "DONE" => subSelectState \in {"SUB_INITIAL", "WAIT_BUTTON_DOWN"}
  BY DEF Inv, TypeOK, SelectInputState, StatesBelongTogether, CtrlSubStates
<1>3. CASE curSelectState' = "INITIAL" /\ subSelectState' = "SUB_INITIAL"
  BY <1>3 DEF CtrlIsSeen
<1>4. CASE curSelectState = "DONE" /\ subSelectState # "SUB_INITIAL"
  BY <1>2, <1>4 DEF OnKeyEvent, ProcessKeyEvent, Goto, ResetState, CtrlIsSeen, CtrlSubStates
<1>5. CASE curSelectState # "DONE" /\ subSelectState \notin CtrlSubStates
  BY <1>5 DEF OnKeyEvent, ProcessKeyEvent, gestureVars, Goto, ResetState, CtrlIsSeen, CtrlSubStates
<1>6. CASE /\ curSelectState # "DONE" /\ subSelectState \in CtrlSubStates
           /\ k.ctrl /\ CtrlKeyProcess(k)
  <2>1. CASE k.action = "down" /\ k.repeat /\ UNCHANGED gestureVars
    <3>1. ctrlClick' = ctrlClick BY <1>6, <2>1 DEF RecordKey
    <3> QED BY <1>1, <1>6, <2>1, <3>1 DEF CtrlIsSeen, gestureVars
  <2>2. CASE /\ k.action = "down" /\ ~k.repeat
             /\ Goto(curSelectState, "WAIT_CTRL_UP")
    <3>1. ctrlClick' = "down" BY <1>6, <2>2 DEF RecordKey
    <3> QED BY <1>1, <1>6, <2>2, <3>1 DEF CtrlIsSeen, CtrlSubStates, Goto
  <2>3. CASE /\ k.action = "up" /\ subSelectState = "WAIT_CTRL_UP"
             /\ Goto(IF curSelectState = "WORD_END" THEN "DONE" ELSE curSelectState,
                     "SUB_INITIAL")
    <3>1. ctrlClick' = "clicked" BY <1>6, <2>3 DEF RecordKey, CtrlIsSeen
    <3> QED BY <2>3, <3>1 DEF CtrlIsSeen, Goto
  <2>4. CASE /\ k.action = "up" /\ subSelectState # "WAIT_CTRL_UP" /\ UNCHANGED gestureVars
    <3>1. ctrlClick = "none" BY <1>6, <2>4 DEF CtrlIsSeen, CtrlSubStates
    <3>2. ctrlClick' = ctrlClick BY <1>6, <2>4, <3>1 DEF RecordKey
    <3> QED BY <1>1, <1>6, <2>4, <3>2 DEF CtrlIsSeen, gestureVars
  <2>5. CASE ResetState BY <1>3, <2>5 DEF ResetState, Goto
  <2> QED BY <1>6, <2>1, <2>2, <2>3, <2>4, <2>5 DEF CtrlKeyProcess
<1>7. CASE ResetState BY <1>3, <1>7 DEF ResetState, Goto
<1> QED BY <1>4, <1>5, <1>6, <1>7 DEF OnKeyEvent, ProcessKeyEvent

LEMMA KeyRecorded ==
    ASSUME Inv, Recorded, NEW k \in KeyEvents, OnKeyEvent(k), RecordKey(k)
    PROVE  Recorded'
<1>1. CtrlIsSeen' BY CtrlRecorded DEF Recorded
<1>2. UNCHANGED <<sincePress, gaps, dragged, disturbed, ctrlMode>> BY DEF RecordKey
<1>3. UNCHANGED <<sinceClick, selectionInfo_, leftButton>> BY KeyStep
<1>4. \/ UNCHANGED gestureVars
      \/ curSelectState \in {"WORD_END", "DONE"} /\ ToInitial
      \/ curSelectState \in {"WORD_END", "DONE"} /\ curSelectState' \in {"WORD_END", "DONE"}
  BY KeyStep
<1>5. PressIsSeen' /\ ButtonOfState' /\ HeldButtonIsFollowed'
  BY <1>2, <1>3, <1>4
     DEF Recorded, PressIsSeen, ButtonOfState, HeldButtonIsFollowed, gestureVars, ToInitial
<1>6. ClicksInTime' /\ CompleteIsReal'
  BY <1>2, <1>3, <1>4
     DEF Recorded, ClicksInTime, CompleteIsReal, DoubleClicked, TripleClicked, gestureVars,
         ToInitial
<1> QED BY <1>1, <1>2, <1>5, <1>6 DEF Recorded

LEMMA QuietRecorded ==
    ASSUME Recorded, UNCHANGED <<gestureVars, selectionInfo_, leftButton>>,
           UNCHANGED <<gaps, dragged, disturbed, ctrlClick, ctrlMode>>,
           \/ UNCHANGED <<sinceClick, sincePress>>
           \/ sinceClick' = Older(sinceClick) /\ sincePress' = Older(sincePress)
    PROVE  Recorded'
BY DEF Recorded, PressIsSeen, ButtonOfState, HeldButtonIsFollowed, CtrlIsSeen, ClicksInTime,
       CompleteIsReal, DoubleClicked, TripleClicked, gestureVars

LEMMA HistoryStep == ASSUME HistoryInv, [HistoryNext]_recordVars PROVE HistoryInv'
<1>1. Inv /\ Recorded BY DEF HistoryInv
<1>2. [Next]_vars BY DEF HistoryNext, Next, recordVars
<1>3. Inv' BY <1>1, <1>2, NextInv
<1>4. ASSUME NEW k \in KeyEvents, OnKeyEvent(k), RecordKey(k) PROVE Recorded'
  BY <1>1, <1>4, KeyRecorded
<1>5. ASSUME NEW p \in PointerEvents, OnPointerEvent(p), RecordPointer(p) PROVE Recorded'
  BY <1>1, <1>5, PointerRecorded
<1>6. ASSUME Tick, RecordTick PROVE Recorded'
  <2>1. /\ UNCHANGED <<gestureVars, selectionInfo_, leftButton>>
        /\ UNCHANGED <<gaps, dragged, disturbed, ctrlClick, ctrlMode>>
    BY <1>6 DEF Tick, RecordTick, gestureVars
  <2>2. sinceClick' = Older(sinceClick) /\ sincePress' = Older(sincePress)
    BY <1>6 DEF Tick, RecordTick
  <2> QED BY <1>1, <2>1, <2>2, QuietRecorded
<1>7. ASSUME NEW b \in BOOLEAN, SetTriggered(b), UNCHANGED historyVars PROVE Recorded'
  BY <1>1, <1>7, QuietRecorded DEF SetTriggered, monitorVars, historyVars, gestureVars
<1>8. ASSUME UNCHANGED recordVars PROVE Recorded'
  <2>1. /\ UNCHANGED <<gestureVars, selectionInfo_, leftButton>>
        /\ UNCHANGED <<gaps, dragged, disturbed, ctrlClick, ctrlMode>>
        /\ UNCHANGED <<sinceClick, sincePress>>
    BY <1>8 DEF recordVars, vars, monitorVars, historyVars, gestureVars
  <2> QED BY <1>1, <2>1, QuietRecorded
<1>9. Recorded' BY <1>4, <1>5, <1>6, <1>7, <1>8 DEF HistoryNext
<1> QED BY <1>3, <1>9 DEF HistoryInv

LEMMA HistoryInvariant == HistorySpec => []HistoryInv
<1>1. HistoryInit => HistoryInv
  <2> SUFFICES ASSUME HistoryInit PROVE HistoryInv OBVIOUS
  <2>1. Inv /\ triggered \in BOOLEAN BY InitInv DEF HistoryInit, Init
  <2> QED
    BY <2>1
       DEF HistoryInit, Init, HistoryInv, Recorded, PressIsSeen, ButtonOfState, ClicksInTime,
           CompleteIsReal, CtrlIsSeen, HeldButtonIsFollowed
<1> QED BY <1>1, HistoryStep, PTL DEF HistorySpec

-----------------------------------------------------------------------------
(* The theorems. *)

\* Every selection that is reported was made, for any limits of time: a drag moved,
\* no click did, and the presses of a double or triple click came in time.
THEOREM HistoryReportedGestureIsReal == HistorySpec => []ReportedGestureIsReal
<1>1. HistoryInv => ReportedGestureIsReal
  <2> SUFFICES ASSUME HistoryInv PROVE ReportedGestureIsReal OBVIOUS
  <2>1. selectionInfo_.selectionType \in SelectionType
    BY DEF HistoryInv, Inv, TypeOK, SelectionInfo
  <2> QED
    BY <2>1
       DEF HistoryInv, Recorded, CompleteIsReal, ReportedGestureIsReal, DoubleClicked, TripleClicked,
           SelectionType
<1> QED BY <1>1, HistoryInvariant, PTL

\* In Ctrl mode a selection is reported exactly when Ctrl, and no other key, was
\* clicked after the gesture.
THEOREM HistoryCtrlClickDecides == HistorySpec => []CtrlClickDecides
<1>1. HistoryInv => CtrlClickDecides
  BY DEF HistoryInv, Recorded, CtrlIsSeen, CtrlClickDecides, CtrlSubStates
<1> QED BY <1>1, HistoryInvariant, PTL

\* A press that nothing disturbs is followed from its first event to its release.
THEOREM HistoryHeldButtonIsFollowed == HistorySpec => []HeldButtonIsFollowed
<1>1. HistoryInv => HeldButtonIsFollowed BY DEF HistoryInv, Recorded
<1> QED BY <1>1, HistoryInvariant, PTL

-----------------------------------------------------------------------------
(* Reports: the inductive invariant. *)

\* The input thread is busy only with a gesture that is done.
BusyWithDoneGesture == pc # "idle" => curSelectState = "DONE"

\* Once the wait for the extension is over, what holds now has been seen to hold, and
\* so has what was checked.
SeenSinceTheWait ==
    /\ pc \in {"handled", "unlocked", "enabled", "listening", "allowed"} =>
          /\ ~isScreenLocked_ => "unlocked" \in seen
          /\ enabled => "enabled" \in seen
          /\ listener_ => "listener" \in seen
    /\ pc \in {"unlocked", "enabled", "listening", "allowed"} => "unlocked" \in seen
    /\ pc \in {"enabled", "listening", "allowed"} => "enabled" \in seen
    /\ pc \in {"listening", "allowed"} => "listener" \in seen

\* A gesture that was told is over, or waits for a third press.
ToldGestureIsOver ==
    reported =>
        \/ curSelectState \in {"INITIAL", "DONE"}
        \/ /\ curSelectState \in {"WORD_END", "WAIT_TRIPLE_CLICK"}
           /\ subSelectState = "WAIT_BUTTON_DOWN"

ReportInv ==
    /\ Inv
    /\ OuterTypeOK
    /\ BusyWithDoneGesture
    /\ SeenSinceTheWait
    /\ ToldGestureIsOver

-----------------------------------------------------------------------------
(* What the handlers do to a gesture that is done, or was told. *)

\* No event but a crossing finds a gesture done and leaves it done, and none but a press
\* of the left button leads out of what was told to another report.
LEMMA KeyEndsReport ==
    ASSUME Inv, NEW k \in KeyEvents, OnKeyEvent(k)
    PROVE  /\ curSelectState = "DONE" => curSelectState' # "DONE"
           /\ ToldGestureIsOver /\ reported => /\ curSelectState' # "DONE"
                                               /\ UNCHANGED reported => ToldGestureIsOver'
BY DEF Inv, StatesBelongTogether, OnKeyEvent, ProcessKeyEvent, CtrlKeyProcess, ResetState, Goto,
       gestureVars, ToldGestureIsOver, CtrlSubStates

LEMMA LeftButtonEndsReport ==
    ASSUME Inv, NEW p \in PointerEvents, p.button = "left", Possible(p),
           p.action # "cross_window", LeftButtonProcess(p)
    PROVE  /\ curSelectState = "DONE" => curSelectState' # "DONE"
           /\ ToldGestureIsOver /\ reported /\ p.action # "down" =>
                curSelectState' = "INITIAL"
<1>1. CASE curSelectState = "INITIAL"
    BY <1>1 DEF LeftButtonProcess, InputInitialProcess, monitorVars
<1>2. CASE curSelectState \in {"WORD_END", "DONE"}
    BY <1>2 DEF LeftButtonProcess, InputWordEndProcess, JudgeTripleClick, PressInTime,
                ResetProcess, FirstPress, ResetState, Goto, Inv, PressAwaitedWithButtonUp,
                ToldGestureIsOver, Possible
<1>3. CASE curSelectState = "WAIT_TRIPLE_CLICK"
    BY <1>3 DEF Inv, PressAwaitedWithButtonUp, ToldGestureIsOver, Possible
<1> QED
    BY <1>1, <1>2, <1>3 DEF ToldGestureIsOver

LEMMA PointerEndsReport ==
    ASSUME Inv, NEW p \in PointerEvents, OnPointerEvent(p)
    PROVE  \/ p.action = "cross_window" /\ UNCHANGED gestureVars
           \/ /\ p.action # "cross_window"
              /\ curSelectState = "DONE" => curSelectState' # "DONE"
              /\ ToldGestureIsOver /\ reported /\ ~(p.button = "left" /\ p.action = "down") =>
                   /\ curSelectState' # "DONE"
                   /\ \/ curSelectState' = "INITIAL"
                      \/ /\ curSelectState' \in {"WORD_END", "WAIT_TRIPLE_CLICK"}
                         /\ subSelectState' = "WAIT_BUTTON_DOWN"
<1>1. CASE p.action = "cross_window" /\ UNCHANGED monitorVars
    BY <1>1 DEF monitorVars, gestureVars
<1>2. CASE p.button = "none" /\ p.action = "move" /\ ToleratedMovement(p) /\ ProcessMovement(p)
    BY <1>2 DEF ToleratedMovement, ProcessMovement, Inv, StatesBelongTogether, CtrlSubStates,
                ToldGestureIsOver
<1>3. CASE p.action # "cross_window" /\ p.button # "left" /\ ResetState
    BY <1>3 DEF ResetState, Goto
<1>4. CASE p.action # "cross_window" /\ p.button = "left" /\ LeftButtonProcess(p)
    BY <1>4, LeftButtonEndsReport DEF OnPointerEvent
<1> QED
    BY <1>1, <1>2, <1>3, <1>4 DEF OnPointerEvent, ProcessPointerEvent

\* A press begins something and completes nothing.
LEMMA PressDoesNotComplete ==
    ASSUME Inv, NEW p \in PointerEvents, p.button = "left", p.action = "down", OnPointerEvent(p)
    PROVE  curSelectState' # "DONE"
<1>1. LeftButtonProcess(p)
    BY DEF OnPointerEvent, ProcessPointerEvent
<1>2. CASE curSelectState \in {"WORD_END", "DONE"}
    BY <1>1, <1>2 DEF LeftButtonProcess, InputWordEndProcess, JudgeTripleClick, PressInTime,
                ResetProcess, FirstPress, ResetState, Goto
<1>3. CASE curSelectState \in {"INITIAL", "WORD_BEGIN", "WAIT_LEFT_MOVE"}
    BY <1>1, <1>3 DEF LeftButtonProcess, InputInitialProcess, InputWordBeginProcess,
                InputWordLeftMoveProcess, ResetProcess, FirstPress, Goto, gestureVars
<1>4. CASE curSelectState = "WAIT_DOUBLE_CLICK"
    BY <1>1, <1>4 DEF LeftButtonProcess, InputWordDoubleClickProcess, JudgeTripleClick, PressInTime,
                ResetProcess, FirstPress, Goto, monitorVars
<1>5. CASE curSelectState = "WAIT_TRIPLE_CLICK"
    BY <1>1, <1>5 DEF LeftButtonProcess, InputWordTripleClickProcess, PressInTime,
                ResetProcess, FirstPress, Goto
<1> QED
    BY <1>2, <1>3, <1>4, <1>5 DEF Inv, TypeOK, SelectInputState

-----------------------------------------------------------------------------
(* The steps. *)

LEMMA ReportInit ==
    ASSUME OuterInit
    PROVE  ReportInv
<1>1. Inv
    BY InitInv DEF OuterInit
<1>2. OuterTypeOK
    BY <1>1 DEF OuterInit, OuterTypeOK, Inv
<1> QED
    BY <1>1, <1>2 DEF OuterInit, ReportInv, BusyWithDoneGesture, SeenSinceTheWait, ToldGestureIsOver

\* Around the recogniser nothing happens to it.
LEMMA OuterStepIsMonitorStep ==
    ASSUME OuterNext
    PROVE  [Next]_vars
BY DEF OuterNext, OnInputKeyEvent, OnInputPointerEvent, InputThread, HandleWordSelected,
       CheckScreenLocked, CheckEnable, CheckListener, Check, AllowContent, TellListener,
       CheckFlag, ClearFlag, AskPasteboard, Surroundings, ClockAndTrigger, Next

LEMMA EventKeepsReport ==
    ASSUME ReportInv, Inv',
           \/ \E k \in KeyEvents : OnInputKeyEvent(k)
           \/ \E p \in PointerEvents : OnInputPointerEvent(p)
    PROVE  ReportInv'
<1>1. pc = "idle" /\ AfterEvent
    BY DEF OnInputKeyEvent, OnInputPointerEvent
<1>2. crossing' \in BOOLEAN /\ reported' \in BOOLEAN
    BY DEF OnInputKeyEvent, OnInputPointerEvent, ReportInv, OuterTypeOK
<1>3. OuterTypeOK'
    BY <1>1, <1>2 DEF AfterEvent, serviceVars, ReportInv, OuterTypeOK, Inv
<1>4. BusyWithDoneGesture' /\ SeenSinceTheWait'
    BY <1>1 DEF AfterEvent, BusyWithDoneGesture, SeenSinceTheWait
<1>5. ToldGestureIsOver'
    <2>1. CASE \E k \in KeyEvents : OnInputKeyEvent(k)
        BY <2>1, KeyEndsReport DEF OnInputKeyEvent, ReportInv, ToldGestureIsOver
    <2>2. ASSUME NEW p \in PointerEvents, OnInputPointerEvent(p) PROVE ToldGestureIsOver'
        BY <2>2, PointerEndsReport DEF OnInputPointerEvent, ReportInv, ToldGestureIsOver, gestureVars
    <2> QED
        BY <2>1, <2>2
<1> QED
    BY <1>3, <1>4, <1>5 DEF ReportInv

LEMMA InputThreadKeepsReport ==
    ASSUME ReportInv, Inv', InputThread
    PROVE  ReportInv'
<1> USE DEF ReportInv, Check, vars, monitorVars, gestureVars, serviceVars
<1>1. UNCHANGED <<curSelectState, subSelectState>> /\ pc # "idle"
    BY DEF InputThread, HandleWordSelected, CheckScreenLocked, CheckEnable, CheckListener,
           AllowContent, TellListener
<1>2. OuterTypeOK'
    BY DEF InputThread, HandleWordSelected, CheckScreenLocked, CheckEnable, CheckListener,
           AllowContent, TellListener, OuterTypeOK, Inv, HoldingNext, Conditions
<1>3. BusyWithDoneGesture' /\ ToldGestureIsOver'
    BY <1>1 DEF BusyWithDoneGesture, ToldGestureIsOver
<1>4. SeenSinceTheWait'
    <2>1. CASE HandleWordSelected
        BY <2>1 DEF HandleWordSelected, SeenSinceTheWait, HoldingNext, Conditions
    <2>2. CASE CheckScreenLocked \/ CheckEnable \/ CheckListener
        BY <2>2 DEF CheckScreenLocked, CheckEnable, CheckListener, SeenSinceTheWait
    <2>3. CASE AllowContent \/ TellListener
        BY <2>3 DEF AllowContent, TellListener, SeenSinceTheWait
    <2> QED
        BY <2>1, <2>2, <2>3 DEF InputThread
<1> QED
    BY <1>2, <1>3, <1>4

LEMMA OthersKeepReport ==
    ASSUME ReportInv, Inv',
           \/ \E r \in Readers : CheckFlag(r) \/ ClearFlag(r) \/ AskPasteboard(r)
           \/ Surroundings
           \/ ClockAndTrigger
           \/ UNCHANGED allVars
    PROVE  ReportInv'
<1> USE DEF ReportInv, vars, monitorVars, gestureVars, serviceVars, outerVars, allVars
<1>1. UNCHANGED <<curSelectState, subSelectState, pc, reported>>
    BY DEF CheckFlag, ClearFlag, AskPasteboard, Surroundings, ClockAndTrigger, Tick, SetTriggered
<1>2. OuterTypeOK'
    <2>1. ASSUME NEW r \in Readers, CheckFlag(r) \/ ClearFlag(r) \/ AskPasteboard(r)
          PROVE  OuterTypeOK'
        <3>1. rpc' \in [Readers -> {"idle", "permitted", "asking"}]
            BY <2>1 DEF CheckFlag, ClearFlag, AskPasteboard, OuterTypeOK
        <3>2. canGet' \in BOOLEAN /\ unread' \in BOOLEAN
            BY <2>1 DEF CheckFlag, ClearFlag, AskPasteboard, OuterTypeOK
        <3>3. UNCHANGED <<pc, enabled, isScreenLocked_, listener_, connected, reported, crossing, seen>>
            BY <2>1 DEF CheckFlag, ClearFlag, AskPasteboard
        <3> QED
            BY <3>1, <3>2, <3>3 DEF OuterTypeOK, Inv
    <2>2. CASE Surroundings
        <3>1. seen' \subseteq Conditions
            BY <2>2 DEF Surroundings, OuterTypeOK, HoldingNext
        <3>2. UNCHANGED <<pc, rpc, reported, crossing, unread>>
            BY <2>2 DEF Surroundings
        <3>3. /\ enabled' \in BOOLEAN /\ isScreenLocked_' \in BOOLEAN /\ listener_' \in BOOLEAN
              /\ connected' \in BOOLEAN /\ canGet' \in BOOLEAN
            BY <2>2 DEF Surroundings, OuterTypeOK
        <3> QED
            BY <3>1, <3>2, <3>3 DEF OuterTypeOK, Inv
    <2>3. CASE ClockAndTrigger \/ UNCHANGED allVars
        BY <2>3 DEF ClockAndTrigger, OuterTypeOK, Inv
    <2> QED
        BY <2>1, <2>2, <2>3
<1>3. BusyWithDoneGesture' /\ ToldGestureIsOver'
    BY <1>1 DEF BusyWithDoneGesture, ToldGestureIsOver
<1>4. SeenSinceTheWait'
    <2>1. CASE Surroundings
        BY <2>1 DEF Surroundings, SeenSinceTheWait, HoldingNext, Conditions
    <2>2. CASE UNCHANGED <<pc, isScreenLocked_, enabled, listener_, seen>>
        BY <2>2 DEF SeenSinceTheWait
    <2> QED
        BY <2>1, <2>2 DEF CheckFlag, ClearFlag, AskPasteboard, ClockAndTrigger
<1> QED
    BY <1>2, <1>3, <1>4

LEMMA ReportStep ==
    ASSUME ReportInv, [OuterNext]_allVars
    PROVE  ReportInv'
<1>1. Inv'
    BY OuterStepIsMonitorStep, NextInv DEF ReportInv, allVars
<1> QED
    BY <1>1, EventKeepsReport, InputThreadKeepsReport, OthersKeepReport DEF OuterNext

LEMMA ReportAlways == OuterSpec => []ReportInv
<1>1. OuterInit => ReportInv
    BY ReportInit
<1>2. ReportInv /\ [OuterNext]_allVars => ReportInv'
    BY ReportStep
<1> QED
    BY <1>1, <1>2, PTL DEF OuterSpec

-----------------------------------------------------------------------------
(* The theorems. *)

\* Every variable of the service around the recogniser has its type.
THEOREM ReportTypeCorrect == OuterSpec => []OuterTypeOK
BY ReportAlways, PTL DEF ReportInv

\* A report is based on what held after the wait for the extension, however long that
\* took and whatever changed meanwhile (HandleWordSelected, FinishedWordSelection).
THEOREM ReportChecksFollowTheWait == OuterSpec => []ChecksFollowTheWait
<1>1. ReportInv => ChecksFollowTheWait
    BY DEF ReportInv, SeenSinceTheWait, ChecksFollowTheWait, Conditions, OuterTypeOK
<1> QED
    BY <1>1, ReportAlways, PTL

\* A gesture is told at most once, and by the event that completed it, except when the
\* pointer crosses a border of the window (FinishedWordSelection after every event).
THEOREM ReportOncePerGesture == OuterSpec => OneReportPerGesture
<1> DEFINE Once == pc = "idle" /\ pc' = "selected" =>
                      \/ curSelectState # "DONE" /\ ~reported
                      \/ crossing'
<1>1. ReportInv /\ [OuterNext]_allVars => [Once]_allVars
    <2> SUFFICES ASSUME ReportInv, OuterNext, pc = "idle", pc' = "selected", ~crossing'
                 PROVE  curSelectState # "DONE" /\ ~reported
        OBVIOUS
    <2>1. \/ \E k \in KeyEvents : OnInputKeyEvent(k)
          \/ \E p \in PointerEvents : OnInputPointerEvent(p)
        BY DEF OuterNext, InputThread, HandleWordSelected, CheckScreenLocked, CheckEnable,
               CheckListener, Check, AllowContent, TellListener, CheckFlag, ClearFlag,
               AskPasteboard, Surroundings, ClockAndTrigger, outerVars
    <2>2. curSelectState' = "DONE"
        BY <2>1 DEF OnInputKeyEvent, OnInputPointerEvent, AfterEvent
    <2>3. ASSUME NEW k \in KeyEvents, OnInputKeyEvent(k)
          PROVE  curSelectState # "DONE" /\ ~reported
        BY <2>2, <2>3, KeyEndsReport DEF OnInputKeyEvent, ReportInv
    <2>4. ASSUME NEW p \in PointerEvents, OnInputPointerEvent(p)
          PROVE  curSelectState # "DONE" /\ ~reported
        <3>1. p.action # "cross_window" /\ OnPointerEvent(p)
            BY <2>4 DEF OnInputPointerEvent
        <3>2. curSelectState # "DONE"
            BY <2>2, <3>1, PointerEndsReport DEF ReportInv
        <3>3. CASE p.button = "left" /\ p.action = "down"
            BY <2>2, <3>1, <3>3, PressDoesNotComplete DEF ReportInv
        <3>4. CASE ~(p.button = "left" /\ p.action = "down")
            BY <2>2, <3>1, <3>4, PointerEndsReport DEF ReportInv
        <3> QED
            BY <3>2, <3>3, <3>4
    <2> QED
        BY <2>1, <2>3, <2>4
<1> QED
    BY <1>1, ReportAlways, PTL DEF OuterSpec, OneReportPerGesture

\* However many readers test and clear the flag in two steps each, and however they
\* interleave: a reader is let in only for a report of which no reader has cleared the flag
\* yet.  The flag is up only until the first of them clears it (GetSelectionContent).
THEOREM ReportReadOnce == OuterSpec => NoReadWithoutReport
<1> DEFINE RInv == OuterTypeOK /\ (canGet => unread)
<1>1. OuterInit => RInv
    BY ReportInit DEF OuterInit, ReportInv
<1>2. RInv /\ ReportInv' /\ [OuterNext]_allVars => RInv'
    <2> SUFFICES ASSUME RInv, ReportInv', [OuterNext]_allVars
                 PROVE  (canGet => unread)'
        BY DEF ReportInv
    <2> USE DEF serviceVars
    <2>1. CASE \/ \E k \in KeyEvents : OnInputKeyEvent(k)
               \/ \E p \in PointerEvents : OnInputPointerEvent(p)
        BY <2>1 DEF OnInputKeyEvent, OnInputPointerEvent, AfterEvent
    <2>2. CASE InputThread
        <3>1. CASE AllowContent
            <4>1. unread' = (unread \/ canGet')
                BY <3>1 DEF AllowContent
            <4> QED
                BY <4>1 DEF OuterTypeOK
        <3>2. CASE HandleWordSelected
            BY <3>2 DEF HandleWordSelected
        <3>3. CASE CheckScreenLocked \/ CheckEnable \/ CheckListener \/ TellListener
            BY <3>3 DEF CheckScreenLocked, CheckEnable, CheckListener, Check, TellListener
        <3> QED
            BY <2>2, <3>1, <3>2, <3>3 DEF InputThread
    <2>3. ASSUME NEW r \in Readers, CheckFlag(r) \/ ClearFlag(r) \/ AskPasteboard(r)
          PROVE  (canGet => unread)'
        BY <2>3 DEF CheckFlag, AskPasteboard, ClearFlag
    <2>4. CASE Surroundings
        BY <2>4 DEF Surroundings
    <2>5. CASE ClockAndTrigger \/ UNCHANGED allVars
        BY <2>5 DEF ClockAndTrigger, outerVars, allVars
    <2> QED
        BY <2>1, <2>2, <2>3, <2>4, <2>5 DEF OuterNext
<1>3. ASSUME RInv, [OuterNext]_allVars
      PROVE  [\A r \in Readers : rpc[r] = "idle" /\ rpc'[r] = "permitted" => unread]_allVars
    <2> SUFFICES ASSUME NEW r \in Readers, rpc[r] = "idle", rpc'[r] = "permitted"
                 PROVE  unread
        OBVIOUS
    <2>1. canGet
        <3>1. rpc' # rpc
            OBVIOUS
        <3>2. PICK s \in Readers : CheckFlag(s) \/ ClearFlag(s) \/ AskPasteboard(s)
            BY <1>3, <3>1 DEF OuterNext, OnInputKeyEvent, OnInputPointerEvent, AfterEvent, InputThread,
               HandleWordSelected, CheckScreenLocked, CheckEnable, CheckListener, Check,
               AllowContent, TellListener, Surroundings, ClockAndTrigger, outerVars, allVars
        <3>3. CASE CheckFlag(s)
            BY <3>3 DEF CheckFlag
        <3>4. CASE ClearFlag(s) \/ AskPasteboard(s)
            <4>1. rpc'[r] # "permitted"
                BY <1>3, <3>4 DEF ClearFlag, AskPasteboard, OuterTypeOK
            <4> QED
                BY <4>1
        <3> QED
            BY <3>2, <3>3, <3>4
    <2> QED
        BY <1>3, <2>1
<1> QED
    BY <1>1, <1>2, <1>3, ReportAlways, PTL DEF OuterSpec, NoReadWithoutReport

-----------------------------------------------------------------------------
(* The plugin library. *)

Pcs == {"load", "share"} \cup Sharing
Activity ==
  {Resting}
  \cup [pc : Pcs, op : {"save"}, uid : RowUids, value : RowValues]
  \cup [pc : Pcs, op : {"get"}, uid : RowUids, value : RowValues \cup {NoRow}]
  \cup [pc : Pcs, op : {"allow", "content", "connect"}]

Rows == [RowUids -> RowValues \cup {NoRow}]

\* Type correctness, and what is always true of the library and of the store.
ModulesTypeOK ==
  /\ libraryLoaded \in BOOLEAN /\ storeOpen \in BOOLEAN /\ stuck \in BOOLEAN
  /\ rows \in Rows /\ transaction \in Rows \cup {NoTransaction}
  /\ using \in [PluginCallers -> Activity]

OneTransaction ==
  \A c, d \in PluginCallers : In(c, TransactionSteps) /\ In(d, TransactionSteps) => c = d

OpenWhileInside ==
  /\ stuck => NoneIn(OpenSteps) /\ transaction # NoTransaction
  /\ \A c \in PluginCallers : In(c, OpenSteps) => transaction # NoTransaction
  /\ ~stuck /\ NoneIn(OpenSteps) => transaction = NoTransaction

TransactionIsOurs ==
  \A c \in PluginCallers :
    /\ In(c, {"update", "insert"}) => using[c].op = "save" /\ transaction = rows
    /\ In(c, {"query"}) => using[c].op = "get" /\ transaction = rows
    /\ In(c, {"commit"}) =>
         /\ using[c].op \in DatabaseOps
         /\ using[c].op = "get" => transaction = rows
         /\ using[c].op = "save" => transaction = [rows EXCEPT ![using[c].uid] = using[c].value]
    /\ In(c, {"read"}) => using[c].op = "get"
    /\ In(c, {"rollback"}) => using[c].op \in DatabaseOps

\* Nobody is in a module that was dropped, or in a library that was unloaded.
InsideIsLoaded ==
  /\ \A c \in PluginCallers :
       /\ In(c, Sharing) => libraryLoaded
       /\ In(c, InModule) => ModuleOf(using[c].op) \in readyModules
  /\ "database" \in readyModules => storeOpen
  /\ storeOpen => tableVersion = 2
  /\ contentFlag => "pasteboard" \in readyModules

RowsAreAcknowledged ==
  /\ rows = acknowledged
  /\ \A c \in PluginCallers :
       In(c, {"commit", "read"}) /\ using[c].op = "get" => using[c].value = rows[using[c].uid]

ModulesInv ==
  /\ ModulesTypeOK /\ OneTransaction /\ OpenWhileInside /\ TransactionIsOurs
  /\ InsideIsLoaded /\ RowsAreAcknowledged

-----------------------------------------------------------------------------
(* What a step does to the caller that takes it                            *)

\* A configuration has a row to go to: the rows are never NoTransaction.
LEMMA RowsAreNoTransaction ==
  ASSUME NEW r \in Rows PROVE r # NoTransaction
BY ModulesAssumption DEF Rows, NoTransaction

\* A caller inside a call stays in the same call.
LEMMA Moved ==
  ASSUME ModulesTypeOK, NEW c \in PluginCallers, ~In(c, {"idle"}), NEW label \in Pcs, NowAt(c, label)
  PROVE  /\ using' \in [PluginCallers -> Activity]
         /\ using'[c].pc = label /\ using'[c].op = using[c].op
         /\ using[c].op \in DatabaseOps =>
              using'[c].uid = using[c].uid /\ using'[c].value = using[c].value
         /\ \A d \in PluginCallers \ {c} : using'[d] = using[d]
<1>1. using[c] \in Activity \ {Resting}
  BY DEF ModulesTypeOK, In, Resting
<1>2. using' = [using EXCEPT ![c] = [using[c] EXCEPT !.pc = label]]
  BY DEF ModulesTypeOK, NowAt
<1>3. [using[c] EXCEPT !.pc = label] \in Activity
  <2>1. CASE using[c] \in [pc : Pcs, op : {"save"}, uid : RowUids, value : RowValues]
    BY <2>1 DEF Activity
  <2>2. CASE using[c] \in [pc : Pcs, op : {"get"}, uid : RowUids, value : RowValues \cup {NoRow}]
    BY <2>2 DEF Activity
  <2>3. CASE using[c] \in [pc : Pcs, op : {"allow", "content", "connect"}]
    BY <2>3 DEF Activity
  <2> QED BY <1>1, <2>1, <2>2, <2>3 DEF Activity
<1>4. using \in [PluginCallers -> Activity]
  BY DEF ModulesTypeOK
<1>5. /\ using'[c] = [using[c] EXCEPT !.pc = label]
      /\ \A d \in PluginCallers \ {c} : using'[d] = using[d]
      /\ using' \in [PluginCallers -> Activity]
  BY <1>2, <1>3, <1>4
<1>6. /\ [using[c] EXCEPT !.pc = label].pc = label
      /\ [using[c] EXCEPT !.pc = label].op = using[c].op
      /\ using[c].op \in DatabaseOps =>
           /\ [using[c] EXCEPT !.pc = label].uid = using[c].uid
           /\ [using[c] EXCEPT !.pc = label].value = using[c].value
  BY <1>1 DEF Activity, DatabaseOps
<1> QED BY <1>5, <1>6

\* One that returns rests.
LEMMA Returned ==
  ASSUME ModulesTypeOK, NEW c \in PluginCallers, Done(c)
  PROVE  /\ using' \in [PluginCallers -> Activity] /\ using'[c] = Resting
         /\ \A d \in PluginCallers \ {c} : using'[d] = using[d]
BY DEF ModulesTypeOK, Done, Activity


\* What a configuration call is about.
LEMMA RowOfCall ==
  ASSUME ModulesTypeOK, NEW c \in PluginCallers, ~In(c, {"idle"}), using[c].op \in DatabaseOps
  PROVE  /\ using[c].uid \in RowUids
         /\ using[c].value \in RowValues \cup {NoRow}
BY DEF ModulesTypeOK, In, Activity, Resting, DatabaseOps

\* A step that is in no transaction, before it or after it.
LEMMA Elsewhere ==
  ASSUME ModulesInv, NEW c \in PluginCallers,
         \A d \in PluginCallers \ {c} : using'[d] = using[d],
         ~In(c, TransactionSteps), ~In(c, TransactionSteps)',
         UNCHANGED <<rows, transaction, acknowledged, stuck>>
  PROVE  OneTransaction' /\ OpenWhileInside' /\ TransactionIsOurs' /\ RowsAreAcknowledged'
<1> USE DEF ModulesInv, In, OpenSteps, TransactionSteps
<1>1. OneTransaction'
  BY DEF OneTransaction
<1>2. OpenWhileInside'
  BY DEF OpenWhileInside, NoneIn
<1>3. TransactionIsOurs'
  BY DEF TransactionIsOurs, DatabaseOps
<1>4. RowsAreAcknowledged'
  BY DEF RowsAreAcknowledged
<1> QED BY <1>1, <1>2, <1>3, <1>4

\* A step of a transaction: nobody else is in one, and the library stays as it is.
LEMMA Inside ==
  ASSUME ModulesInv, NEW c \in PluginCallers,
         \A d \in PluginCallers \ {c} : using'[d] = using[d],
         In(c, TransactionSteps),
         In(c, TransactionSteps)' => using'[c].op = using[c].op,
         In(c, Sharing)' => In(c, TransactionSteps)',
         UNCHANGED <<libraryLoaded, readyModules, storeOpen, tableVersion, contentFlag>>
  PROVE  /\ \A d \in PluginCallers \ {c} : ~In(d, TransactionSteps) /\ ~In(d, TransactionSteps)'
         /\ OneTransaction' /\ InsideIsLoaded'
<1>1. \A d \in PluginCallers \ {c} : ~In(d, TransactionSteps) /\ ~In(d, TransactionSteps)'
  BY DEF ModulesInv, OneTransaction, In
<1>2. OneTransaction'
  BY <1>1 DEF OneTransaction
<1>3. InsideIsLoaded'
  BY DEF ModulesInv, InsideIsLoaded, In, Sharing, InModule, TransactionSteps
<1> QED BY <1>1, <1>2, <1>3

\* A call that begins.
LEMMA RequestKeeps ==
  ASSUME ModulesInv, NEW c \in PluginCallers, Request(c) PROVE ModulesInv'
<1> USE DEF In, Pcs, OpenSteps, TransactionSteps, InModule, Sharing
<1>1. /\ using' \in [PluginCallers -> Activity]
      /\ \A d \in PluginCallers \ {c} : using'[d] = using[d]
      /\ ~In(c, TransactionSteps) /\ ~In(c, TransactionSteps)'
  BY DEF ModulesInv, ModulesTypeOK, Request, Activity, SaveDatabaseConfig, GetDatabaseConfig,
     SetPasteboardFlag, GetPasteboardContent, UseExtAbility
<1>2. ModulesTypeOK'
  BY <1>1 DEF ModulesInv, ModulesTypeOK, Request
<1>3. OneTransaction' /\ OpenWhileInside' /\ TransactionIsOurs' /\ RowsAreAcknowledged'
  BY <1>1, Elsewhere DEF Request
<1>4. InsideIsLoaded'
  BY <1>1 DEF ModulesInv, ModulesTypeOK, InsideIsLoaded, Request, SaveDatabaseConfig, GetDatabaseConfig,
     SetPasteboardFlag, GetPasteboardContent, UseExtAbility
<1> QED BY <1>2, <1>3, <1>4 DEF ModulesInv

\* The library is loaded only while nobody is inside.
LEMMA LoadKeeps ==
  ASSUME ModulesInv, NEW c \in PluginCallers, LoadPluginSo(c) PROVE ModulesInv'
<1> USE DEF In, Pcs, OpenSteps, TransactionSteps, InModule, Sharing
<1>1. /\ using' \in [PluginCallers -> Activity]
      /\ \A d \in PluginCallers \ {c} : using'[d] = using[d]
      /\ ~In(c, TransactionSteps) /\ ~In(c, TransactionSteps)'
  BY Moved, Returned DEF ModulesInv, LoadPluginSo, Resting
<1>2. ModulesTypeOK'
  BY <1>1 DEF ModulesInv, ModulesTypeOK, LoadPluginSo
<1>3. OneTransaction' /\ OpenWhileInside' /\ TransactionIsOurs' /\ RowsAreAcknowledged'
  BY <1>1, Elsewhere DEF LoadPluginSo
<1>4. InsideIsLoaded'
  BY <1>1, Moved, Returned DEF ModulesInv, InsideIsLoaded, LoadPluginSo, NoneIn, Resting
<1> QED BY <1>2, <1>3, <1>4 DEF ModulesInv

\* Nobody goes inside a library that is not loaded.
LEMMA ShareKeeps ==
  ASSUME ModulesInv, NEW c \in PluginCallers, Share(c) PROVE ModulesInv'
<1> USE DEF In, Pcs, OpenSteps, TransactionSteps, InModule, Sharing
<1>1. /\ using' \in [PluginCallers -> Activity]
      /\ \A d \in PluginCallers \ {c} : using'[d] = using[d]
      /\ ~In(c, TransactionSteps) /\ ~In(c, TransactionSteps)'
  BY Moved, Returned DEF ModulesInv, Share, Resting
<1>2. ModulesTypeOK'
  BY <1>1 DEF ModulesInv, ModulesTypeOK, Share
<1>3. OneTransaction' /\ OpenWhileInside' /\ TransactionIsOurs' /\ RowsAreAcknowledged'
  BY <1>1, Elsewhere DEF Share
<1>4. InsideIsLoaded'
  BY <1>1, Moved, Returned DEF ModulesInv, InsideIsLoaded, Share, Resting
<1> QED BY <1>2, <1>3, <1>4 DEF ModulesInv

\* A module is created before a caller is in it.
LEMMA EnsureKeeps ==
  ASSUME ModulesInv, NEW c \in PluginCallers, Ensure(c) PROVE ModulesInv'
<1> USE DEF In, Pcs, OpenSteps, TransactionSteps, InModule, Sharing
<1>1. /\ using' \in [PluginCallers -> Activity]
      /\ \A d \in PluginCallers \ {c} : using'[d] = using[d]
      /\ ~In(c, TransactionSteps) /\ ~In(c, TransactionSteps)'
  BY Moved, Returned DEF ModulesInv, Ensure, Resting
<1>2. ModulesTypeOK'
  BY <1>1 DEF ModulesInv, ModulesTypeOK, Ensure, OpenStore
<1>3. OneTransaction' /\ OpenWhileInside' /\ TransactionIsOurs' /\ RowsAreAcknowledged'
  BY <1>1, Elsewhere DEF Ensure
<1>4. InsideIsLoaded'
  BY <1>1, Moved, Returned DEF ModulesInv, InsideIsLoaded, Ensure, OpenStore, Resting
<1> QED BY <1>2, <1>3, <1>4 DEF ModulesInv

\* The flag of the pasteboard module goes with the module.
LEMMA AllowKeeps ==
  ASSUME ModulesInv, NEW c \in PluginCallers, SetCanGetSelectionContentFlag(c) PROVE ModulesInv'
<1> USE DEF In, Pcs, OpenSteps, TransactionSteps, InModule, Sharing
<1>1. /\ using' \in [PluginCallers -> Activity]
      /\ \A d \in PluginCallers \ {c} : using'[d] = using[d]
      /\ ~In(c, TransactionSteps) /\ ~In(c, TransactionSteps)'
  BY Returned DEF ModulesInv, SetCanGetSelectionContentFlag, Resting
<1>2. ModulesTypeOK'
  BY <1>1 DEF ModulesInv, ModulesTypeOK, SetCanGetSelectionContentFlag
<1>3. OneTransaction' /\ OpenWhileInside' /\ TransactionIsOurs' /\ RowsAreAcknowledged'
  BY <1>1, Elsewhere DEF SetCanGetSelectionContentFlag
<1>4. InsideIsLoaded'
  BY <1>1, Returned DEF ModulesInv, InsideIsLoaded, SetCanGetSelectionContentFlag, Resting,
     ModuleOf, DatabaseOps, PasteboardOps
<1> QED BY <1>2, <1>3, <1>4 DEF ModulesInv

\* Calls that leave nothing in the library.
LEMMA CallKeeps ==
  ASSUME ModulesInv, NEW c \in PluginCallers, CallThrough(c) PROVE ModulesInv'
<1> USE DEF In, Pcs, OpenSteps, TransactionSteps, InModule, Sharing
<1>1. /\ using' \in [PluginCallers -> Activity]
      /\ \A d \in PluginCallers \ {c} : using'[d] = using[d]
      /\ ~In(c, TransactionSteps) /\ ~In(c, TransactionSteps)'
  BY Returned DEF ModulesInv, CallThrough, Resting
<1>2. ModulesTypeOK'
  BY <1>1 DEF ModulesInv, ModulesTypeOK, CallThrough
<1>3. OneTransaction' /\ OpenWhileInside' /\ TransactionIsOurs' /\ RowsAreAcknowledged'
  BY <1>1, Elsewhere DEF CallThrough
<1>4. InsideIsLoaded'
  BY <1>1, Returned DEF ModulesInv, InsideIsLoaded, CallThrough, Resting
<1> QED BY <1>2, <1>3, <1>4 DEF ModulesInv

-----------------------------------------------------------------------------
(* Transactions                                                            *)

\* A transaction begins with the committed rows, and only when there is none.
LEMMA BeginKeeps ==
  ASSUME ModulesInv, NEW c \in PluginCallers, BeginTransaction(c) PROVE ModulesInv'
<1> USE DEF In, Pcs, OpenSteps, TransactionSteps, InModule, Sharing
<1>1. CASE Done(c) /\ UNCHANGED transaction
  <2>1. /\ using' \in [PluginCallers -> Activity]
        /\ \A d \in PluginCallers \ {c} : using'[d] = using[d]
        /\ ~In(c, TransactionSteps) /\ ~In(c, Sharing)'
    BY <1>1, Returned DEF ModulesInv, BeginTransaction, Resting
  <2>2. OneTransaction' /\ OpenWhileInside' /\ TransactionIsOurs' /\ RowsAreAcknowledged'
    BY <1>1, <2>1, Elsewhere DEF BeginTransaction
  <2>3. ModulesTypeOK' /\ InsideIsLoaded'
    BY <1>1, <2>1 DEF ModulesInv, ModulesTypeOK, InsideIsLoaded, BeginTransaction
  <2> QED BY <2>2, <2>3 DEF ModulesInv
<1>2. CASE /\ transaction = NoTransaction /\ transaction' = rows
           /\ NowAt(c, IF using[c].op = "save" THEN "update" ELSE "query")
  <2>1. /\ using' \in [PluginCallers -> Activity]
        /\ using'[c].pc = (IF using[c].op = "save" THEN "update" ELSE "query")
        /\ using'[c].op = using[c].op
        /\ \A d \in PluginCallers \ {c} : using'[d] = using[d]
    BY <1>2, Moved DEF ModulesInv, BeginTransaction
  <2>2. \A d \in PluginCallers \ {c} : ~In(d, TransactionSteps) /\ ~In(d, TransactionSteps)'
    BY <2>1 DEF BeginTransaction, NoneIn
  <2>3. rows \in Rows /\ transaction' # NoTransaction
    BY <1>2, RowsAreNoTransaction DEF ModulesInv, ModulesTypeOK
  <2>4. ~stuck
    BY <1>2 DEF ModulesInv, OpenWhileInside
  <2>5. ModulesTypeOK' /\ InsideIsLoaded'
    BY <1>2, <2>1, <2>3 DEF ModulesInv, ModulesTypeOK, InsideIsLoaded, BeginTransaction
  <2>6. OneTransaction' /\ OpenWhileInside'
    BY <1>2, <2>1, <2>2, <2>3, <2>4 DEF OneTransaction, OpenWhileInside, NoneIn, BeginTransaction
  <2>7. TransactionIsOurs' /\ RowsAreAcknowledged'
    BY <1>2, <2>1, <2>2 DEF ModulesInv, TransactionIsOurs, RowsAreAcknowledged, BeginTransaction,
       DatabaseOps
  <2> QED BY <2>5, <2>6, <2>7 DEF ModulesInv
<1> QED BY <1>1, <1>2 DEF BeginTransaction

\* Update writes what the transaction will leave, or leaves the row to Insert.
LEMMA UpdateKeeps ==
  ASSUME ModulesInv, NEW c \in PluginCallers, Update(c) PROVE ModulesInv'
<1> USE DEF In, Pcs, OpenSteps, TransactionSteps, InModule, Sharing
<1>1. /\ using' \in [PluginCallers -> Activity]
      /\ using'[c].pc \in {"insert", "commit", "rollback"} /\ using'[c].op = using[c].op
      /\ using[c].op \in DatabaseOps =>
           using'[c].uid = using[c].uid /\ using'[c].value = using[c].value
      /\ \A d \in PluginCallers \ {c} : using'[d] = using[d]
  BY Moved DEF ModulesInv, Update
<1>2. /\ using[c].op = "save" /\ transaction = rows /\ rows \in Rows
      /\ using[c].uid \in RowUids /\ using[c].value \in RowValues \cup {NoRow}
  BY RowOfCall DEF ModulesInv, ModulesTypeOK, Update, TransactionIsOurs, DatabaseOps
<1>3. transaction' \in Rows /\ transaction' # NoTransaction
  BY <1>2, RowsAreNoTransaction DEF Update, Written, Rows
<1>4. /\ \A d \in PluginCallers \ {c} : ~In(d, TransactionSteps) /\ ~In(d, TransactionSteps)'
      /\ OneTransaction' /\ InsideIsLoaded'
  BY <1>1, Inside DEF Update
<1>5. ModulesTypeOK'
  BY <1>1, <1>3 DEF ModulesInv, ModulesTypeOK, Update
<1>6. OpenWhileInside'
  BY <1>1, <1>3, <1>4 DEF ModulesInv, OpenWhileInside, Update, NoneIn
<1>7. TransactionIsOurs'
  <2>1. CASE NowAt(c, "commit") /\ transaction' = Written(c)
    <3>1. using'[c].pc = "commit"
      BY <2>1, Moved DEF ModulesInv, Update
    <3> QED BY <1>1, <1>2, <1>4, <2>1, <3>1 DEF TransactionIsOurs, Update, Written, DatabaseOps
  <2>2. CASE NowAt(c, "insert") /\ UNCHANGED transaction
    <3>1. using'[c].pc = "insert"
      BY <2>2, Moved DEF ModulesInv, Update
    <3> QED BY <1>1, <1>2, <1>4, <2>2, <3>1 DEF TransactionIsOurs, Update, DatabaseOps
  <2>3. CASE NowAt(c, "rollback") /\ UNCHANGED transaction
    <3>1. using'[c].pc = "rollback"
      BY <2>3, Moved DEF ModulesInv, Update
    <3> QED BY <1>1, <1>2, <1>4, <2>3, <3>1 DEF TransactionIsOurs, Update, DatabaseOps
  <2> QED BY <2>1, <2>2, <2>3 DEF Update
<1>8. RowsAreAcknowledged'
  BY <1>1, <1>2, <1>4 DEF ModulesInv, RowsAreAcknowledged, Update
<1> QED BY <1>4, <1>5, <1>6, <1>7, <1>8 DEF ModulesInv

\* Insert writes it, or the transaction is rolled back.
LEMMA InsertKeeps ==
  ASSUME ModulesInv, NEW c \in PluginCallers, Insert(c) PROVE ModulesInv'
<1> USE DEF In, Pcs, OpenSteps, TransactionSteps, InModule, Sharing
<1>1. /\ using' \in [PluginCallers -> Activity]
      /\ using'[c].pc \in {"commit", "rollback"} /\ using'[c].op = using[c].op
      /\ using[c].op \in DatabaseOps =>
           using'[c].uid = using[c].uid /\ using'[c].value = using[c].value
      /\ \A d \in PluginCallers \ {c} : using'[d] = using[d]
  BY Moved DEF ModulesInv, Insert
<1>2. /\ using[c].op = "save" /\ transaction = rows /\ rows \in Rows
      /\ using[c].uid \in RowUids /\ using[c].value \in RowValues \cup {NoRow}
  BY RowOfCall DEF ModulesInv, ModulesTypeOK, Insert, TransactionIsOurs, DatabaseOps
<1>3. transaction' \in Rows /\ transaction' # NoTransaction
  BY <1>2, RowsAreNoTransaction DEF Insert, Written, Rows
<1>4. /\ \A d \in PluginCallers \ {c} : ~In(d, TransactionSteps) /\ ~In(d, TransactionSteps)'
      /\ OneTransaction' /\ InsideIsLoaded'
  BY <1>1, Inside DEF Insert
<1>5. ModulesTypeOK'
  BY <1>1, <1>3 DEF ModulesInv, ModulesTypeOK, Insert
<1>6. OpenWhileInside'
  BY <1>1, <1>3, <1>4 DEF ModulesInv, OpenWhileInside, Insert, NoneIn
<1>7. TransactionIsOurs'
  <2>1. CASE NowAt(c, "commit") /\ transaction' = Written(c)
    <3>1. using'[c].pc = "commit"
      BY <2>1, Moved DEF ModulesInv, Insert
    <3> QED BY <1>1, <1>2, <1>4, <2>1, <3>1 DEF TransactionIsOurs, Insert, Written, DatabaseOps
  <2>2. CASE NowAt(c, "rollback") /\ UNCHANGED transaction
    <3>1. using'[c].pc = "rollback"
      BY <2>2, Moved DEF ModulesInv, Insert
    <3> QED BY <1>1, <1>2, <1>4, <2>2, <3>1 DEF TransactionIsOurs, Insert, DatabaseOps
  <2> QED BY <2>1, <2>2 DEF Insert
<1>8. RowsAreAcknowledged'
  BY <1>1, <1>2, <1>4 DEF ModulesInv, RowsAreAcknowledged, Insert
<1> QED BY <1>4, <1>5, <1>6, <1>7, <1>8 DEF ModulesInv

\* A query takes the row of the open transaction, which is the committed one.
LEMMA QueryKeeps ==
  ASSUME ModulesInv, NEW c \in PluginCallers, Query(c) PROVE ModulesInv'
<1> USE DEF In, Pcs, OpenSteps, TransactionSteps, InModule, Sharing
<1>1. using[c].op = "get" /\ transaction = rows /\ rows \in Rows /\ using[c].uid \in RowUids
  BY RowOfCall DEF ModulesInv, ModulesTypeOK, Query, TransactionIsOurs, DatabaseOps
<1>2. /\ using' \in [PluginCallers -> Activity]
      /\ using'[c].op = "get" /\ using'[c].uid = using[c].uid
      /\ \/ using'[c].pc = "commit" /\ using'[c].value = rows[using[c].uid]
         \/ using'[c].pc = "rollback"
      /\ \A d \in PluginCallers \ {c} : using'[d] = using[d]
  <2>1. CASE NowAt(c, "rollback")
    BY <1>1, <2>1, Moved DEF ModulesInv, Query, DatabaseOps
  <2>2. CASE using' = [using EXCEPT ![c].pc = "commit", ![c].value = transaction[using[c].uid]]
    <3>1. using[c] \in [pc : Pcs, op : {"get"}, uid : RowUids, value : RowValues \cup {NoRow}]
      BY <1>1 DEF ModulesInv, ModulesTypeOK, Query, Activity, Resting
    <3>2. rows[using[c].uid] \in RowValues \cup {NoRow}
      BY <1>1 DEF Rows
    <3> DEFINE answer == [using[c] EXCEPT !.pc = "commit", !.value = rows[using[c].uid]]
    <3>3. answer \in Activity /\ answer.pc = "commit" /\ answer.op = "get"
          /\ answer.uid = using[c].uid /\ answer.value = rows[using[c].uid]
      BY <3>1, <3>2 DEF Activity
    <3>4. using' = [using EXCEPT ![c] = answer]
      BY <1>1, <2>2 DEF ModulesInv, ModulesTypeOK
    <3> QED BY <3>3, <3>4 DEF ModulesInv, ModulesTypeOK
  <2> QED BY <2>1, <2>2 DEF Query
<1>3. /\ \A d \in PluginCallers \ {c} : ~In(d, TransactionSteps) /\ ~In(d, TransactionSteps)'
      /\ OneTransaction' /\ InsideIsLoaded'
  BY <1>1, <1>2, Inside DEF Query
<1>4. ModulesTypeOK'
  BY <1>2 DEF ModulesInv, ModulesTypeOK, Query
<1>5. OpenWhileInside'
  BY <1>2, <1>3 DEF ModulesInv, OpenWhileInside, Query, NoneIn
<1>6. TransactionIsOurs' /\ RowsAreAcknowledged'
  BY <1>1, <1>2, <1>3 DEF ModulesInv, TransactionIsOurs, RowsAreAcknowledged, Query, DatabaseOps
<1> QED BY <1>3, <1>4, <1>5, <1>6 DEF ModulesInv

\* What is committed is what is acknowledged; a commit that fails changes neither.
LEMMA CommitKeeps ==
  ASSUME ModulesInv, NEW c \in PluginCallers, Commit(c) PROVE ModulesInv'
<1> USE DEF In, Pcs, OpenSteps, TransactionSteps, InModule, Sharing
<1>1. /\ using[c].op \in DatabaseOps /\ using[c].uid \in RowUids
      /\ using[c].value \in RowValues \cup {NoRow} /\ rows = acknowledged
      /\ rows \in Rows /\ transaction \in Rows \cup {NoTransaction} /\ transaction # NoTransaction /\ ~stuck
      /\ using[c].op = "get" => transaction = rows /\ using[c].value = rows[using[c].uid]
      /\ using[c].op = "save" => transaction = [rows EXCEPT ![using[c].uid] = using[c].value]
  BY RowOfCall DEF ModulesInv, ModulesTypeOK, Commit, TransactionIsOurs, OpenWhileInside,
     RowsAreAcknowledged, NoneIn
<1>2. CASE /\ rows' = transaction /\ transaction' = NoTransaction
           /\ IF using[c].op = "get" THEN NowAt(c, "read") ELSE Done(c)
           /\ acknowledged' = IF using[c].op = "save"
                              THEN [acknowledged EXCEPT ![using[c].uid] = using[c].value]
                              ELSE acknowledged
  <2>1. rows' \in Rows /\ rows' = acknowledged'
    BY <1>1, <1>2 DEF DatabaseOps
  <2>2. /\ using' \in [PluginCallers -> Activity]
        /\ \/ /\ using'[c].pc = "read" /\ using'[c].op = "get" /\ using[c].op = "get"
              /\ using'[c].uid = using[c].uid /\ using'[c].value = using[c].value
           \/ using'[c] = Resting
        /\ \A d \in PluginCallers \ {c} : using'[d] = using[d]
    BY <1>1, <1>2, Moved, Returned DEF ModulesInv, Commit, DatabaseOps
  <2>3. /\ \A d \in PluginCallers \ {c} : ~In(d, TransactionSteps) /\ ~In(d, TransactionSteps)'
        /\ OneTransaction' /\ InsideIsLoaded'
    BY <2>2, Inside DEF Commit, Resting
  <2>4. ModulesTypeOK'
    BY <1>2, <2>1, <2>2 DEF ModulesInv, ModulesTypeOK, Commit
  <2>5. OpenWhileInside'
    BY <1>1, <1>2, <2>2, <2>3 DEF OpenWhileInside, Commit, NoneIn, Resting
  <2>6. TransactionIsOurs' /\ RowsAreAcknowledged'
    BY <1>1, <1>2, <2>1, <2>2, <2>3 DEF TransactionIsOurs, RowsAreAcknowledged, Resting
  <2> QED BY <2>3, <2>4, <2>5, <2>6 DEF ModulesInv
<1>3. CASE NowAt(c, "rollback") /\ UNCHANGED <<rows, transaction, acknowledged>>
  <2>1. /\ using' \in [PluginCallers -> Activity]
        /\ using'[c].pc = "rollback" /\ using'[c].op = using[c].op
        /\ \A d \in PluginCallers \ {c} : using'[d] = using[d]
    BY <1>3, Moved DEF ModulesInv, Commit
  <2>2. /\ \A d \in PluginCallers \ {c} : ~In(d, TransactionSteps) /\ ~In(d, TransactionSteps)'
        /\ OneTransaction' /\ InsideIsLoaded'
    BY <2>1, Inside DEF Commit
  <2>3. ModulesTypeOK'
    BY <1>3, <2>1 DEF ModulesInv, ModulesTypeOK, Commit
  <2>4. OpenWhileInside' /\ TransactionIsOurs' /\ RowsAreAcknowledged'
    BY <1>1, <1>3, <2>1, <2>2 DEF OpenWhileInside, TransactionIsOurs, RowsAreAcknowledged, Commit, NoneIn
  <2> QED BY <2>2, <2>3, <2>4 DEF ModulesInv
<1> QED BY <1>2, <1>3 DEF Commit

\* The answer is read after the transaction has ended.
LEMMA ReadKeeps ==
  ASSUME ModulesInv, NEW c \in PluginCallers, ProcessQueryResult(c) PROVE ModulesInv'
<1> USE DEF In, Pcs, OpenSteps, TransactionSteps, InModule, Sharing
<1>1. /\ using' \in [PluginCallers -> Activity] /\ using'[c] = Resting
      /\ \A d \in PluginCallers \ {c} : using'[d] = using[d]
  BY Returned DEF ModulesInv, ProcessQueryResult
<1>2. /\ \A d \in PluginCallers \ {c} : ~In(d, TransactionSteps) /\ ~In(d, TransactionSteps)'
      /\ OneTransaction' /\ InsideIsLoaded'
  BY <1>1, Inside DEF ProcessQueryResult, Resting
<1>3. ModulesTypeOK'
  BY <1>1 DEF ModulesInv, ModulesTypeOK, ProcessQueryResult
<1>4. OpenWhileInside' /\ TransactionIsOurs' /\ RowsAreAcknowledged'
  BY <1>1, <1>2 DEF ModulesInv, OpenWhileInside, TransactionIsOurs, RowsAreAcknowledged, NoneIn,
     ProcessQueryResult, Resting
<1> QED BY <1>2, <1>3, <1>4 DEF ModulesInv

\* A roll-back ends the transaction, or leaves it open for good.
LEMMA RollBackKeeps ==
  ASSUME ModulesInv, NEW c \in PluginCallers, RollBack(c) PROVE ModulesInv'
<1> USE DEF In, Pcs, OpenSteps, TransactionSteps, InModule, Sharing
<1>1. /\ using' \in [PluginCallers -> Activity] /\ using'[c] = Resting
      /\ \A d \in PluginCallers \ {c} : using'[d] = using[d]
  BY Returned DEF ModulesInv, RollBack
<1>2. /\ \A d \in PluginCallers \ {c} : ~In(d, TransactionSteps) /\ ~In(d, TransactionSteps)'
      /\ OneTransaction' /\ InsideIsLoaded'
  BY <1>1, Inside DEF RollBack, Resting
<1>3. ModulesTypeOK'
  BY <1>1 DEF ModulesInv, ModulesTypeOK, RollBack
<1>4. OpenWhileInside' /\ TransactionIsOurs' /\ RowsAreAcknowledged'
  BY <1>1, <1>2 DEF ModulesInv, OpenWhileInside, TransactionIsOurs, RowsAreAcknowledged, NoneIn,
     RollBack, Resting
<1> QED BY <1>2, <1>3, <1>4 DEF ModulesInv

-----------------------------------------------------------------------------

\* The library is unloaded only while nobody is inside.
LEMMA UnloadKeeps ==
  ASSUME ModulesInv, UnloadPluginSo PROVE ModulesInv'
<1> USE DEF In, OpenSteps, TransactionSteps, InModule, Sharing, NoneIn, UnloadPluginSo, Forget
<1>1. \A c \in PluginCallers : ~In(c, Sharing) /\ ~In(c, Sharing)'
  OBVIOUS
<1>2. ModulesTypeOK' /\ OneTransaction' /\ OpenWhileInside'
  BY <1>1 DEF ModulesInv, ModulesTypeOK, OneTransaction, OpenWhileInside
<1>3. TransactionIsOurs' /\ RowsAreAcknowledged' /\ InsideIsLoaded'
  BY <1>1 DEF ModulesInv, TransactionIsOurs, RowsAreAcknowledged, InsideIsLoaded
<1> QED BY <1>2, <1>3 DEF ModulesInv

\* Nothing but the committed rows outlives the process.
LEMMA DeathKeeps ==
  ASSUME ModulesInv, ProcessDies PROVE ModulesInv'
<1> USE DEF In, OpenSteps, TransactionSteps, InModule, Sharing, NoneIn, ProcessDies, Forget, Resting
<1>1. ModulesTypeOK' /\ OneTransaction' /\ OpenWhileInside'
  BY DEF ModulesInv, ModulesTypeOK, OneTransaction, OpenWhileInside, Activity
<1>2. TransactionIsOurs' /\ RowsAreAcknowledged' /\ InsideIsLoaded'
  BY DEF ModulesInv, TransactionIsOurs, RowsAreAcknowledged, InsideIsLoaded
<1> QED BY <1>1, <1>2 DEF ModulesInv

LEMMA ModulesInitially == ModulesInit => ModulesInv
<1> SUFFICES ASSUME ModulesInit PROVE ModulesInv
  OBVIOUS
<1> USE DEF ModulesInit, In, OpenSteps, TransactionSteps, InModule, Sharing, NoneIn, Resting
<1>1. ModulesTypeOK /\ OneTransaction /\ OpenWhileInside
  BY DEF ModulesTypeOK, OneTransaction, OpenWhileInside, Activity, Rows
<1>2. TransactionIsOurs /\ RowsAreAcknowledged /\ InsideIsLoaded
  BY DEF TransactionIsOurs, RowsAreAcknowledged, InsideIsLoaded
<1> QED BY <1>1, <1>2 DEF ModulesInv

LEMMA ModulesStep == ModulesInv /\ [ModulesNext]_moduleVars => ModulesInv'
<1> SUFFICES ASSUME ModulesInv, [ModulesNext]_moduleVars PROVE ModulesInv'
  OBVIOUS
<1>1. CASE \E c \in PluginCallers :
             Request(c) \/ LoadPluginSo(c) \/ Share(c) \/ Ensure(c)
             \/ SetCanGetSelectionContentFlag(c) \/ CallThrough(c) \/ Save(c) \/ GetOneByUserId(c)
  BY <1>1, RequestKeeps, LoadKeeps, ShareKeeps, EnsureKeeps, AllowKeeps, CallKeeps, BeginKeeps,
     UpdateKeeps, InsertKeeps, QueryKeeps, CommitKeeps, ReadKeeps, RollBackKeeps
     DEF Save, GetOneByUserId
<1>2. CASE UnloadPluginSo \/ ProcessDies
  BY <1>2, UnloadKeeps, DeathKeeps
<1>3. CASE UNCHANGED moduleVars
  BY <1>3 DEF moduleVars, ModulesInv, ModulesTypeOK, OneTransaction, OpenWhileInside,
     TransactionIsOurs, RowsAreAcknowledged, InsideIsLoaded, In, NoneIn
<1> QED BY <1>1, <1>2, <1>3 DEF ModulesNext

-----------------------------------------------------------------------------
\* Whatever fails in a transaction, whenever the library is unloaded or the process dies, for
\* any callers, users and configurations: the stored row is the last one Save acknowledged,
\* a row that is read is the stored one, and no caller is in a module that was dropped.
THEOREM ModulesStoreWholeRows == ModulesSpec => []NoHalfSavedRow
<1>1. ModulesInv => NoHalfSavedRow
  <2> SUFFICES ASSUME ModulesInv PROVE NoHalfSavedRow
    OBVIOUS
  <2>1. stuck \/ (transaction = NoTransaction) = NoneIn(OpenSteps)
    BY DEF ModulesInv, OpenWhileInside, NoneIn
  <2>2. \A c \in PluginCallers : In(c, InModule) => libraryLoaded
    BY DEF ModulesInv, InsideIsLoaded, In, Sharing
  <2> QED BY <2>1, <2>2 DEF ModulesInv, RowsAreAcknowledged, InsideIsLoaded, NoHalfSavedRow
<1> QED BY <1>1, ModulesInitially, ModulesStep, PTL DEF ModulesSpec
=============================================================================
