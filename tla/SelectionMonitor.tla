-------------------------- MODULE SelectionMonitor --------------------------
(***************************************************************************)
(* From a recognised gesture to the content of the selection:              *)
(* SelectionInputMonitor of service/src/selection_input_monitor.cpp around *)
(* the recogniser of InputMonitor, and SelectionService::GetSelectionContent. *)
(*                                                                         *)
(* Two kinds of threads meet here.  The input thread handles one event at  *)
(* a time; when the event completes a gesture it connects the extension,   *)
(* which may take seconds, then checks the screen lock, the switch and the *)
(* listener one after the other, allows the content to be read and tells   *)
(* the listener.  Meanwhile binder threads change all of these, and serve  *)
(* GetSelectionContent, which checks the flag, clears it and only then     *)
(* copies the window and the bundle the content is asked of.               *)
(*                                                                         *)
(* The FocusChange call a press makes changes no state of the service and  *)
(* is left out, as is the block list of applications, which is empty.      *)
(***************************************************************************)
EXTENDS InputMonitor

CONSTANT Readers    \* binder threads that serve GetSelectionContent

VARIABLES
    pc,               \* what the input thread is about to do
    enabled,          \* MemSelectionConfig: the switch
    isScreenLocked_,
    listener_,        \* TRUE iff a listener is registered
    connected,        \* TRUE iff the extension is known to be connected
    canGet,           \* canGetSelectionContentFlag_ of the pasteboard plugin
    rpc               \* what each reader is about to do

\* What happened, recorded for the properties.
VARIABLES
    reported,         \* the listener was told since the last left press
    crossing,         \* the last event was the pointer crossing a window border
    seen,             \* conditions that held at some time since HandleWordSelected
    unread            \* the flag was raised since a reader last cleared it

serviceVars == <<enabled, isScreenLocked_, listener_, connected, canGet>>
outerVars == <<pc, serviceVars, rpc, reported, crossing, seen, unread>>
allVars == <<vars, outerVars>>

Conditions == {"unlocked", "enabled", "listener"}

\* The conditions that hold after the step.
HoldingNext ==
    {c \in Conditions : CASE c = "unlocked" -> ~isScreenLocked_'
                          [] c = "enabled"  -> enabled'
                          [] c = "listener" -> listener_'}

-----------------------------------------------------------------------------
(* The input thread. *)

\* FinishedWordSelection follows every event but acts only on a done gesture.
AfterEvent ==
    /\ pc' = IF curSelectState' = "DONE" THEN "selected" ELSE "idle"
    /\ UNCHANGED <<serviceVars, rpc, seen, unread>>

OnInputKeyEvent(k) ==
    /\ pc = "idle"
    /\ OnKeyEvent(k)
    /\ AfterEvent
    /\ crossing' = FALSE
    /\ UNCHANGED reported

OnInputPointerEvent(p) ==
    /\ pc = "idle"
    /\ OnPointerEvent(p)
    /\ AfterEvent
    /\ crossing' = (p.action = "cross_window")
    /\ reported' = (reported /\ ~(p.button = "left" /\ p.action = "down"))

\* Mutation for GestureIsReported: a selection is dropped when connecting fails.
HandleWordSelectedOrDrop ==
    /\ pc = "selected"
    /\ connected' \in IF connected THEN {TRUE} ELSE BOOLEAN
    /\ pc' = IF connected' THEN "handled" ELSE "idle"
    /\ UNCHANGED <<vars, enabled, isScreenLocked_, listener_, canGet, rpc, reported, crossing, unread>>
    /\ seen' = HoldingNext

\* Connects the extension unless it is connected.  Failure changes nothing, and
\* the extension may have gone again when the call returns.
HandleWordSelected ==
    /\ pc = "selected"
    /\ pc' = "handled"
    /\ connected' \in IF connected THEN {TRUE} ELSE BOOLEAN
    /\ UNCHANGED <<vars, enabled, isScreenLocked_, listener_, canGet, rpc, reported, crossing, unread>>
    /\ seen' = HoldingNext

\* The three checks; an empty bundle name is only logged.
Check(at, condition, next) ==
    /\ pc = at
    /\ pc' = IF condition THEN next ELSE "idle"
    /\ UNCHANGED <<vars, serviceVars, rpc, reported, crossing, seen, unread>>

\* Mutation for ChecksFollowTheWait: the screen lock is not checked after the wait.
CheckScreenLockedBefore == Check("handled", TRUE, "unlocked")

CheckScreenLocked == Check("handled", ~isScreenLocked_, "unlocked")
CheckEnable == Check("unlocked", enabled, "enabled")
CheckListener == Check("enabled", listener_, "listening")

\* SetCanGetSelectionContentFlag(true) has no effect when the plugin cannot be
\* loaded or cannot open its virtual keyboard.
AllowContent ==
    /\ pc = "listening"
    /\ pc' = "allowed"
    /\ canGet' \in {TRUE, canGet}
    /\ unread' = (unread \/ canGet')
    /\ UNCHANGED <<vars, enabled, isScreenLocked_, listener_, connected, rpc, reported, crossing, seen>>

\* OnSelectionChange, to the listener read before.
TellListener ==
    /\ pc = "allowed"
    /\ pc' = "idle"
    /\ reported' = TRUE
    /\ UNCHANGED <<vars, serviceVars, rpc, crossing, seen, unread>>

InputThread ==
    \/ HandleWordSelected \/ CheckScreenLocked \/ CheckEnable \/ CheckListener
    \/ AllowContent \/ TellListener

-----------------------------------------------------------------------------
(* GetSelectionContent on a binder thread.  A reader that finds the flag    *)
(* down returns INVALID_TIMING and has done nothing.                        *)

CheckFlag(r) ==
    /\ rpc[r] = "idle" /\ canGet
    /\ rpc' = [rpc EXCEPT ![r] = "permitted"]
    /\ UNCHANGED <<vars, pc, serviceVars, reported, crossing, seen, unread>>

\* Mutation for NoReadWithoutReport: the flag stays up.
ClearNothing(r) ==
    /\ rpc[r] = "permitted"
    /\ rpc' = [rpc EXCEPT ![r] = "asking"]
    /\ unread' = FALSE
    /\ UNCHANGED <<vars, pc, serviceVars, reported, crossing, seen>>

ClearFlag(r) ==
    /\ rpc[r] = "permitted"
    /\ rpc' = [rpc EXCEPT ![r] = "asking"]
    /\ canGet' = FALSE
    /\ unread' = FALSE
    /\ UNCHANGED <<vars, pc, enabled, isScreenLocked_, listener_, connected, reported, crossing, seen>>

\* The window and the bundle are copied and the pasteboard is asked.
AskPasteboard(r) ==
    /\ rpc[r] = "asking"
    /\ rpc' = [rpc EXCEPT ![r] = "idle"]
    /\ UNCHANGED <<vars, pc, serviceVars, reported, crossing, seen, unread>>

-----------------------------------------------------------------------------
(* The other threads: the setting, common events, registration, the death   *)
(* of the extension, and the timer that unloads the plugin.                 *)

Surroundings ==
    /\ \/ /\ enabled' \in BOOLEAN
          /\ UNCHANGED <<isScreenLocked_, listener_, connected, canGet>>
       \/ /\ isScreenLocked_' \in BOOLEAN
          /\ UNCHANGED <<enabled, listener_, connected, canGet>>
       \/ /\ listener_' \in BOOLEAN
          /\ UNCHANGED <<enabled, isScreenLocked_, connected, canGet>>
       \/ /\ connected' \in BOOLEAN
          /\ UNCHANGED <<enabled, isScreenLocked_, listener_, canGet>>
       \/ /\ canGet' = FALSE
          /\ UNCHANGED <<enabled, isScreenLocked_, listener_, connected>>
    /\ seen' = seen \cup HoldingNext
    /\ UNCHANGED <<vars, pc, rpc, reported, crossing, unread>>

ClockAndTrigger ==
    /\ Tick \/ \E b \in BOOLEAN : SetTriggered(b)
    /\ UNCHANGED outerVars

OuterInit ==
    /\ Init
    /\ pc = "idle"
    /\ enabled \in BOOLEAN
    /\ isScreenLocked_ = FALSE
    /\ listener_ = FALSE
    /\ connected = FALSE
    /\ canGet = FALSE
    /\ rpc = [r \in Readers |-> "idle"]
    /\ reported = FALSE
    /\ crossing = FALSE
    /\ seen = {}
    /\ unread = FALSE

OuterNext ==
    \/ \E k \in KeyEvents : OnInputKeyEvent(k)
    \/ \E p \in PointerEvents : OnInputPointerEvent(p)
    \/ InputThread
    \/ \E r \in Readers : CheckFlag(r) \/ ClearFlag(r) \/ AskPasteboard(r)
    \/ Surroundings
    \/ ClockAndTrigger

OuterSpec == OuterInit /\ [][OuterNext]_allVars

\* The input thread is never stopped: the wait in HandleWordSelected ends
\* after TIMEOUT_FOR_CONNECT_DISCONNECT at the latest.
OuterFairness == WF_allVars(InputThread)
FairOuterSpec == OuterSpec /\ OuterFairness
-----------------------------------------------------------------------------
(* Properties. *)

OuterTypeOK ==
    /\ TypeOK
    /\ pc \in {"idle", "selected", "handled", "unlocked", "enabled", "listening", "allowed"}
    /\ enabled \in BOOLEAN /\ isScreenLocked_ \in BOOLEAN /\ listener_ \in BOOLEAN
    /\ connected \in BOOLEAN /\ canGet \in BOOLEAN
    /\ rpc \in [Readers -> {"idle", "permitted", "asking"}]
    /\ reported \in BOOLEAN /\ crossing \in BOOLEAN /\ seen \subseteq Conditions
    /\ unread \in BOOLEAN

\* One gesture is told at most once, and only by the event that completed it:
\* the pointer crossing a window border is the one event that repeats the
\* report of a gesture still done (or makes up for one that was refused).
\* Guards FinishedWordSelection, which runs after every event.
OneReportPerGesture ==
    [][pc = "idle" /\ pc' = "selected" =>
          \/ curSelectState # "DONE" /\ ~reported
          \/ crossing'
      ]_allVars

\* A report is never based on what was true only before the wait for the
\* extension: since then there was a time at which the screen was unlocked, one
\* at which the switch was on and one at which a listener was registered
\* (the order of HandleWordSelected and the checks of FinishedWordSelection).
ChecksFollowTheWait == pc = "allowed" => seen = Conditions

\* A reader is let in only for a report of which no reader has cleared the flag yet,
\* however many readers test and clear it and however they interleave (GetSelectionContent
\* "at wrong timing").  So no reader reads a report twice, and those that read the same
\* one had all tested the flag before the first of them cleared it.
NoReadWithoutReport ==
    [][\A r \in Readers : rpc[r] = "idle" /\ rpc'[r] = "permitted" => unread]_allVars

\* A gesture that completes while the screen stays unlocked, the switch on and
\* a listener registered is reported, however the connection ends.
GestureIsReported ==
    [](pc = "selected" /\ [](~isScreenLocked_ /\ enabled /\ listener_)
          => <>(pc = "allowed"))
=============================================================================
