----------------------------- MODULE MCInputThread -----------------------------
(* What the input thread does when a gesture is done, against the threads it *)
(* meets there: the report of the gesture (HandleWordSelected and            *)
(* FinishedWordSelection) and the timer HandleWordSelected resets.  Every    *)
(* behaviour is one of a single part, chosen at the start.  No symmetry,     *)
(* which liveness checking does not allow.                                   *)
EXTENDS SelectionMonitor, PluginTimer

CONSTANT r1
VARIABLE subject

MCPositions == {0}

\* The report is followed with every event of the input and one reader, and with the
\* events of the mouse and two readers.
Subjects == {"report", "readers", "plugin timer"}

\* A step of a subject; the variables of all others keep their values.
Chosen(name) == subject = name /\ UNCHANGED subject
AllBut(name) ==
  /\ name \notin {"report", "readers"} => UNCHANGED allVars
  /\ name # "plugin timer" => UNCHANGED timerVars

InputThreadInit ==
  /\ OuterInit /\ TimerInit
  /\ subject \in Subjects
  /\ subject # "report" => enabled /\ triggered

InputThreadNext ==
  \/ (Chosen("report") /\ OuterNext /\ (\A r \in Readers \ {r1} : rpc'[r] = "idle")
        /\ AllBut("report"))
  \/ (Chosen("readers")
        /\ \/ \E p \in PointerEvents : OnInputPointerEvent(p)
           \/ InputThread \/ Surroundings
           \/ \E r \in Readers : CheckFlag(r) \/ ClearFlag(r) \/ AskPasteboard(r)
        /\ AllBut("readers"))
  \/ (Chosen("plugin timer") /\ TimerNext /\ AllBut("plugin timer"))

inputThreadVars == <<subject, allVars, timerVars>>
InputThreadSpec ==
  /\ InputThreadInit /\ [][InputThreadNext]_inputThreadVars
  /\ OuterFairness /\ TimerFairness
================================================================================
