-------------------------------- MODULE Panels --------------------------------
(***************************************************************************)
(* The panels of the selection application: SelectionAbility keeps the     *)
(* queue panels_ of the panels that were shown, SelectionPanel drives the  *)
(* window of one panel, PanelListenerImpl keeps the callbacks of the       *)
(* script.  The calls come from worker threads (show, hide), from the      *)
(* script's own thread (create, destroy, on, off) and from the thread on   *)
(* which the service reports a change of focus, so that every call is a     *)
(* sequence of steps.                                                      *)
(***************************************************************************)
EXTENDS Naturals, Sequences, FiniteSets, SequencesExt

CONSTANTS
  Panels,        \* the panels the script creates
  MenuPanels,    \* those of type MENU_PANEL: hidden, not destroyed, on a loss of focus
  WatchedPanels, \* those whose status the script subscribes to
  Callers,       \* the threads that call into SelectionAbility
  Callbacks,     \* callbacks of the script
  MaxQueued      \* bound on the length of panels_

ASSUME PanelsAssumption ==
  /\ MenuPanels \subseteq Panels /\ WatchedPanels \subseteq Panels
  /\ MaxQueued \in Nat

VARIABLES
  window,      \* [Panels -> state of window_, "none" before CreatePanel]
  hasContent,  \* the panels with isWaitSetUiContent_ = false
  panels,      \* panels_, the oldest panel that was shown first
  doing,       \* [Callers -> what the thread is doing: pc, panel, then]
  marked,      \* hiddenRegistered_ and destroyedRegistered_, as a set
  listening,   \* the panels whose panelStatusListener_ is set
  callbacks,   \* callbacks_ of PanelListenerImpl, by window and status
  told,        \* the statuses a panel's callbacks were called with since it was last shown
  failed       \* the panels of which a window operation failed since they were last queued

panelVars == <<window, hasContent, panels, doing, marked, listening,
               callbacks, told, failed>>

Statuses == {"hidden", "destroyed"}
AtRest == [pc |-> "idle"]
Steps == {"wait", "show", "push", "check", "hide", "tellHidden", "destroy", "tellDestroyed"}
At(pc, p, then) == [pc |-> pc, panel |-> p, then |-> then]
Go(t, c) == doing' = [doing EXCEPT ![t] = c]
IsAt(t, pc) == doing[t].pc = pc

PanelsTypeOK ==
  /\ window \in [Panels -> {"none", "created", "shown", "hidden", "destroyed"}]
  /\ hasContent \subseteq Panels /\ listening \subseteq Panels /\ failed \subseteq Panels
  /\ panels \in Seq(Panels) /\ Len(panels) <= MaxQueued
  /\ doing \in [Callers -> {AtRest} \cup [pc : Steps, panel : Panels, then : {"return", "destroy"}]]
  /\ marked \in [Panels -> SUBSET Statuses] /\ told \in [Panels -> SUBSET Statuses]
  /\ callbacks \in [Panels -> [Statuses -> SUBSET Callbacks]]

PanelsInit ==
  /\ window = [p \in Panels |-> "none"] /\ hasContent = {} /\ panels = <<>>
  /\ doing = [t \in Callers |-> AtRest]
  /\ marked = [p \in Panels |-> {}] /\ listening = {} /\ failed = {}
  /\ callbacks = [p \in Panels |-> [s \in Statuses |-> {}]]
  /\ told = [p \in Panels |-> {}]

-----------------------------------------------------------------------------
(* The window and its content                                              *)

CreatePanel(p) ==
  /\ window[p] = "none"
  /\ window' = [window EXCEPT ![p] = "created"]
  /\ UNCHANGED <<hasContent, panels, doing, marked, listening, callbacks, told, failed>>

\* The flag is cleared even when the window refuses the content.
SetUiContent(p) ==
  /\ window[p] \notin {"none", "destroyed"}
  /\ hasContent' = hasContent \cup {p}
  /\ UNCHANGED <<window, panels, doing, marked, listening, callbacks, told, failed>>

-----------------------------------------------------------------------------
(* Showing: wait for the content, show the window, queue the panel         *)

ShowPanel(t, p) ==
  /\ IsAt(t, "idle") /\ window[p] \notin {"none", "destroyed"}
  /\ Go(t, At("wait", p, "return"))
  /\ UNCHANGED <<window, hasContent, panels, marked, listening, callbacks, told, failed>>

\* A panel that is showing already is queued again.
Ready(t) ==
  LET p == doing[t].panel IN
  /\ IsAt(t, "wait") /\ p \in hasContent
  /\ Go(t, At(IF window[p] = "shown" THEN "push" ELSE "show", p, "return"))
  /\ UNCHANGED <<window, hasContent, panels, marked, listening, callbacks, told, failed>>

\* MAXWAITTIMES waits have passed without content.
GiveUp(t) ==
  /\ IsAt(t, "wait") /\ doing[t].panel \notin hasContent
  /\ Go(t, AtRest)
  /\ UNCHANGED <<window, hasContent, panels, marked, listening, callbacks, told, failed>>

ShowWindow(t) ==
  LET p == doing[t].panel IN
  /\ IsAt(t, "show")
  /\ \/ /\ window[p] # "destroyed"
        /\ window' = [window EXCEPT ![p] = "shown"]
        /\ told' = [told EXCEPT ![p] = {}]
        /\ Go(t, At("push", p, "return"))
     \/ /\ Go(t, AtRest)
        /\ UNCHANGED <<window, told>>
  /\ UNCHANGED <<hasContent, panels, marked, listening, callbacks, failed>>

PushPanel(t) ==
  /\ IsAt(t, "push") /\ Len(panels) < MaxQueued
  /\ panels' = Append(panels, doing[t].panel)
  /\ failed' = failed \ {doing[t].panel}
  /\ Go(t, AtRest)
  /\ UNCHANGED <<window, hasContent, marked, listening, callbacks, told>>

-----------------------------------------------------------------------------
(* Hiding and destroying.  DestroyPanel hides first, whatever comes of it. *)

\* What follows the hiding: nothing, or the destruction of the window.
After(c) == IF c.then = "destroy" THEN At("destroy", c.panel, "return") ELSE AtRest

\* PanelStatusChange: the listener is called when the status is marked,
\* and passes it on to the callbacks of that window and status.
PanelStatusChange(p, status) ==
  told' = IF p \in listening /\ status \in marked[p] /\ callbacks[p][status] # {}
          THEN [told EXCEPT ![p] = @ \cup {status}] ELSE told

HidePanel(t, p) ==
  /\ IsAt(t, "idle") /\ window[p] # "none"
  /\ Go(t, At("check", p, "return"))
  /\ UNCHANGED <<window, hasContent, panels, marked, listening, callbacks, told, failed>>

DestroyPanel(t, p) ==
  /\ IsAt(t, "idle") /\ window[p] # "none"
  /\ Go(t, At("check", p, "destroy"))
  /\ UNCHANGED <<window, hasContent, panels, marked, listening, callbacks, told, failed>>

\* Mutation for NoShownPanelIsForgotten: the front is popped, the newest panel goes.
FocusChangeNewest(t, isFocused, isOwn) ==
  /\ IsAt(t, "idle") /\ isFocused /\ ~isOwn /\ panels # <<>>
  /\ panels' = Tail(panels)
  /\ Go(t, At("check", Last(panels), IF Last(panels) \in MenuPanels THEN "return" ELSE "destroy"))
  /\ UNCHANGED <<window, hasContent, marked, listening, callbacks, told, failed>>

\* A window is focused: the oldest queued panel is disposed of, whatever window
\* it was.  Nothing happens on a loss of focus or when the application itself
\* got it.
FocusChange(t, isFocused, isOwn) ==
  /\ IsAt(t, "idle") /\ isFocused /\ ~isOwn /\ panels # <<>>
  /\ panels' = Tail(panels)
  /\ Go(t, At("check", Head(panels), IF Head(panels) \in MenuPanels THEN "return" ELSE "destroy"))
  /\ UNCHANGED <<window, hasContent, marked, listening, callbacks, told, failed>>

\* The checks of DoHidePanel; the service may be gone.
CheckHide(t) ==
  LET c == doing[t] IN
  /\ IsAt(t, "check")
  /\ \/ /\ window[c.panel] \in {"destroyed", "hidden"}
        /\ Go(t, After(c)) /\ UNCHANGED failed
     \/ /\ window[c.panel] \notin {"destroyed", "hidden"}
        /\ \/ Go(t, [c EXCEPT !.pc = "hide"]) /\ UNCHANGED failed
           \/ Go(t, After(c)) /\ failed' = failed \cup {c.panel}
  /\ UNCHANGED <<window, hasContent, panels, marked, listening, callbacks, told>>

HideWindow(t) ==
  LET c == doing[t] IN
  /\ IsAt(t, "hide")
  /\ \/ /\ window[c.panel] # "destroyed"
        /\ window' = [window EXCEPT ![c.panel] = IF @ = "shown" THEN "hidden" ELSE @]
        /\ Go(t, [c EXCEPT !.pc = "tellHidden"]) /\ UNCHANGED failed
     \/ Go(t, After(c)) /\ failed' = failed \cup {c.panel} /\ UNCHANGED window
  /\ UNCHANGED <<hasContent, panels, marked, listening, callbacks, told>>

TellHidden(t) ==
  /\ IsAt(t, "tellHidden")
  /\ PanelStatusChange(doing[t].panel, "hidden")
  /\ Go(t, After(doing[t]))
  /\ UNCHANGED <<window, hasContent, panels, marked, listening, callbacks, failed>>

DestroyWindow(t) ==
  LET p == doing[t].panel IN
  /\ IsAt(t, "destroy")
  /\ \/ /\ window' = [window EXCEPT ![p] = "destroyed"]
        /\ Go(t, At("tellDestroyed", p, "return")) /\ UNCHANGED failed
     \/ Go(t, AtRest) /\ failed' = failed \cup {p} /\ UNCHANGED window
  /\ UNCHANGED <<hasContent, panels, marked, listening, callbacks, told>>

TellDestroyed(t) ==
  /\ IsAt(t, "tellDestroyed")
  /\ PanelStatusChange(doing[t].panel, "destroyed")
  /\ Go(t, AtRest)
  /\ UNCHANGED <<window, hasContent, panels, marked, listening, callbacks, failed>>

-----------------------------------------------------------------------------
(* on and off of a panel, on the script's thread                           *)

SubscribeStatus(p, status, cb) ==
  /\ window[p] # "none"
  /\ callbacks' = [callbacks EXCEPT ![p][status] = @ \cup {cb}]
  /\ marked' = [marked EXCEPT ![p] = @ \cup {status}]
  /\ listening' = listening \cup {p}
  /\ UNCHANGED <<window, hasContent, panels, doing, told, failed>>

\* off with a callback leaves the registration alone, even if it was the last.
UnsubscribeStatus(p, status, cb) ==
  /\ window[p] # "none"
  /\ callbacks' = [callbacks EXCEPT ![p][status] = @ \ {cb}]
  /\ UNCHANGED <<window, hasContent, panels, doing, marked, listening, told, failed>>

\* The listener goes when no status is marked any more.
ClearPanelListener(p, status) ==
  /\ marked' = [marked EXCEPT ![p] = @ \ {status}]
  /\ listening' = IF marked[p] \ {status} # {} THEN listening ELSE listening \ {p}

UnsubscribeStatuses(p, status) ==
  /\ window[p] # "none"
  /\ callbacks' = [callbacks EXCEPT ![p][status] = {}]
  /\ ClearPanelListener(p, status)
  /\ UNCHANGED <<window, hasContent, panels, doing, told, failed>>

\* What the given threads, the script's calls on windows and the focus do.
PanelSteps(threads) ==
  \/ \E p \in Panels : CreatePanel(p) \/ SetUiContent(p)
  \/ \E t \in threads, p \in Panels : ShowPanel(t, p) \/ HidePanel(t, p) \/ DestroyPanel(t, p)
  \/ \E t \in threads, isFocused, isOwn \in BOOLEAN : FocusChange(t, isFocused, isOwn)
  \/ \E t \in threads :
       \/ Ready(t) \/ GiveUp(t) \/ ShowWindow(t) \/ PushPanel(t)
       \/ CheckHide(t) \/ HideWindow(t) \/ TellHidden(t)
       \/ DestroyWindow(t) \/ TellDestroyed(t)

\* The subscriptions of the script.
WatchSteps ==
  \E p \in WatchedPanels, s \in Statuses :
     \/ \E cb \in Callbacks : SubscribeStatus(p, s, cb) \/ UnsubscribeStatus(p, s, cb)
     \/ UnsubscribeStatuses(p, s)

PanelsNext == PanelSteps(Callers) \/ WatchSteps

PanelsSpec == PanelsInit /\ [][PanelsNext]_panelVars

-----------------------------------------------------------------------------
\* Some thread still has the panel in hand, to queue it or to put it away.
InHand(p) == \E t \in Callers : /\ ~IsAt(t, "idle") /\ doing[t].panel = p
                                /\ doing[t].pc \in {"push", "check", "hide", "destroy"}

\* A panel on the screen is put away by some change of focus: it is queued, or
\* a thread is about to queue it or to hide it, unless the window manager or
\* the missing service made an attempt fail.  And a subscriber is served: as
\* long as there are callbacks for a status of a panel, the panel passes that
\* status on, also after the other status was given up (ClearPanelListener).
NoShownPanelIsForgotten ==
  \A p \in Panels :
    /\ window[p] = "shown" => p \in ToSet(panels) \cup failed \/ InHand(p)
    /\ \A s \in Statuses : callbacks[p][s] # {} => p \in listening /\ s \in marked[p]
    /\ "destroyed" \in told[p] => window[p] = "destroyed"
===============================================================================
