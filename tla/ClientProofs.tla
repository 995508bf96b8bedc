----------------------------- MODULE ClientProofs ------------------------------
(***************************************************************************)
(* The client side, for any panels, threads, client processes, callbacks   *)
(* and calls: no panel on the screen is forgotten, a subscriber is heard,  *)
(* and calls take their turns.                                             *)
(*                                                                         *)
(* NoShownPanelIsForgotten and the first part of SubscriberIsHeard are     *)
(* nearly inductive: what is added is that a thread tells of a destruction *)
(* only when it happened (DestroyedIsTrue), that only the JavaScript       *)
(* client posts entries (PostedIsSubscribed) and that a registration that  *)
(* is alone stored pid_ last and belongs to a process that cannot exit     *)
(* before it ends (PidFollowsListener).  CallsKeepOrder needs more: that   *)
(* the queue is the end of the order whoever pops it (QueueEndsOrder), and *)
(* where in the order the calls that ran are (ServedInTurn).               *)
(***************************************************************************)
EXTENDS Panels, ClientListeners, AsyncCalls, FiniteSetTheorems, SequenceTheorems, TLAPS

-----------------------------------------------------------------------------
(* Facts about queues. *)

\* What a queue holds after an element was put at its end or taken from its front.
LEMMA QueueHolds ==
  ASSUME NEW S, NEW queue \in Seq(S)
  PROVE  /\ \A e \in S : ToSet(Append(queue, e)) = ToSet(queue) \cup {e}
         /\ queue # <<>> => /\ Head(queue) \in S /\ Tail(queue) \in Seq(S)
                            /\ Len(Tail(queue)) = Len(queue) - 1
                            /\ ToSet(queue) = {Head(queue)} \cup ToSet(Tail(queue))
<1>1. ASSUME NEW e \in S PROVE ToSet(Append(queue, e)) = ToSet(queue) \cup {e}
  <2>1. DOMAIN Append(queue, e) = DOMAIN queue \cup {Len(queue) + 1}
    OBVIOUS
  <2>2. \A i \in DOMAIN queue : Append(queue, e)[i] = queue[i]
    OBVIOUS
  <2>3. Append(queue, e)[Len(queue) + 1] = e
    OBVIOUS
  <2> QED
    BY <2>1, <2>2, <2>3 DEF ToSet
<1>2. ASSUME queue # <<>>
      PROVE  /\ Head(queue) \in S /\ Tail(queue) \in Seq(S) /\ Len(Tail(queue)) = Len(queue) - 1
             /\ ToSet(queue) = {Head(queue)} \cup ToSet(Tail(queue))
  <2>1. /\ Head(queue) \in S /\ Tail(queue) \in Seq(S) /\ Len(Tail(queue)) = Len(queue) - 1
        /\ Len(queue) \in Nat \ {0} /\ Head(queue) = queue[1]
    BY <1>2
  <2>2. \A i \in DOMAIN Tail(queue) : i + 1 \in DOMAIN queue /\ Tail(queue)[i] = queue[i + 1]
    BY <1>2, <2>1
  <2>3. ASSUME NEW i \in DOMAIN queue
        PROVE  i = 1 \/ (i - 1 \in DOMAIN Tail(queue) /\ Tail(queue)[i - 1] = queue[i])
    BY <1>2, <2>1
  <2>4. 1 \in DOMAIN queue
    BY <2>1
  <2>5. ASSUME NEW e \in ToSet(queue) PROVE e = Head(queue) \/ e \in ToSet(Tail(queue))
    <3>1. PICK i \in DOMAIN queue : e = queue[i]
      BY DEF ToSet
    <3>2. CASE i = 1
      BY <3>1, <3>2, <2>1
    <3>3. CASE i # 1
      <4>1. i - 1 \in DOMAIN Tail(queue) /\ e = Tail(queue)[i - 1]
        BY <3>1, <3>3, <2>3
      <4> QED
        BY <4>1 DEF ToSet
    <3> QED
      BY <3>2, <3>3
  <2>6. {Head(queue)} \cup ToSet(Tail(queue)) \subseteq ToSet(queue)
    BY <2>1, <2>2, <2>4 DEF ToSet
  <2> QED
    BY <2>1, <2>5, <2>6
<1> QED
  BY <1>1, <1>2

LEMMA EmptyHoldsNothing == ToSet(<<>>) = {}
BY DEF ToSet

\* How a queue and what has entered it move together.
LEMMA QueueMoves ==
  ASSUME NEW S, NEW queue \in Seq(S)
  PROVE  /\ \A e \in S : /\ Append(queue, e) \in Seq(S) /\ Append(queue, e) # <<>>
                         /\ Len(Append(queue, e)) = Len(queue) + 1
                         /\ \A i \in 1 .. Len(queue) : Append(queue, e)[i] = queue[i]
                         /\ Append(queue, e)[Len(queue) + 1] = e
                         /\ queue # <<>> => Head(Append(queue, e)) = Head(queue)
                         /\ queue = <<>> => Head(Append(queue, e)) = e
         /\ queue # <<>> => /\ Head(queue) \in S /\ Tail(queue) \in Seq(S)
                            /\ Len(queue) > 0 /\ Len(Tail(queue)) = Len(queue) - 1
                            /\ \A i \in 1 .. Len(Tail(queue)) : Tail(queue)[i] = queue[i + 1]
                            /\ Head(queue) = queue[1]
         /\ Len(queue) \in Nat /\ (Len(queue) = 0 <=> queue = <<>>)
OBVIOUS

-----------------------------------------------------------------------------
(* No shown panel is forgotten. *)

\* What is shown is queued, or in the hands of a thread, or could not be put away.
ShownIsKept ==
  \A p \in Panels : window[p] = "shown" => p \in ToSet(panels) \cup failed \/ InHand(p)

\* Who has callbacks has a listener that passes the status on.
SubscribersAreServed ==
  \A p \in Panels, s \in Statuses : callbacks[p][s] # {} => p \in listening /\ s \in marked[p]

\* Only a panel that is gone for good is said to be destroyed.
DestroyedIsTrue ==
  /\ \A t \in Callers : doing[t].pc = "tellDestroyed" => window[doing[t].panel] = "destroyed"
  /\ \A p \in Panels : "destroyed" \in told[p] => window[p] = "destroyed"

PanelsInv == PanelsTypeOK /\ ShownIsKept /\ SubscribersAreServed /\ DestroyedIsTrue

-----------------------------------------------------------------------------
\* A thread that is not at rest has a panel in hand.
LEMMA AtWork ==
  ASSUME PanelsTypeOK, NEW t \in Callers
  PROVE  /\ doing[t].pc # "idle" => /\ doing[t] \in [pc : Steps, panel : Panels, then : {"return", "destroy"}]
                                   /\ doing[t].pc \in Steps /\ doing[t].panel \in Panels
                                   /\ doing[t].then \in {"return", "destroy"}
         /\ doing[t].pc = "idle" => doing[t] = AtRest
BY DEF PanelsTypeOK, AtRest, Steps

\* Every step leads a thread to rest or to a next step.
LEMMA NextStep ==
  ASSUME NEW pc \in Steps, NEW p \in Panels, NEW then \in {"return", "destroy"}
  PROVE  /\ At(pc, p, then) \in [pc : Steps, panel : Panels, then : {"return", "destroy"}]
         /\ At(pc, p, then).pc = pc /\ At(pc, p, then).panel = p
BY DEF At

\* What another thread, or nobody, does leaves a panel in hand.
LEMMA OthersHold ==
  ASSUME PanelsTypeOK, NEW t \in Callers, NEW c, Go(t, c), NEW q \in Panels, InHand(q),
         doing[t].pc = "idle" \/ doing[t].panel # q
  PROVE  InHand(q)'
<1>1. PICK u \in Callers : /\ doing[u].pc # "idle" /\ doing[u].panel = q
                           /\ doing[u].pc \in {"push", "check", "hide", "destroy"}
  BY DEF InHand, IsAt
<1>2. doing'[u] = doing[u]
  BY <1>1 DEF Go, PanelsTypeOK
<1> QED
  BY <1>1, <1>2 DEF InHand, IsAt

\* The panel of a thread that is about to queue it or put it away is in hand.
LEMMA NowHolds ==
  ASSUME PanelsTypeOK, NEW t \in Callers, NEW c, Go(t, c), c.pc \in {"push", "check", "hide", "destroy"}
  PROVE  InHand(c.panel)'
<1>1. doing'[t] = c
  BY DEF Go, PanelsTypeOK
<1> QED
  BY <1>1 DEF InHand, IsAt

-----------------------------------------------------------------------------
(* One lemma per action of Panels. *)

LEMMA CreateKeeps ==
  ASSUME PanelsInv, NEW p \in Panels, CreatePanel(p)
  PROVE  PanelsInv'
<1> USE DEF PanelsInv, PanelsTypeOK, CreatePanel, IsAt, Go, At, AtRest, Steps
<1>1. PanelsTypeOK'
  BY PanelsAssumption DEF Statuses
<1>2. ShownIsKept'
  BY PanelsAssumption DEF ShownIsKept, InHand
<1>3. SubscribersAreServed'
  BY DEF SubscribersAreServed, Statuses
<1>4. DestroyedIsTrue'
  BY DEF DestroyedIsTrue
<1> QED
  BY <1>1, <1>2, <1>3, <1>4

LEMMA ContentKeeps ==
  ASSUME PanelsInv, NEW p \in Panels, SetUiContent(p)
  PROVE  PanelsInv'
<1> USE DEF PanelsInv, PanelsTypeOK, SetUiContent, IsAt, Go, At, AtRest, Steps
<1>1. PanelsTypeOK'
  BY PanelsAssumption DEF Statuses
<1>2. ShownIsKept'
  BY PanelsAssumption DEF ShownIsKept, InHand
<1>3. SubscribersAreServed'
  BY DEF SubscribersAreServed, Statuses
<1>4. DestroyedIsTrue'
  BY DEF DestroyedIsTrue
<1> QED
  BY <1>1, <1>2, <1>3, <1>4

\* A thread that begins has nothing in hand before.
LEMMA BeginKeeps ==
  ASSUME PanelsInv, NEW t \in Callers, NEW p \in Panels, ShowPanel(t, p) \/ HidePanel(t, p) \/ DestroyPanel(t, p)
  PROVE  PanelsInv'
<1> USE DEF PanelsInv, PanelsTypeOK, ShowPanel, HidePanel, DestroyPanel, IsAt, Go, At, AtRest, Steps
<1>1. PanelsTypeOK'
  BY PanelsAssumption DEF Statuses
<1>2. ShownIsKept'
  <2>1. PICK c : Go(t, c) /\ doing[t].pc = "idle"
    OBVIOUS
  <2>2. \A q \in Panels : InHand(q) => InHand(q)'
    BY <2>1, OthersHold
  <2>3. UNCHANGED <<window, panels, failed>>
    OBVIOUS
  <2> QED
    BY <2>2, <2>3 DEF ShownIsKept
<1>3. SubscribersAreServed'
  BY DEF SubscribersAreServed, Statuses
<1>4. DestroyedIsTrue'
  BY DEF DestroyedIsTrue
<1> QED
  BY <1>1, <1>2, <1>3, <1>4

\* A panel that is shown already is queued once more.
LEMMA ReadyKeeps ==
  ASSUME PanelsInv, NEW t \in Callers, Ready(t) \/ GiveUp(t)
  PROVE  PanelsInv'
<1> USE DEF PanelsInv, PanelsTypeOK, Ready, GiveUp, IsAt, Go, At, AtRest, Steps
<1>1. PanelsTypeOK'
  BY PanelsAssumption DEF Statuses
<1>2. ShownIsKept'
  <2>1. PICK c : Go(t, c) /\ doing[t].pc = "wait"
    OBVIOUS
  <2>2. ASSUME NEW q \in Panels, InHand(q) PROVE InHand(q)'
    <3>1. PICK u \in Callers : /\ doing[u].pc # "idle" /\ doing[u].panel = q
                               /\ doing[u].pc \in {"push", "check", "hide", "destroy"}
      BY <2>2 DEF InHand
    <3>2. doing'[u] = doing[u]
      BY <2>1, <3>1
    <3> QED
      BY <3>1, <3>2 DEF InHand
  <2>3. UNCHANGED <<window, panels, failed>>
    OBVIOUS
  <2> QED
    BY <2>2, <2>3 DEF ShownIsKept
<1>3. SubscribersAreServed'
  BY DEF SubscribersAreServed, Statuses
<1>4. DestroyedIsTrue'
  BY DEF DestroyedIsTrue
<1> QED
  BY <1>1, <1>2, <1>3, <1>4

\* The thread that shows a window is going to queue it.
LEMMA ShowKeeps ==
  ASSUME PanelsInv, NEW t \in Callers, ShowWindow(t)
  PROVE  PanelsInv'
<1> USE DEF PanelsInv, PanelsTypeOK, ShowWindow, IsAt, Go, At, AtRest, Steps
<1>1. PanelsTypeOK'
  <2>1. doing[t].panel \in Panels
    BY AtWork
  <2>2. doing' \in [Callers -> {AtRest} \cup [pc : Steps, panel : Panels, then : {"return", "destroy"}]]
    BY <2>1
  <2>3. window' \in [Panels -> {"none", "created", "shown", "hidden", "destroyed"}] /\ told' \in [Panels -> SUBSET Statuses]
    BY <2>1
  <2> QED
    BY <2>2, <2>3
<1>2. ShownIsKept'
  BY PanelsAssumption DEF ShownIsKept, InHand
<1>3. SubscribersAreServed'
  BY DEF SubscribersAreServed, Statuses
<1>4. DestroyedIsTrue'
  <2>1. doing[t].panel \in Panels
    BY AtWork
  <2>2. ASSUME NEW u \in Callers, doing'[u].pc = "tellDestroyed" PROVE doing'[u] = doing[u]
    BY <2>2
  <2>3. ASSUME NEW p \in Panels, window[p] = "destroyed" PROVE window'[p] = "destroyed"
    BY <2>1, <2>3
  <2>4. ASSUME NEW p \in Panels, "destroyed" \in told'[p] PROVE "destroyed" \in told[p]
    BY <2>1, <2>4
  <2>5. \A u \in Callers : doing[u].pc = "tellDestroyed" => doing[u].panel \in Panels
    BY AtWork
  <2> QED
    BY <2>2, <2>3, <2>4, <2>5 DEF DestroyedIsTrue
<1> QED
  BY <1>1, <1>2, <1>3, <1>4

LEMMA PushKeeps ==
  ASSUME PanelsInv, NEW t \in Callers, PushPanel(t)
  PROVE  PanelsInv'
<1> USE DEF PanelsInv, PanelsTypeOK, PushPanel, IsAt, Go, At, AtRest, Steps
<1>1. PanelsTypeOK'
  BY PanelsAssumption, QueueHolds DEF Statuses
<1>2. ShownIsKept'
  BY PanelsAssumption, QueueHolds DEF ShownIsKept, InHand
<1>3. SubscribersAreServed'
  BY DEF SubscribersAreServed, Statuses
<1>4. DestroyedIsTrue'
  BY DEF DestroyedIsTrue
<1> QED
  BY <1>1, <1>2, <1>3, <1>4

\* The thread that takes a panel from the queue is going to hide it.
LEMMA FocusKeepsPanels ==
  ASSUME PanelsInv, NEW t \in Callers, NEW isFocused \in BOOLEAN, NEW isOwn \in BOOLEAN, FocusChange(t, isFocused, isOwn)
  PROVE  PanelsInv'
<1> USE DEF PanelsInv, PanelsTypeOK, FocusChange, IsAt, Go, At, AtRest, Steps
<1>1. PanelsTypeOK'
  BY PanelsAssumption, QueueHolds DEF Statuses
<1>2. ShownIsKept'
  BY PanelsAssumption, QueueHolds DEF ShownIsKept, InHand
<1>3. SubscribersAreServed'
  BY DEF SubscribersAreServed, Statuses
<1>4. DestroyedIsTrue'
  BY DEF DestroyedIsTrue
<1> QED
  BY <1>1, <1>2, <1>3, <1>4

\* Only what is not shown, or cannot be hidden, is left alone.
LEMMA CheckKeeps ==
  ASSUME PanelsInv, NEW t \in Callers, CheckHide(t)
  PROVE  PanelsInv'
<1> USE DEF PanelsInv, PanelsTypeOK, CheckHide, After, IsAt, Go, At, AtRest, Steps
<1>1. PanelsTypeOK'
  <2>1. /\ doing[t].panel \in Panels /\ doing[t].then \in {"return", "destroy"}
        /\ doing[t] \in [pc : Steps, panel : Panels, then : {"return", "destroy"}]
    BY AtWork
  <2>2. /\ [doing[t] EXCEPT !.pc = "hide"] \in [pc : Steps, panel : Panels, then : {"return", "destroy"}]
        /\ After(doing[t]) \in {AtRest} \cup [pc : Steps, panel : Panels, then : {"return", "destroy"}]
    BY <2>1
  <2>3. doing' \in [Callers -> {AtRest} \cup [pc : Steps, panel : Panels, then : {"return", "destroy"}]]
    BY <2>2
  <2>4. failed' \subseteq Panels /\ window' \in [Panels -> {"none", "created", "shown", "hidden", "destroyed"}]
    BY <2>1
  <2> QED
    BY <2>3, <2>4
<1>2. ShownIsKept'
  BY PanelsAssumption DEF ShownIsKept, InHand
<1>3. SubscribersAreServed'
  BY DEF SubscribersAreServed, Statuses
<1>4. DestroyedIsTrue'
  <2>1. doing[t].panel \in Panels
    BY AtWork
  <2>2. ASSUME NEW u \in Callers, doing'[u].pc = "tellDestroyed" PROVE doing'[u] = doing[u]
    BY <2>2
  <2>3. ASSUME NEW p \in Panels, window[p] = "destroyed" PROVE window'[p] = "destroyed"
    BY <2>1, <2>3
  <2>4. ASSUME NEW p \in Panels, "destroyed" \in told'[p] PROVE "destroyed" \in told[p]
    BY <2>1, <2>4
  <2>5. \A u \in Callers : doing[u].pc = "tellDestroyed" => doing[u].panel \in Panels
    BY AtWork
  <2> QED
    BY <2>2, <2>3, <2>4, <2>5 DEF DestroyedIsTrue
<1> QED
  BY <1>1, <1>2, <1>3, <1>4

LEMMA HideKeeps ==
  ASSUME PanelsInv, NEW t \in Callers, HideWindow(t)
  PROVE  PanelsInv'
<1> USE DEF PanelsInv, PanelsTypeOK, HideWindow, After, IsAt, Go, At, AtRest, Steps
<1>1. PanelsTypeOK'
  <2>1. /\ doing[t].panel \in Panels /\ doing[t].then \in {"return", "destroy"}
        /\ doing[t] \in [pc : Steps, panel : Panels, then : {"return", "destroy"}]
    BY AtWork
  <2>2. /\ [doing[t] EXCEPT !.pc = "tellHidden"] \in [pc : Steps, panel : Panels, then : {"return", "destroy"}]
        /\ After(doing[t]) \in {AtRest} \cup [pc : Steps, panel : Panels, then : {"return", "destroy"}]
    BY <2>1
  <2>3. doing' \in [Callers -> {AtRest} \cup [pc : Steps, panel : Panels, then : {"return", "destroy"}]]
    BY <2>2
  <2>4. failed' \subseteq Panels /\ window' \in [Panels -> {"none", "created", "shown", "hidden", "destroyed"}]
    BY <2>1
  <2> QED
    BY <2>3, <2>4
<1>2. ShownIsKept'
  <2>1. doing[t].panel \in Panels
    BY AtWork
  <2>2. PICK c : Go(t, c)
    OBVIOUS
  <2>3. \A q \in Panels \ {doing[t].panel} : InHand(q) => InHand(q)'
    BY <2>2, OthersHold
  <2>4. \A q \in Panels \ {doing[t].panel} : window'[q] = window[q]
    BY <2>1
  <2>5. window'[doing[t].panel] # "shown" \/ doing[t].panel \in failed'
    BY <2>1
  <2>6. panels' = panels /\ failed \subseteq failed'
    OBVIOUS
  <2> QED
    BY <2>3, <2>4, <2>5, <2>6 DEF ShownIsKept
<1>3. SubscribersAreServed'
  BY DEF SubscribersAreServed, Statuses
<1>4. DestroyedIsTrue'
  BY DEF DestroyedIsTrue
<1> QED
  BY <1>1, <1>2, <1>3, <1>4

LEMMA TellHiddenKeeps ==
  ASSUME PanelsInv, NEW t \in Callers, TellHidden(t)
  PROVE  PanelsInv'
<1> USE DEF PanelsInv, PanelsTypeOK, TellHidden, PanelStatusChange, After, IsAt, Go, At, AtRest, Steps
<1>1. PanelsTypeOK'
  BY PanelsAssumption DEF Statuses
<1>2. ShownIsKept'
  BY PanelsAssumption DEF ShownIsKept, InHand
<1>3. SubscribersAreServed'
  BY DEF SubscribersAreServed, Statuses
<1>4. DestroyedIsTrue'
  BY DEF DestroyedIsTrue
<1> QED
  BY <1>1, <1>2, <1>3, <1>4

LEMMA DestroyKeeps ==
  ASSUME PanelsInv, NEW t \in Callers, DestroyWindow(t)
  PROVE  PanelsInv'
<1> USE DEF PanelsInv, PanelsTypeOK, DestroyWindow, IsAt, Go, At, AtRest, Steps
<1>1. PanelsTypeOK'
  BY PanelsAssumption DEF Statuses
<1>2. ShownIsKept'
  <2>1. doing[t].panel \in Panels
    BY AtWork
  <2>2. PICK c : Go(t, c)
    OBVIOUS
  <2>3. \A q \in Panels \ {doing[t].panel} : InHand(q) => InHand(q)'
    BY <2>2, OthersHold
  <2>4. \A q \in Panels \ {doing[t].panel} : window'[q] = window[q]
    BY <2>1
  <2>5. window'[doing[t].panel] # "shown" \/ doing[t].panel \in failed'
    BY <2>1
  <2>6. panels' = panels /\ failed \subseteq failed'
    OBVIOUS
  <2> QED
    BY <2>3, <2>4, <2>5, <2>6 DEF ShownIsKept
<1>3. SubscribersAreServed'
  BY DEF SubscribersAreServed, Statuses
<1>4. DestroyedIsTrue'
  BY DEF DestroyedIsTrue
<1> QED
  BY <1>1, <1>2, <1>3, <1>4

LEMMA TellDestroyedKeeps ==
  ASSUME PanelsInv, NEW t \in Callers, TellDestroyed(t)
  PROVE  PanelsInv'
<1> USE DEF PanelsInv, PanelsTypeOK, TellDestroyed, PanelStatusChange, IsAt, Go, At, AtRest, Steps
<1>1. PanelsTypeOK'
  BY PanelsAssumption DEF Statuses
<1>2. ShownIsKept'
  BY PanelsAssumption DEF ShownIsKept, InHand
<1>3. SubscribersAreServed'
  BY DEF SubscribersAreServed, Statuses
<1>4. DestroyedIsTrue'
  BY DEF DestroyedIsTrue
<1> QED
  BY <1>1, <1>2, <1>3, <1>4

LEMMA SubscribeKeeps ==
  ASSUME PanelsInv, NEW p \in Panels, NEW s \in Statuses, NEW cb \in Callbacks, SubscribeStatus(p, s, cb)
  PROVE  PanelsInv'
<1> USE DEF PanelsInv, PanelsTypeOK, SubscribeStatus, IsAt, Go, At, AtRest, Steps
<1>1. PanelsTypeOK'
  BY PanelsAssumption DEF Statuses
<1>2. ShownIsKept'
  BY PanelsAssumption DEF ShownIsKept, InHand
<1>3. SubscribersAreServed'
  BY DEF SubscribersAreServed, Statuses
<1>4. DestroyedIsTrue'
  BY DEF DestroyedIsTrue
<1> QED
  BY <1>1, <1>2, <1>3, <1>4

\* The listener goes with the last status.
LEMMA UnsubscribeKeeps ==
  ASSUME PanelsInv, NEW p \in Panels, NEW s \in Statuses, NEW cb, UnsubscribeStatus(p, s, cb) \/ UnsubscribeStatuses(p, s)
  PROVE  PanelsInv'
<1> USE DEF PanelsInv, PanelsTypeOK, UnsubscribeStatus, UnsubscribeStatuses, ClearPanelListener, IsAt, Go, At, AtRest, Steps
<1>1. PanelsTypeOK'
  <2>1. callbacks' \in [Panels -> [Statuses -> SUBSET Callbacks]]
    <3>1. CASE UnsubscribeStatus(p, s, cb)
      <4>1. callbacks' = [callbacks EXCEPT ![p] = [callbacks[p] EXCEPT ![s] = callbacks[p][s] \ {cb}]]
        BY <3>1
      <4> QED
        BY <4>1
    <3>2. CASE UnsubscribeStatuses(p, s)
      <4>1. callbacks' = [callbacks EXCEPT ![p] = [callbacks[p] EXCEPT ![s] = {}]]
        BY <3>2
      <4> QED
        BY <4>1
    <3> QED
      BY <3>1, <3>2
  <2>2. marked' \in [Panels -> SUBSET Statuses] /\ listening' \subseteq Panels
    OBVIOUS
  <2>3. UNCHANGED <<window, hasContent, panels, doing, told, failed>>
    OBVIOUS
  <2> QED
    BY <2>1, <2>2, <2>3
<1>2. ShownIsKept'
  BY PanelsAssumption DEF ShownIsKept, InHand
<1>3. SubscribersAreServed'
  BY DEF SubscribersAreServed, Statuses
<1>4. DestroyedIsTrue'
  BY DEF DestroyedIsTrue
<1> QED
  BY <1>1, <1>2, <1>3, <1>4

LEMMA PanelStutterKeeps ==
  ASSUME PanelsInv, UNCHANGED panelVars
  PROVE  PanelsInv'
BY DEF panelVars, PanelsInv, PanelsTypeOK, ShownIsKept, InHand, IsAt, SubscribersAreServed, DestroyedIsTrue

LEMMA PanelsInitially ==
  ASSUME PanelsInit
  PROVE  PanelsInv
<1>1. PanelsTypeOK
  BY PanelsAssumption DEF PanelsInit, PanelsTypeOK, Statuses
<1> QED
  BY <1>1 DEF PanelsInit, PanelsInv, ShownIsKept, SubscribersAreServed, DestroyedIsTrue, AtRest

LEMMA PanelsAlways == PanelsSpec => []PanelsInv
<1>1. ASSUME PanelsInv, [PanelsNext]_panelVars PROVE PanelsInv'
  <2>1. CASE \E p \in Panels : CreatePanel(p) \/ SetUiContent(p)
    BY <1>1, <2>1, CreateKeeps, ContentKeeps
  <2>2. CASE \E t \in Callers, p \in Panels : ShowPanel(t, p) \/ HidePanel(t, p) \/ DestroyPanel(t, p)
    BY <1>1, <2>2, BeginKeeps
  <2>3. CASE \E t \in Callers, isFocused, isOwn \in BOOLEAN : FocusChange(t, isFocused, isOwn)
    BY <1>1, <2>3, FocusKeepsPanels
  <2>4. ASSUME NEW t \in Callers,
               \/ Ready(t) \/ GiveUp(t) \/ ShowWindow(t) \/ PushPanel(t)
               \/ CheckHide(t) \/ HideWindow(t) \/ TellHidden(t)
               \/ DestroyWindow(t) \/ TellDestroyed(t)
        PROVE  PanelsInv'
    BY <1>1, <2>4, ReadyKeeps, ShowKeeps, PushKeeps, CheckKeeps, HideKeeps, TellHiddenKeeps, DestroyKeeps, TellDestroyedKeeps
  <2>5. ASSUME NEW p \in WatchedPanels, NEW s \in Statuses,
               \/ \E cb \in Callbacks : SubscribeStatus(p, s, cb) \/ UnsubscribeStatus(p, s, cb)
               \/ UnsubscribeStatuses(p, s)
        PROVE  PanelsInv'
    <3>1. p \in Panels
      BY PanelsAssumption
    <3>2. CASE \E cb \in Callbacks : SubscribeStatus(p, s, cb)
      BY <1>1, <3>1, <3>2, SubscribeKeeps
    <3>3. CASE \E cb \in Callbacks : UnsubscribeStatus(p, s, cb)
      BY <1>1, <3>1, <3>3, UnsubscribeKeeps
    <3>4. CASE UnsubscribeStatuses(p, s)
      BY <1>1, <3>1, <3>4, UnsubscribeKeeps
    <3> QED
      BY <2>5, <3>2, <3>3, <3>4
  <2> QED
    BY <1>1, <2>1, <2>2, <2>3, <2>4, <2>5, PanelStutterKeeps DEF PanelsNext, PanelSteps, WatchSteps
<1> QED
  BY PanelsInitially, <1>1, PTL DEF PanelsSpec

\* The queue, the windows and the callbacks keep their types.
THEOREM PanelsTypeCorrect == PanelsSpec => []PanelsTypeOK
BY PanelsAlways, PTL DEF PanelsInv

\* For any panels and any number of threads that show, hide and destroy them at once while
\* the focus changes: a panel on the screen is queued or about to be, unless the window
\* manager made an attempt to put it away fail, and a script that subscribed to a status is
\* served (ShowPanel, OnFocusChange, HidePanel, DestroyPanel, Off).
THEOREM PanelsNoShownPanelIsForgotten == PanelsSpec => []NoShownPanelIsForgotten
<1>1. PanelsInv => NoShownPanelIsForgotten
  BY DEF PanelsInv, ShownIsKept, SubscribersAreServed, DestroyedIsTrue, NoShownPanelIsForgotten
<1> QED
  BY <1>1, PanelsAlways, PTL

-----------------------------------------------------------------------------
(* A subscriber is heard. *)

\* Whoever registered keeps the service's listener until it withdraws or is displaced.
RegisteredIsListener == \A c \in registered \ (withdrawn \cup displaced) : listener = c

\* An entry posted to a script names no callback the script has not got; only the
\* JavaScript client posts entries, and its callbacks stay.
PostedIsSubscribed ==
  /\ \A c \in Clients : ToSet(posted[c]) \subseteq SUBSET cbs[c]
  /\ \A c \in Clients \ JsClients : posted[c] = <<>>

ValidIsRegistered == valid \cap JsClients \subseteq registered

\* A registration under way is that of a client that loads; one that is alone stored
\* pid_ last, and so did the one that ended last if it was alone.
PidFollowsListener ==
  /\ \A r \in registering : /\ phase[r.client] = "loading"
                            /\ r.alone => registering = {r} /\ pid = r.client
  /\ \A q, r \in registering : q.client = r.client => q = r
  /\ ~mixed /\ registering = {} => \A c \in Clients : listener = c => pid = c

ListenersInv ==
  ListenersTypeOK /\ RegisteredIsListener /\ PostedIsSubscribed /\ ValidIsRegistered /\ PidFollowsListener

-----------------------------------------------------------------------------
(* One lemma per action of ClientListeners. *)

LEMMA LoadFailsKeeps ==
  ASSUME ListenersInv, NEW c \in Clients, NEW found \in BOOLEAN, LoadUnregistered(c, found)
  PROVE  ListenersInv'
<1> USE DEF ListenersInv, LoadUnregistered, serviceVars, scriptVars, Entering
<1>0. ListenersTypeOK
  OBVIOUS
<1>1. ListenersTypeOK'
  BY <1>0, ClientsAssumption DEF ListenersTypeOK
<1>2. RegisteredIsListener'
  BY <1>0, ClientsAssumption DEF ListenersTypeOK, RegisteredIsListener
<1>3. PostedIsSubscribed'
  BY <1>0, ClientsAssumption DEF ListenersTypeOK, PostedIsSubscribed
<1>4. ValidIsRegistered'
  BY <1>0, ClientsAssumption DEF ListenersTypeOK, ValidIsRegistered
<1>5. PidFollowsListener'
  BY <1>0, ClientsAssumption DEF ListenersTypeOK, PidFollowsListener
<1> QED
  BY <1>1, <1>2, <1>3, <1>4, <1>5

\* A registration that begins while another is under way is not alone, nor is the other.
LEMMA RegisterKeeps ==
  ASSUME ListenersInv, NEW c \in Clients, RegisterListener(c)
  PROVE  ListenersInv'
<1> USE DEF ListenersInv, RegisterListener, serviceVars, scriptVars, Entering
<1>0. ListenersTypeOK
  OBVIOUS
<1>1. ListenersTypeOK'
  <2>1. ASSUME NEW r \in registering PROVE [r EXCEPT !.alone = FALSE] \in [client : Clients, alone : BOOLEAN]
    BY <1>0 DEF ListenersTypeOK
  <2>2. [client |-> c, alone |-> registering = {}] \in [client : Clients, alone : BOOLEAN]
    OBVIOUS
  <2>3. registering' \subseteq [client : Clients, alone : BOOLEAN]
    BY <2>1, <2>2
  <2> QED
    BY <1>0, <2>3 DEF ListenersTypeOK
<1>2. RegisteredIsListener'
  BY <1>0, ClientsAssumption DEF ListenersTypeOK, RegisteredIsListener
<1>3. PostedIsSubscribed'
  BY <1>0, ClientsAssumption DEF ListenersTypeOK, PostedIsSubscribed
<1>4. ValidIsRegistered'
  BY <1>0, ClientsAssumption DEF ListenersTypeOK, ValidIsRegistered
<1>5. PidFollowsListener'
  <2> DEFINE new == [client |-> c, alone |-> registering = {}]
             Joined(r) == [r EXCEPT !.alone = FALSE]
  <2>1. registering' = {Joined(r) : r \in registering} \cup {new} /\ pid' = c
    OBVIOUS
  <2>2. new.client = c /\ (new.alone <=> registering = {}) /\ phase'[c] = "loading"
    BY <1>0 DEF ListenersTypeOK
  <2>3. ASSUME NEW r \in registering
        PROVE  /\ Joined(r).client = r.client /\ Joined(r).alone = FALSE
               /\ r.client # c /\ phase'[r.client] = "loading"
    <3>1. r \in [client : Clients, alone : BOOLEAN] /\ phase[r.client] = "loading" /\ phase[c] = "unloaded"
      BY <1>0 DEF ListenersTypeOK, PidFollowsListener
    <3>2. phase'[r.client] = "loading"
      BY <1>0, <3>1 DEF ListenersTypeOK
    <3> QED
      BY <3>1, <3>2
  <2>4. ASSUME NEW q \in registering, NEW r \in registering, Joined(q).client = Joined(r).client PROVE q = r
    BY <2>3, <2>4 DEF PidFollowsListener
  <2> HIDE DEF new, Joined
  <2>5. \A r \in registering' : /\ phase'[r.client] = "loading"
                                /\ r.alone => registering' = {r} /\ pid' = r.client
    <3>1. ASSUME registering = {} PROVE registering' = {new}
      BY <2>1, <3>1
    <3>2. ASSUME NEW r \in registering'
          PROVE  phase'[r.client] = "loading" /\ (r.alone => registering' = {r} /\ pid' = r.client)
      <4>1. CASE r = new
        BY <2>1, <2>2, <3>1, <4>1
      <4>2. CASE r # new
        <5>1. PICK q \in registering : r = Joined(q)
          BY <2>1, <4>2
        <5> QED
          BY <2>3, <5>1
      <4> QED
        BY <4>1, <4>2
    <3> QED
      BY <3>2
  <2>6. ASSUME NEW q \in registering', NEW r \in registering', q.client = r.client PROVE q = r
    <3>1. \A s \in registering' : s = new \/ \E d \in registering : s = Joined(d)
      BY <2>1
    <3>2. ASSUME NEW s \in registering', s # new PROVE s.client # c
      <4>1. PICK d \in registering : s = Joined(d)
        BY <3>1, <3>2
      <4>2. Joined(d).client = d.client /\ d.client # c
        BY <2>3
      <4> QED
        BY <4>1, <4>2
    <3>3. CASE q = new \/ r = new
      BY <2>2, <2>6, <3>2, <3>3
    <3>4. CASE q # new /\ r # new
      BY <2>4, <2>6, <3>1, <3>4
    <3> QED
      BY <3>3, <3>4
  <2>7. registering' # {}
    BY <2>1
  <2> QED
    BY <2>5, <2>6, <2>7 DEF PidFollowsListener
<1> QED
  BY <1>1, <1>2, <1>3, <1>4, <1>5

\* The registration that ends alone is the one that stored pid_.
LEMMA StoreKeeps ==
  ASSUME ListenersInv, NEW r \in registering, StoreListener(r)
  PROVE  ListenersInv'
<1> USE DEF ListenersInv, StoreListener, serviceVars, scriptVars, Entering
<1>0. ListenersTypeOK
  OBVIOUS
<1>1. ListenersTypeOK'
  BY <1>0, ClientsAssumption DEF ListenersTypeOK
<1>2. RegisteredIsListener'
  BY <1>0, ClientsAssumption DEF ListenersTypeOK, RegisteredIsListener
<1>3. PostedIsSubscribed'
  BY <1>0, ClientsAssumption DEF ListenersTypeOK, PostedIsSubscribed
<1>4. ValidIsRegistered'
  BY <1>0, ClientsAssumption DEF ListenersTypeOK, ValidIsRegistered
<1>5. PidFollowsListener'
  BY <1>0, ClientsAssumption DEF ListenersTypeOK, PidFollowsListener
<1> QED
  BY <1>1, <1>2, <1>3, <1>4, <1>5

LEMMA SubscribeScriptKeeps ==
  ASSUME ListenersInv, NEW c \in Clients, NEW cb \in ScriptCbs, SubscribeScript(c, cb)
  PROVE  ListenersInv'
<1> USE DEF ListenersInv, SubscribeScript, serviceVars, scriptVars, Entering
<1>0. ListenersTypeOK
  OBVIOUS
<1>1. ListenersTypeOK'
  BY <1>0, ClientsAssumption DEF ListenersTypeOK
<1>2. RegisteredIsListener'
  BY <1>0, ClientsAssumption DEF ListenersTypeOK, RegisteredIsListener
<1>3. PostedIsSubscribed'
  BY <1>0, ClientsAssumption DEF ListenersTypeOK, PostedIsSubscribed
<1>4. ValidIsRegistered'
  BY <1>0, ClientsAssumption DEF ListenersTypeOK, ValidIsRegistered
<1>5. PidFollowsListener'
  BY <1>0, ClientsAssumption DEF ListenersTypeOK, PidFollowsListener
<1> QED
  BY <1>1, <1>2, <1>3, <1>4, <1>5

\* Who loses the listener to this client is displaced.
LEMMA UnsubscribeOneKeeps ==
  ASSUME ListenersInv, NEW c \in Clients, NEW cb \in ScriptCbs, UnsubscribeOne(c, cb)
  PROVE  ListenersInv'
<1> USE DEF ListenersInv, UnsubscribeOne, UnregisterListener, serviceVars, scriptVars, Entering
<1>0. ListenersTypeOK
  OBVIOUS
<1>1. ListenersTypeOK'
  BY <1>0, ClientsAssumption DEF ListenersTypeOK
<1>2. RegisteredIsListener'
  BY <1>0, ClientsAssumption DEF ListenersTypeOK, RegisteredIsListener
<1>3. PostedIsSubscribed'
  <2>1. posted[c] = <<>> /\ posted' = posted /\ \A d \in Clients \ {c} : cbs'[d] = cbs[d]
    BY <1>0 DEF PostedIsSubscribed, ListenersTypeOK
  <2> QED
    BY <2>1, EmptyHoldsNothing DEF PostedIsSubscribed
<1>4. ValidIsRegistered'
  BY <1>0, ClientsAssumption DEF ListenersTypeOK, ValidIsRegistered
<1>5. PidFollowsListener'
  BY <1>0, ClientsAssumption DEF ListenersTypeOK, PidFollowsListener
<1> QED
  BY <1>1, <1>2, <1>3, <1>4, <1>5

LEMMA UnsubscribeAllKeeps ==
  ASSUME ListenersInv, NEW c \in Clients, UnsubscribeAll(c)
  PROVE  ListenersInv'
<1> USE DEF ListenersInv, UnsubscribeAll, serviceVars, scriptVars, Entering
<1>0. ListenersTypeOK
  OBVIOUS
<1>1. ListenersTypeOK'
  BY <1>0, ClientsAssumption DEF ListenersTypeOK
<1>2. RegisteredIsListener'
  BY <1>0, ClientsAssumption DEF ListenersTypeOK, RegisteredIsListener
<1>3. PostedIsSubscribed'
  <2>1. posted[c] = <<>> /\ posted' = posted /\ \A d \in Clients \ {c} : cbs'[d] = cbs[d]
    BY <1>0 DEF PostedIsSubscribed, ListenersTypeOK
  <2> QED
    BY <2>1, EmptyHoldsNothing DEF PostedIsSubscribed
<1>4. ValidIsRegistered'
  BY <1>0, ClientsAssumption DEF ListenersTypeOK, ValidIsRegistered
<1>5. PidFollowsListener'
  BY <1>0, ClientsAssumption DEF ListenersTypeOK, PidFollowsListener
<1> QED
  BY <1>1, <1>2, <1>3, <1>4, <1>5

LEMMA SelectionKeeps ==
  ASSUME ListenersInv, NEW c \in Clients, OnSelectionEvent(c)
  PROVE  ListenersInv'
<1> USE DEF ListenersInv, OnSelectionEvent, serviceVars, scriptVars, Entering
<1>0. ListenersTypeOK
  OBVIOUS
<1>1. ListenersTypeOK'
  BY <1>0, ClientsAssumption DEF ListenersTypeOK
<1>2. RegisteredIsListener'
  BY <1>0, ClientsAssumption DEF ListenersTypeOK, RegisteredIsListener
<1>3. PostedIsSubscribed'
  <2>1. posted[c] \in Seq(SUBSET ScriptCbs) /\ cbs[c] \in SUBSET ScriptCbs
    BY <1>0 DEF ListenersTypeOK
  <2>2. posted'[c] = Append(posted[c], cbs[c]) /\ \A d \in Clients \ {c} : posted'[d] = posted[d]
    BY <1>0 DEF ListenersTypeOK
  <2>3. ToSet(posted'[c]) = ToSet(posted[c]) \cup {cbs[c]}
    BY <2>1, <2>2, QueueHolds
  <2> QED
    BY <2>2, <2>3 DEF PostedIsSubscribed
<1>4. ValidIsRegistered'
  BY <1>0, ClientsAssumption DEF ListenersTypeOK, ValidIsRegistered
<1>5. PidFollowsListener'
  BY <1>0, ClientsAssumption DEF ListenersTypeOK, PidFollowsListener
<1> QED
  BY <1>1, <1>2, <1>3, <1>4, <1>5

LEMMA TraverseKeeps ==
  ASSUME ListenersInv, NEW c \in Clients, Traverse(c)
  PROVE  ListenersInv'
<1> USE DEF ListenersInv, Traverse, serviceVars, scriptVars, Entering
<1>0. ListenersTypeOK
  OBVIOUS
<1>1. ListenersTypeOK'
  BY <1>0, ClientsAssumption DEF ListenersTypeOK
<1>2. RegisteredIsListener'
  BY <1>0, ClientsAssumption DEF ListenersTypeOK, RegisteredIsListener
<1>3. PostedIsSubscribed'
  <2>1. posted[c] \in Seq(SUBSET ScriptCbs) /\ posted[c] # <<>>
    BY <1>0 DEF ListenersTypeOK
  <2>2. posted'[c] = Tail(posted[c]) /\ \A d \in Clients \ {c} : posted'[d] = posted[d]
    BY <1>0 DEF ListenersTypeOK
  <2>3. ToSet(posted'[c]) \subseteq ToSet(posted[c])
    BY <2>1, <2>2, QueueHolds
  <2>4. c \in JsClients
    BY <2>1 DEF PostedIsSubscribed
  <2> QED
    BY <2>2, <2>3, <2>4 DEF PostedIsSubscribed
<1>4. ValidIsRegistered'
  BY <1>0, ClientsAssumption DEF ListenersTypeOK, ValidIsRegistered
<1>5. PidFollowsListener'
  BY <1>0, ClientsAssumption DEF ListenersTypeOK, PidFollowsListener
<1> QED
  BY <1>1, <1>2, <1>3, <1>4, <1>5

LEMMA ExitKeeps ==
  ASSUME ListenersInv, NEW c \in Clients, Exit(c)
  PROVE  ListenersInv'
<1> USE DEF ListenersInv, Exit, serviceVars, scriptVars, Entering
<1>0. ListenersTypeOK
  OBVIOUS
<1>1. ListenersTypeOK'
  BY <1>0, ClientsAssumption DEF ListenersTypeOK
<1>2. RegisteredIsListener'
  BY <1>0, ClientsAssumption DEF ListenersTypeOK, RegisteredIsListener
<1>3. PostedIsSubscribed'
  <2>1. /\ cbs' = [cbs EXCEPT ![c] = {}] /\ posted' = [posted EXCEPT ![c] = <<>>]
    OBVIOUS
  <2>2. posted'[c] = <<>> /\ \A d \in Clients \ {c} : posted'[d] = posted[d] /\ cbs'[d] = cbs[d]
    BY <1>0, <2>1 DEF ListenersTypeOK
  <2> QED
    BY <2>2, EmptyHoldsNothing DEF PostedIsSubscribed
<1>4. ValidIsRegistered'
  BY <1>0, ClientsAssumption DEF ListenersTypeOK, ValidIsRegistered
<1>5. PidFollowsListener'
  BY <1>0, ClientsAssumption DEF ListenersTypeOK, PidFollowsListener
<1> QED
  BY <1>1, <1>2, <1>3, <1>4, <1>5

LEMMA SwitchKeeps ==
  ASSUME ListenersInv, NEW b \in Bundles, SwitchApp(b)
  PROVE  ListenersInv'
<1> USE DEF ListenersInv, SwitchApp, serviceVars, scriptVars, Entering
<1>0. ListenersTypeOK
  OBVIOUS
<1>1. ListenersTypeOK'
  BY <1>0, ClientsAssumption DEF ListenersTypeOK
<1>2. RegisteredIsListener'
  BY <1>0, ClientsAssumption DEF ListenersTypeOK, RegisteredIsListener
<1>3. PostedIsSubscribed'
  BY <1>0, ClientsAssumption DEF ListenersTypeOK, PostedIsSubscribed
<1>4. ValidIsRegistered'
  BY <1>0, ClientsAssumption DEF ListenersTypeOK, ValidIsRegistered
<1>5. PidFollowsListener'
  BY <1>0, ClientsAssumption DEF ListenersTypeOK, PidFollowsListener
<1> QED
  BY <1>1, <1>2, <1>3, <1>4, <1>5

LEMMA ListenersStutterKeeps ==
  ASSUME ListenersInv, UNCHANGED listenerVars
  PROVE  ListenersInv'
BY DEF listenerVars, serviceVars, scriptVars, ListenersInv, ListenersTypeOK, RegisteredIsListener,
       PostedIsSubscribed, ValidIsRegistered, PidFollowsListener

LEMMA ListenersInitially ==
  ASSUME ListenersInit
  PROVE  ListenersInv
<1>1. ListenersTypeOK
  <2>1. posted \in [Clients -> Seq(SUBSET ScriptCbs)] /\ cbs \in [Clients -> SUBSET ScriptCbs]
    BY DEF ListenersInit
  <2>2. phase \in [Clients -> {"unloaded", "loading", "loaded"}]
    BY DEF ListenersInit
  <2>3. stub \cup valid \cup registered \cup withdrawn \cup displaced \subseteq Clients
    BY DEF ListenersInit
  <2> QED
    BY <2>1, <2>2, <2>3 DEF ListenersInit, ListenersTypeOK
<1>2. RegisteredIsListener /\ ValidIsRegistered
  BY DEF ListenersInit, RegisteredIsListener, ValidIsRegistered
<1>3. PostedIsSubscribed
  BY EmptyHoldsNothing DEF ListenersInit, PostedIsSubscribed
<1>4. PidFollowsListener
  BY ClientsAssumption DEF ListenersInit, PidFollowsListener
<1> QED
  BY <1>1, <1>2, <1>3, <1>4 DEF ListenersInv

LEMMA ListenersAlways == ListenersSpec => []ListenersInv
<1>1. ASSUME ListenersInv, [ListenersNext]_listenerVars PROVE ListenersInv'
  <2>1. ASSUME NEW c \in Clients, \E found \in BOOLEAN : LoadUnregistered(c, found) PROVE ListenersInv'
    BY <1>1, <2>1, LoadFailsKeeps
  <2>2. ASSUME NEW c \in Clients, RegisterListener(c) PROVE ListenersInv'
    BY <1>1, <2>2, RegisterKeeps
  <2>3. ASSUME NEW c \in Clients, NEW cb \in ScriptCbs, SubscribeScript(c, cb) \/ UnsubscribeOne(c, cb)
        PROVE  ListenersInv'
    BY <1>1, <2>3, SubscribeScriptKeeps, UnsubscribeOneKeeps
  <2>4. ASSUME NEW c \in Clients, UnsubscribeAll(c) \/ OnSelectionEvent(c) \/ Traverse(c) \/ Exit(c)
        PROVE  ListenersInv'
    BY <1>1, <2>4, UnsubscribeAllKeeps, SelectionKeeps, TraverseKeeps, ExitKeeps
  <2>5. ASSUME NEW r \in registering, StoreListener(r) PROVE ListenersInv'
    BY <1>1, <2>5, StoreKeeps
  <2>6. ASSUME NEW b \in Bundles, SwitchApp(b) PROVE ListenersInv'
    BY <1>1, <2>6, SwitchKeeps
  <2> QED
    BY <1>1, <2>1, <2>2, <2>3, <2>4, <2>5, <2>6, ListenersStutterKeeps DEF ListenersNext
<1> QED
  BY ListenersInitially, <1>1, PTL DEF ListenersSpec

\* What the service and the clients keep has its types.
THEOREM ListenersTypeCorrect == ListenersSpec => []ListenersTypeOK
BY ListenersAlways, PTL DEF ListenersInv

\* For any clients, bundles and callbacks, with the registrations of several clients
\* between their two stores at once and processes that exit at any time: a subscriber
\* is heard unless it withdrew or was displaced, a posted entry calls nobody who has
\* left, and pid_ is that of the listener unless two registrations overlapped
\* (RegisterListener, UnregisterListener, OnSelectionEvent, IsCurrentSelectionApp).
THEOREM ListenersSubscriberIsHeard == ListenersSpec => []SubscriberIsHeard
<1>1. ListenersInv => SubscriberIsHeard
  BY DEF ListenersInv, ListenersTypeOK, RegisteredIsListener, PostedIsSubscribed, ValidIsRegistered,
         PidFollowsListener, SubscriberIsHeard, IsCurrentSelectionApp
<1> QED
  BY <1>1, ListenersAlways, PTL

-----------------------------------------------------------------------------
(* Calls take their turns. *)

\* The calls that have an entry in jsQueue_, their own or another's.
UnderWay == {c \in Calls \ Posted : stage[c] \in {"queued", "waiting", "running", "refused"}}

QueueCountsCalls == IsFiniteSet(UnderWay) /\ Len(jsQueue) = Cardinality(UnderWay)

\* Whoever pops: what is left in jsQueue_ are the calls that entered it last.
QueueEndsOrder ==
  /\ Len(jsQueue) <= Len(order)
  /\ \A i \in 1 .. Len(jsQueue) : jsQueue[i] = order[i + (Len(order) - Len(jsQueue))]

\* While nobody gave up waiting: the calls that ran, and the one that runs, are those
\* that have left the queue, and its front.
ServedInTurn ==
  late = {} =>
    /\ \A c \in Calls : stage[c] = "running" => Turn(c)
    /\ \A i \in 1 .. Len(served) : served[i] = order[i]
    /\ Len(served) = Len(order) - Len(jsQueue)
                       + (IF \E c \in Calls : stage[c] = "running" THEN 1 ELSE 0)

SerialInTurn ==
  refused \cap Posted = {} =>
    /\ isRunning <=> taskQueue # <<>>
    /\ \A c \in Posted : stage[c] = "queued" <=> taskQueue # <<>> /\ Head(taskQueue) = c

CallsInv == CallsTypeOK /\ QueueCountsCalls /\ QueueEndsOrder /\ ServedInTurn /\ SerialInTurn

-----------------------------------------------------------------------------
\* The calls under way do not change unless one enters or leaves.
LEMMA SameUnderWay ==
  ASSUME QueueCountsCalls, UNCHANGED jsQueue,
         \A c \in Calls \ Posted : (stage[c] \in {"queued", "waiting", "running", "refused"})
                                   <=> (stage'[c] \in {"queued", "waiting", "running", "refused"})
  PROVE  QueueCountsCalls'
<1>1. UnderWay' = UnderWay
  BY DEF UnderWay
<1> QED
  BY <1>1 DEF QueueCountsCalls

(* One lemma per action of AsyncCalls. *)

\* A call enters the queue and the order at their ends.
LEMMA CallKeeps ==
  ASSUME CallsInv, NEW c \in Calls, NEW accepted \in BOOLEAN, Call(c, accepted)
  PROVE  CallsInv'
<1> USE DEF CallsInv, Call, Moves, serialVars
<1>0. CallsTypeOK
  OBVIOUS
<1>1. CallsTypeOK'
  BY <1>0, CallsAssumption, QueueMoves DEF CallsTypeOK, Stages, SerialStages
<1>2. QueueCountsCalls'
  <2>1. UnderWay' = UnderWay \cup {c} /\ c \notin UnderWay
    BY <1>0 DEF CallsTypeOK, UnderWay
  <2>2. IsFiniteSet(UnderWay) /\ Len(jsQueue) = Cardinality(UnderWay)
    BY DEF QueueCountsCalls
  <2>3. IsFiniteSet(UnderWay') /\ Cardinality(UnderWay') = Cardinality(UnderWay) + 1
    BY ONLY <2>1, <2>2, FS_AddElement
  <2>4. Len(jsQueue') = Len(jsQueue) + 1
    BY <1>0, QueueMoves DEF CallsTypeOK
  <2> QED
    BY <2>2, <2>3, <2>4 DEF QueueCountsCalls
<1>3. QueueEndsOrder'
  <2>1. /\ jsQueue \in Seq(Calls \ Posted) /\ order \in Seq(Calls \ Posted) /\ c \in Calls \ Posted
        /\ jsQueue' = Append(jsQueue, c) /\ order' = Append(order, c)
    BY <1>0 DEF CallsTypeOK
  <2>2. /\ Len(jsQueue') = Len(jsQueue) + 1 /\ Len(order') = Len(order) + 1
        /\ \A i \in 1 .. Len(jsQueue) : jsQueue'[i] = jsQueue[i]
        /\ \A i \in 1 .. Len(order) : order'[i] = order[i]
        /\ jsQueue'[Len(jsQueue) + 1] = c /\ order'[Len(order) + 1] = c
        /\ Len(jsQueue) \in Nat /\ Len(order) \in Nat
    BY <2>1, QueueMoves
  <2>3. Len(jsQueue') <= Len(order')
    BY <2>2 DEF QueueEndsOrder
  <2>4. ASSUME NEW i \in 1 .. Len(jsQueue') PROVE jsQueue'[i] = order'[i + (Len(order') - Len(jsQueue'))]
    <3>1. CASE i = Len(jsQueue) + 1
      BY ONLY <2>2, <3>1
    <3>2. CASE i # Len(jsQueue) + 1
      <4>1. i \in 1 .. Len(jsQueue) /\ i + (Len(order) - Len(jsQueue)) \in 1 .. Len(order)
        BY ONLY <2>2, <2>4, <3>2, QueueEndsOrder DEF QueueEndsOrder
      <4>2. jsQueue[i] = order[i + (Len(order) - Len(jsQueue))]
        BY <4>1 DEF QueueEndsOrder
      <4>3. Len(order') - Len(jsQueue') = Len(order) - Len(jsQueue)
        BY ONLY <2>2
      <4> QED
        BY ONLY <2>2, <4>1, <4>2, <4>3
    <3> QED
      BY <3>1, <3>2
  <2> QED
    BY <2>3, <2>4 DEF QueueEndsOrder
<1>4. ServedInTurn'
  <2>1. /\ jsQueue \in Seq(Calls \ Posted) /\ order \in Seq(Calls \ Posted) /\ c \in Calls \ Posted
        /\ jsQueue' = Append(jsQueue, c) /\ order' = Append(order, c) /\ served' = served /\ served \in Seq(Calls \ Posted)
    BY <1>0 DEF CallsTypeOK
  <2>2. /\ Len(jsQueue') = Len(jsQueue) + 1 /\ Len(order') = Len(order) + 1
        /\ \A i \in 1 .. Len(order) : order'[i] = order[i]
        /\ Len(jsQueue) \in Nat /\ Len(order) \in Nat /\ Len(served) \in Nat
        /\ jsQueue' # <<>> /\ (jsQueue # <<>> => Head(jsQueue') = Head(jsQueue))
        /\ (jsQueue # <<>> => Len(jsQueue) > 0)
    BY ONLY <2>1, QueueMoves
  <2>3. \A d \in Calls : stage'[d] = "running" <=> stage[d] = "running"
    BY <1>0 DEF CallsTypeOK
  <2>4. late' = late
    OBVIOUS
  <2> HIDE DEF Call, Moves
  <2>5. ASSUME late = {} PROVE Len(served) <= Len(order)
    <3>1. (\E d \in Calls : stage[d] = "running") => Len(jsQueue) > 0
      BY <2>2, <2>5 DEF ServedInTurn, Turn
    <3> QED
      BY <2>2, <2>5, <3>1 DEF ServedInTurn, QueueEndsOrder
  <2>6. ASSUME late = {} PROVE /\ \A d \in Calls : stage'[d] = "running" => Turn(d)'
                             /\ \A i \in 1 .. Len(served) : served[i] = order'[i]
    BY <2>2, <2>3, <2>5, <2>6 DEF ServedInTurn, Turn
  <2>7. (\E d \in Calls : stage'[d] = "running") <=> (\E d \in Calls : stage[d] = "running")
    BY <2>3
  <2>8. ASSUME late = {}
        PROVE  Len(served') = Len(order') - Len(jsQueue') + (IF \E d \in Calls : stage'[d] = "running" THEN 1 ELSE 0)
    <3>1. Len(served) = Len(order) - Len(jsQueue) + (IF \E d \in Calls : stage[d] = "running" THEN 1 ELSE 0)
      BY <2>8 DEF ServedInTurn
    <3>2. Len(order') - Len(jsQueue') = Len(order) - Len(jsQueue)
      BY ONLY <2>2
    <3> QED
      BY <2>1, <2>7, <3>1, <3>2
  <2> QED
    BY <2>1, <2>4, <2>6, <2>8 DEF ServedInTurn
<1>5. SerialInTurn'
  BY <1>0 DEF CallsTypeOK, SerialInTurn
<1> QED
  BY <1>1, <1>2, <1>3, <1>4, <1>5

LEMMA ExecuteKeeps ==
  ASSUME CallsInv, NEW c \in Calls, OnExecute(c)
  PROVE  CallsInv'
<1> USE DEF CallsInv, OnExecute, Moves, serialVars
<1>0. CallsTypeOK
  OBVIOUS
<1>1. CallsTypeOK'
  BY <1>0, CallsAssumption, QueueMoves DEF CallsTypeOK, Stages, SerialStages
<1>2. QueueCountsCalls'
  BY <1>0, SameUnderWay DEF CallsTypeOK
<1>3. QueueEndsOrder'
  BY DEF QueueEndsOrder
<1>4. ServedInTurn'
  BY <1>0 DEF CallsTypeOK, ServedInTurn, Turn
<1>5. SerialInTurn'
  BY <1>0 DEF CallsTypeOK, SerialInTurn
<1> QED
  BY <1>1, <1>2, <1>3, <1>4, <1>5

\* The front of the queue runs when nobody does: it is next in the order.
LEMMA WaitKeeps ==
  ASSUME CallsInv, NEW c \in Calls, Wait(c)
  PROVE  CallsInv'
<1> USE DEF CallsInv, Wait, Moves, serialVars
<1>0. CallsTypeOK
  OBVIOUS
<1>1. CallsTypeOK'
  BY <1>0, CallsAssumption, QueueMoves DEF CallsTypeOK, Stages, SerialStages
<1>2. QueueCountsCalls'
  BY <1>0, SameUnderWay DEF CallsTypeOK
<1>3. QueueEndsOrder'
  BY DEF QueueEndsOrder
<1>4. ServedInTurn'
  <2>1. /\ jsQueue \in Seq(Calls \ Posted) /\ order \in Seq(Calls \ Posted) /\ c \in Calls \ Posted
        /\ served' = Append(served, c) /\ served \in Seq(Calls \ Posted)
        /\ jsQueue # <<>> /\ Head(jsQueue) = c /\ stage[c] = "waiting"
    BY <1>0 DEF CallsTypeOK, Turn, SerialStages
  <2>2. /\ Len(served') = Len(served) + 1 /\ served'[Len(served) + 1] = c
        /\ \A i \in 1 .. Len(served) : served'[i] = served[i]
        /\ Len(jsQueue) \in Nat \ {0} /\ Len(order) \in Nat /\ Len(served) \in Nat /\ jsQueue[1] = c
    BY <2>1, QueueMoves
  <2>3. stage'[c] = "running" /\ \A d \in Calls \ {c} : stage'[d] = stage[d]
    BY <1>0 DEF CallsTypeOK
  <2>4. UNCHANGED <<jsQueue, order, late>>
    OBVIOUS
  <2>5. ASSUME late = {} PROVE \A d \in Calls : stage[d] # "running"
    BY <2>1, <2>5 DEF ServedInTurn, Turn
  <2>6. jsQueue[1] = order[1 + (Len(order) - Len(jsQueue))]
    BY <2>2 DEF QueueEndsOrder
  <2>7. ASSUME late = {}
        PROVE  /\ \A d \in Calls : stage'[d] = "running" => Turn(d)
               /\ \A i \in 1 .. Len(served') : served'[i] = order[i]
               /\ Len(served') = Len(order) - Len(jsQueue) + 1
    <3>1. Len(served) = Len(order) - Len(jsQueue) /\ \A i \in 1 .. Len(served) : served[i] = order[i]
      BY <2>2, <2>5, <2>7 DEF ServedInTurn
    <3>2. \A i \in 1 .. Len(served') : served'[i] = order[i]
      BY ONLY <2>2, <2>6, <3>1
    <3>3. Len(served') = Len(order) - Len(jsQueue) + 1
      BY ONLY <2>2, <3>1
    <3>4. \A d \in Calls : stage'[d] = "running" => Turn(d)
      BY <2>1, <2>3, <2>5, <2>7 DEF Turn
    <3> QED
      BY <3>2, <3>3, <3>4
  <2> QED
    BY <2>3, <2>4, <2>7 DEF ServedInTurn, Turn
<1>5. SerialInTurn'
  BY <1>0 DEF CallsTypeOK, SerialInTurn
<1> QED
  BY <1>1, <1>2, <1>3, <1>4, <1>5

\* After a time-out nothing is said of the order any more.
LEMMA TimeOutKeeps ==
  ASSUME CallsInv, NEW c \in Calls, WaitTimedOut(c)
  PROVE  CallsInv'
<1> USE DEF CallsInv, WaitTimedOut, Moves, serialVars
<1>0. CallsTypeOK
  OBVIOUS
<1>1. CallsTypeOK'
  BY <1>0, CallsAssumption, QueueMoves DEF CallsTypeOK, Stages, SerialStages
<1>2. QueueCountsCalls'
  BY <1>0, SameUnderWay DEF CallsTypeOK
<1>3. QueueEndsOrder'
  BY DEF QueueEndsOrder
<1>4. ServedInTurn'
  BY <1>0 DEF CallsTypeOK, ServedInTurn, Turn
<1>5. SerialInTurn'
  BY <1>0 DEF CallsTypeOK, SerialInTurn
<1> QED
  BY <1>1, <1>2, <1>3, <1>4, <1>5

\* Whoever pops, one entry goes for one call that ends.
LEMMA PopKeeps ==
  ASSUME CallsInv, NEW c \in Calls, Pop(c)
  PROVE  CallsInv'
<1> USE DEF CallsInv, Pop, Moves, serialVars
<1>0. CallsTypeOK
  OBVIOUS
<1>1. CallsTypeOK'
  <2>1. c \in UnderWay
    BY <1>0 DEF CallsTypeOK, UnderWay, SerialStages
  <2>2. jsQueue # <<>>
    BY <2>1, FS_EmptySet, <1>0, QueueMoves DEF CallsTypeOK, QueueCountsCalls
  <2>3. jsQueue' \in Seq(Calls \ Posted)
    BY <1>0, <2>2, QueueMoves DEF CallsTypeOK
  <2>4. c \notin Posted
    BY <2>1 DEF UnderWay
  <2> QED
    BY <1>0, <2>3, <2>4 DEF CallsTypeOK, Stages, SerialStages
<1>2. QueueCountsCalls'
  <2>1. UnderWay' = UnderWay \ {c} /\ c \in UnderWay
    BY <1>0 DEF CallsTypeOK, UnderWay, SerialStages
  <2>2. IsFiniteSet(UnderWay) /\ Len(jsQueue) = Cardinality(UnderWay)
    BY DEF QueueCountsCalls
  <2>3. IsFiniteSet(UnderWay') /\ Cardinality(UnderWay') = Cardinality(UnderWay) - 1
    BY ONLY <2>1, <2>2, FS_RemoveElement
  <2>4. jsQueue # <<>>
    BY <2>1, <2>2, FS_EmptySet, <1>0, QueueMoves DEF CallsTypeOK
  <2>5. Len(jsQueue') = Len(jsQueue) - 1
    BY <1>0, <2>4, QueueMoves DEF CallsTypeOK
  <2> QED
    BY <2>2, <2>3, <2>5 DEF QueueCountsCalls
<1>3. QueueEndsOrder'
  <2>1. c \in UnderWay
    BY <1>0 DEF CallsTypeOK, UnderWay, SerialStages
  <2>2. jsQueue # <<>>
    BY <2>1, FS_EmptySet, <1>0, QueueMoves DEF CallsTypeOK, QueueCountsCalls
  <2>3. /\ Len(jsQueue') = Len(jsQueue) - 1 /\ Len(jsQueue) \in Nat /\ Len(order) \in Nat
        /\ \A i \in 1 .. Len(jsQueue') : jsQueue'[i] = jsQueue[i + 1]
        /\ order' = order
    BY <1>0, <2>2, QueueMoves DEF CallsTypeOK
  <2> QED
    BY ONLY <2>3, QueueEndsOrder DEF QueueEndsOrder
<1>4. ServedInTurn'
  <2>1. stage[c] = "running" /\ stage'[c] # "running" /\ \A d \in Calls \ {c} : stage'[d] = stage[d]
    BY <1>0 DEF CallsTypeOK
  <2>2. UNCHANGED <<late, order, served>> /\ jsQueue' = Tail(jsQueue)
    OBVIOUS
  <2>3. ASSUME late = {}
        PROVE  /\ \A d \in Calls : stage'[d] # "running"
               /\ Len(jsQueue') = Len(jsQueue) - 1
               /\ Len(served) = Len(order) - Len(jsQueue) + 1
               /\ \A i \in 1 .. Len(served) : served[i] = order[i]
    <3>1. jsQueue # <<>> /\ Head(jsQueue) = c /\ \A d \in Calls \ {c} : stage[d] # "running"
      BY <2>1, <2>3 DEF ServedInTurn, Turn
    <3>2. Len(jsQueue') = Len(jsQueue) - 1
      BY <1>0, <2>2, <3>1, QueueMoves DEF CallsTypeOK
    <3> QED
      BY <2>1, <2>3, <3>1, <3>2 DEF ServedInTurn
  <2>4. Len(jsQueue) \in Nat /\ Len(order) \in Nat
    BY <1>0 DEF CallsTypeOK
  <2>5. ASSUME late = {}
        PROVE  Len(served') = Len(order') - Len(jsQueue') + (IF \E d \in Calls : stage'[d] = "running" THEN 1 ELSE 0)
    <3>1. Len(served') = Len(order') - Len(jsQueue') + 0
      <4>1. UNCHANGED <<order, served>>
        BY <2>2
      <4>2. Len(jsQueue') = Len(jsQueue) - 1 /\ Len(served) = Len(order) - Len(jsQueue) + 1
        BY <2>3, <2>5
      <4> HIDE DEF Pop, Moves
      <4> QED
        BY ONLY <2>4, <4>1, <4>2
    <3>2. ~ \E d \in Calls : stage'[d] = "running"
      BY <2>3, <2>5
    <3> QED
      BY ONLY <3>1, <3>2
  <2>6. ASSUME late' = {} PROVE /\ \A d \in Calls : stage'[d] = "running" => Turn(d)'
                              /\ \A i \in 1 .. Len(served') : served'[i] = order'[i]
    BY <2>2, <2>3, <2>6
  <2> QED
    BY <2>2, <2>5, <2>6 DEF ServedInTurn
<1>5. SerialInTurn'
  BY <1>0 DEF CallsTypeOK, SerialInTurn
<1> QED
  BY <1>1, <1>2, <1>3, <1>4, <1>5

LEMMA CompleteKeeps ==
  ASSUME CallsInv, NEW c \in Calls, OnComplete(c)
  PROVE  CallsInv'
<1> USE DEF CallsInv, OnComplete, Moves, serialVars
<1>0. CallsTypeOK
  OBVIOUS
<1>1. CallsTypeOK'
  BY <1>0, CallsAssumption, QueueMoves DEF CallsTypeOK, Stages, SerialStages
<1>2. QueueCountsCalls'
  BY <1>0, SameUnderWay DEF CallsTypeOK
<1>3. QueueEndsOrder'
  BY DEF QueueEndsOrder
<1>4. ServedInTurn'
  BY <1>0 DEF CallsTypeOK, ServedInTurn, Turn
<1>5. SerialInTurn'
  BY <1>0 DEF CallsTypeOK, SerialInTurn
<1> QED
  BY <1>1, <1>2, <1>3, <1>4, <1>5

\* The queue starts with the call that found it idle.
LEMMA PostKeeps ==
  ASSUME CallsInv, NEW c \in Calls, NEW accepted \in BOOLEAN, Post(c, accepted)
  PROVE  CallsInv'
<1> USE DEF CallsInv, Post, Moves, serialVars
<1>0. CallsTypeOK
  OBVIOUS
<1>1. CallsTypeOK'
  BY <1>0, CallsAssumption, QueueMoves DEF CallsTypeOK, Stages, SerialStages
<1>2. QueueCountsCalls'
  BY <1>0, SameUnderWay DEF CallsTypeOK
<1>3. QueueEndsOrder'
  BY DEF QueueEndsOrder
<1>4. ServedInTurn'
  BY <1>0 DEF CallsTypeOK, ServedInTurn, Turn
<1>5. SerialInTurn'
  <2>1. taskQueue \in Seq(Posted) /\ c \in Posted /\ taskQueue' = Append(taskQueue, c) /\ refused \subseteq refused'
    BY <1>0 DEF CallsTypeOK
  <2>2. /\ taskQueue' # <<>> /\ (taskQueue # <<>> => Head(taskQueue') = Head(taskQueue))
        /\ taskQueue = <<>> => Head(taskQueue') = c
    BY <2>1, QueueMoves
  <2>3. stage[c] = "new" /\ \A d \in Posted \ {c} : stage'[d] = stage[d]
    BY <1>0, CallsAssumption DEF CallsTypeOK
  <2>4. c \in Calls /\ stage'[c] = (IF isRunning THEN "posted" ELSE IF accepted THEN "queued" ELSE "refused")
    BY <1>0 DEF CallsTypeOK
  <2>5. isRunning' = (isRunning \/ accepted) /\ (accepted \/ c \in refused')
    OBVIOUS
  <2>6. isRunning \in BOOLEAN
    BY <1>0 DEF CallsTypeOK
  <2> HIDE DEF Post, Moves
  <2>7. CASE isRunning
    BY <2>1, <2>2, <2>3, <2>4, <2>5, <2>7 DEF SerialInTurn
  <2>8. CASE ~isRunning
    BY <2>1, <2>2, <2>3, <2>4, <2>5, <2>6, <2>8 DEF SerialInTurn
  <2> QED
    BY <2>7, <2>8
<1> QED
  BY <1>1, <1>2, <1>3, <1>4, <1>5

\* The call that ends is the front, and starts the next.
LEMMA ExecuteSeqKeeps ==
  ASSUME CallsInv, NEW c \in Calls, NEW accepted \in BOOLEAN, OnExecuteSeq(c, accepted)
  PROVE  CallsInv'
<1> USE DEF CallsInv, OnExecuteSeq, Moves, serialVars
<1>0. CallsTypeOK
  OBVIOUS
<1>1. CallsTypeOK'
  <2>1. taskQueue \in Seq(Posted) /\ taskQueue # <<>> /\ Tail(taskQueue) \in Seq(Posted)
    BY <1>0, QueueMoves DEF CallsTypeOK
  <2>2. Tail(taskQueue) # <<>> => Head(Tail(taskQueue)) \in Posted
    BY <2>1, QueueMoves
  <2>3. /\ stage' \in [Calls -> Stages \cup SerialStages]
        /\ \A d \in Posted : stage'[d] \in SerialStages
    BY <1>0, CallsAssumption DEF CallsTypeOK, Stages, SerialStages
  <2>4. refused' \subseteq Calls
    BY <1>0, <2>2, CallsAssumption DEF CallsTypeOK
  <2> QED
    BY <1>0, <2>1, <2>3, <2>4 DEF CallsTypeOK
<1>2. QueueCountsCalls'
  <2>1. taskQueue \in Seq(Posted) /\ taskQueue # <<>> /\ Tail(taskQueue) \in Seq(Posted)
    BY <1>0, QueueMoves DEF CallsTypeOK
  <2>2. Tail(taskQueue) # <<>> => Head(Tail(taskQueue)) \in Posted
    BY <2>1, QueueMoves
  <2>3. \A d \in Calls \ Posted : stage'[d] = stage[d]
    BY <2>2
  <2> QED
    BY <2>3, SameUnderWay
<1>3. QueueEndsOrder'
  BY DEF QueueEndsOrder
<1>4. ServedInTurn'
  <2>1. \A d \in Calls : stage'[d] = "running" <=> stage[d] = "running"
    <3>1. taskQueue \in Seq(Posted) /\ taskQueue # <<>> /\ Tail(taskQueue) \in Seq(Posted)
      BY <1>0, QueueMoves DEF CallsTypeOK
    <3>2. Tail(taskQueue) # <<>> => Head(Tail(taskQueue)) \in Posted
      BY <3>1, QueueMoves
    <3>3. \A d \in Posted : stage[d] # "running"
      BY <1>0 DEF CallsTypeOK, SerialStages
    <3> QED
      BY <3>2, <3>3
  <2>2. UNCHANGED <<jsQueue, late, order, served>>
    OBVIOUS
  <2> QED
    BY <2>1, <2>2 DEF ServedInTurn, Turn
<1>5. SerialInTurn'
  <2> DEFINE rest == Tail(taskQueue)
  <2>1. \A d \in Posted : stage'[d] = IF d = c THEN "executed"
                                     ELSE IF rest # <<>> /\ d = Head(rest)
                                          THEN (IF accepted THEN "queued" ELSE "refused") ELSE stage[d]
    BY CallsAssumption
  <2>2. taskQueue' = rest /\ isRunning' = (rest # <<>> /\ accepted) /\ (rest = <<>> => accepted) /\ (rest # <<>> => Head(rest) # c)
    OBVIOUS
  <2>3. taskQueue \in Seq(Posted) /\ taskQueue # <<>> /\ rest \in Seq(Posted) /\ (rest # <<>> => Head(rest) \in Posted)
    BY <1>0, QueueMoves DEF CallsTypeOK
  <2>4. c \in Posted /\ stage[c] = "queued" /\ refused \subseteq refused' /\ (accepted \/ Head(rest) \in refused')
    OBVIOUS
  <2> HIDE DEF OnExecuteSeq, rest
  <2>5. ASSUME refused' \cap Posted = {} PROVE accepted /\ \A d \in Posted : stage[d] = "queued" <=> d = c
    BY <2>2, <2>3, <2>4, <2>5 DEF SerialInTurn
  <2> QED
    BY <2>1, <2>2, <2>3, <2>5 DEF SerialInTurn
<1> QED
  BY <1>1, <1>2, <1>3, <1>4, <1>5

LEMMA CallsStutterKeeps ==
  ASSUME CallsInv, UNCHANGED callVars
  PROVE  CallsInv'
BY DEF callVars, serialVars, CallsInv, CallsTypeOK, QueueCountsCalls, UnderWay, QueueEndsOrder, ServedInTurn, Turn, SerialInTurn

LEMMA CallsInitially ==
  ASSUME CallsInit
  PROVE  CallsInv
<1> USE DEF CallsInit
<1>1. CallsTypeOK
  <2>1. \A S : <<>> \in Seq(S)
    OBVIOUS
  <2>2. stage \in [Calls -> Stages \cup SerialStages] /\ \A c \in Posted : stage[c] \in SerialStages
    BY CallsAssumption DEF Stages, SerialStages
  <2> QED
    BY <2>1, <2>2 DEF CallsTypeOK
<1>2. QueueCountsCalls
  <2>1. UnderWay = {}
    BY DEF UnderWay
  <2> QED
    BY <2>1, FS_EmptySet DEF QueueCountsCalls
<1>3. QueueEndsOrder /\ ServedInTurn /\ SerialInTurn
  BY CallsAssumption DEF QueueEndsOrder, ServedInTurn, SerialInTurn
<1> QED
  BY <1>1, <1>2, <1>3 DEF CallsInv

LEMMA CallsAlways == CallsSpec => []CallsInv
<1>1. ASSUME CallsInv, [CallsNext]_callVars PROVE CallsInv'
  <2>1. ASSUME NEW c \in Calls, NEW accepted \in BOOLEAN,
               Call(c, accepted) \/ Post(c, accepted) \/ OnExecuteSeq(c, accepted)
        PROVE  CallsInv'
    BY <1>1, <2>1, CallKeeps, PostKeeps, ExecuteSeqKeeps
  <2>2. ASSUME NEW c \in Calls, OnExecute(c) \/ Wait(c) \/ WaitTimedOut(c) \/ Pop(c) \/ OnComplete(c)
        PROVE  CallsInv'
    BY <1>1, <2>2, ExecuteKeeps, WaitKeeps, TimeOutKeeps, PopKeeps, CompleteKeeps
  <2> QED
    BY <1>1, <2>1, <2>2, CallsStutterKeeps DEF CallsNext, CallStep, Work
<1> QED
  BY CallsInitially, <1>1, PTL DEF CallsSpec

\* The queues and the stages of the calls keep their types.
THEOREM CallsTypeCorrect == CallsSpec => []CallsTypeOK
BY CallsAlways, PTL DEF CallsInv

\* For any calls, however many wait at once: jsQueue_ holds one entry for every call that
\* is under way or lost, whoever pops it; until a wait times out the calls run one at a
\* time in the order the script made them; and until a work item is refused the serial
\* queue runs its front (Call, Wait, Pop of FFRTBlockQueue, Post, OnExecuteSeq).
THEOREM CallsAreServedInOrder == CallsSpec => []CallsKeepOrder
<1>1. ASSUME CallsInv PROVE CallsKeepOrder
  <2>1. Len(jsQueue) = Cardinality({c \in Calls \ Posted : stage[c] \in {"queued", "waiting", "running", "refused"}})
    BY <1>1 DEF CallsInv, QueueCountsCalls, UnderWay
  <2>2. ASSUME late = {} PROVE IsPrefix(served, order) /\ \A c \in Calls \ Posted : stage[c] = "running" => Turn(c)
    <3>1. /\ served \in Seq(Calls \ Posted) /\ order \in Seq(Calls \ Posted) /\ jsQueue \in Seq(Calls \ Posted)
          /\ Len(served) \in Nat /\ Len(order) \in Nat /\ Len(jsQueue) \in Nat
      BY <1>1 DEF CallsInv, CallsTypeOK
    <3>2. \A c \in Calls : stage[c] = "running" => Turn(c)
      BY <1>1, <2>2 DEF CallsInv, ServedInTurn
    <3>3. (\E c \in Calls : stage[c] = "running") => Len(jsQueue) > 0
      BY <3>1, <3>2, QueueMoves DEF Turn
    <3>4. Len(served) <= Len(order) /\ \A i \in 1 .. Len(served) : served[i] = order[i]
      BY <1>1, <2>2, <3>1, <3>3 DEF CallsInv, ServedInTurn, QueueEndsOrder
    <3>5. SubSeq(served, 1, Len(served)) = SubSeq(order, 1, Len(served))
      BY ONLY <3>1, <3>4
    <3> QED
      BY <3>2, <3>4, <3>5 DEF IsPrefix
  <2> QED
    BY <1>1, <2>1, <2>2 DEF CallsInv, SerialInTurn, CallsKeepOrder
<1> QED
  BY <1>1, CallsAlways, PTL
================================================================================
