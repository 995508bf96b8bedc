----------------------------- MODULE Pasteboard ------------------------------
(***************************************************************************)
(* Reading the selected text: SelectionService::GetSelectionContent and    *)
(* SelectionPasteboardManager of                                           *)
(* service/plugins/src/pasteboard/selection_pasteboard_manager.cpp.        *)
(*                                                                         *)
(* Binder threads (Callers) subscribe one shared observer, inject Ctrl+C   *)
(* from a thread of its own, and wait 110 ms for the observer to leave a   *)
(* text or an error code in two globals.  The pasteboard service, which is *)
(* external, answers each subscription once, in time, late or never.       *)
(* A timeout is a step that may be taken at any time while waiting, and so *)
(* is a wakeup: it only makes the caller look at the globals again.        *)
(*                                                                         *)
(* A text or an error is known by the request it answers.  Left out:       *)
(* injectCtrlCRunning_, which is never read, and the branch of             *)
(* injectFailed_, which needs a closed virtual keyboard: an initialised    *)
(* manager keeps it open until the plugin, and the manager, are unloaded.  *)
(* Two callers that use injectCtrlCFuture_ at once race for it; only their *)
(* order is modelled.                                                      *)
(***************************************************************************)
EXTENDS Naturals

CONSTANTS
    Callers,    \* binder threads in GetSelectionContent
    Nobody      \* an empty text, ERR_OK, an invalid future

ASSUME CallersAssumption ==
    /\ Nobody \notin Callers
    /\ Nobody \notin [of : Callers, fresh : BOOLEAN]

VARIABLES
    canGetSelectionContentFlag_,
    g_selectionContent,      \* the answer whose text it is, or None for ""
    g_pasteBoardErrorCode,   \* the answer whose error it is, or None for ERR_OK
    injectCtrlCFuture_,      \* the caller whose injection it is the result of
    callerPc,                \* what each caller is about to do
    injecting,               \* the injection threads of each caller that are running
    subscribed               \* external: answers the pasteboard service owes

\* Recorded for the properties.
VARIABLES
    cameLate,    \* the last answer came after its request had returned
    shared       \* two callers were in the manager at once, and it is not clean yet

globals == <<g_selectionContent, g_pasteBoardErrorCode>>
pasteVars == <<canGetSelectionContentFlag_, globals, injectCtrlCFuture_, callerPc, injecting,
               subscribed, cameLate, shared>>

\* An answer is fresh as long as the request it belongs to is running.
Answers == [of : Callers, fresh : BOOLEAN]
Mine(c) == [of |-> c, fresh |-> TRUE]

\* The answer after the request of c has returned.
Stale(c, a) == IF a = Mine(c) THEN [of |-> c, fresh |-> FALSE] ELSE a

\* The injection of this caller has not ended (its future is not ready).
Running(c) == c # Nobody /\ injecting[c] > 0

CallerGoto(c, label) == callerPc' = [callerPc EXCEPT ![c] = label]

\* The callers that are between the flag and the return of the manager.
Inside(control) ==
    {c \in Callers : control[c] \notin {"idle", "permitted"}}

RecordSharing ==
    shared' = \/ \E c, d \in Inside(callerPc') : c # d
              \/ shared /\ \/ Inside(callerPc') # {}
                           \/ globals' # <<Nobody, Nobody>>
                           \/ \E c \in Callers : injecting'[c] > 0

-----------------------------------------------------------------------------
(* The flag.  It is raised when a listener is told of a selection, and      *)
(* lowered by a reader and when the plugin is unloaded.                     *)

SetCanGetSelectionContentFlag(flag) ==
    /\ canGetSelectionContentFlag_' = flag
    /\ UNCHANGED <<globals, injectCtrlCFuture_, callerPc, injecting, subscribed, cameLate, shared>>

RequestChecksFlag(c) ==
    /\ callerPc[c] = "idle" /\ canGetSelectionContentFlag_
    /\ CallerGoto(c, "permitted")
    /\ UNCHANGED <<canGetSelectionContentFlag_, globals, injectCtrlCFuture_, injecting,
                   subscribed, cameLate, shared>>

RequestClearsFlag(c) ==
    /\ callerPc[c] = "permitted"
    /\ canGetSelectionContentFlag_' = FALSE
    /\ CallerGoto(c, "wait_pending")
    /\ UNCHANGED <<globals, injectCtrlCFuture_, injecting, subscribed, cameLate>>
    /\ RecordSharing

-----------------------------------------------------------------------------
(* GetSelectionContent of the manager. *)

\* What is left of the request in the globals and in the pasteboard service
\* outlives it.
ReturnAnswer(c, content, error) ==
    /\ CallerGoto(c, "idle")
    /\ g_selectionContent' = Stale(c, content)
    /\ g_pasteBoardErrorCode' = Stale(c, error)
    /\ subscribed' = {Stale(c, a) : a \in subscribed}
    /\ UNCHANGED <<canGetSelectionContentFlag_, injectCtrlCFuture_, injecting, cameLate>>
    /\ RecordSharing

\* The manager is not initialised: after an unload and a reload of the plugin the
\* virtual keyboard could not be opened.
Refuse(c) ==
    /\ callerPc[c] = "wait_pending"
    /\ ReturnAnswer(c, g_selectionContent, g_pasteBoardErrorCode)

\* Mutation for OneInjectionUnlessShared: no wait for the injection before.
WaitForNothing(c) ==
    /\ callerPc[c] = "wait_pending"
    /\ CallerGoto(c, "subscribe")
    /\ UNCHANGED <<canGetSelectionContentFlag_, globals, injectCtrlCFuture_, injecting,
                   subscribed, cameLate, shared>>

WaitForPendingAsync(c) ==
    /\ callerPc[c] = "wait_pending"
    /\ ~Running(injectCtrlCFuture_)
    /\ CallerGoto(c, "subscribe")
    /\ UNCHANGED <<canGetSelectionContentFlag_, globals, injectCtrlCFuture_, injecting,
                   subscribed, cameLate, shared>>

Subscribe(c) ==
    /\ callerPc[c] = "subscribe"
    /\ \/ /\ subscribed' = subscribed \cup {Mine(c)}
          /\ CallerGoto(c, "inject")
          /\ UNCHANGED <<canGetSelectionContentFlag_, globals, injectCtrlCFuture_, injecting,
                         cameLate, shared>>
       \/ ReturnAnswer(c, g_selectionContent, g_pasteBoardErrorCode)

\* std::async starts the thread before the future before it is given up.
StartInjection(c) ==
    /\ callerPc[c] = "inject"
    /\ injecting' = [injecting EXCEPT ![c] = @ + 1]
    /\ CallerGoto(c, "store_future")
    /\ UNCHANGED <<canGetSelectionContentFlag_, globals, injectCtrlCFuture_, subscribed,
                   cameLate, shared>>

\* Giving up a future of std::async waits for its thread.  A future of the caller
\* itself is ready: it was waited for before the new thread started.
StoreFuture(c) ==
    /\ callerPc[c] = "store_future"
    /\ injectCtrlCFuture_ = c \/ ~Running(injectCtrlCFuture_)
    /\ injectCtrlCFuture_' = c
    /\ CallerGoto(c, "wait_text")
    /\ UNCHANGED <<canGetSelectionContentFlag_, globals, injecting, subscribed, cameLate, shared>>

\* Mutation for OwnAnswerUnlessLateOrShared: the text stays for the next request.
CopyText(c) ==
    /\ callerPc[c] = "wait_text"
    /\ g_selectionContent # Nobody
    /\ ReturnAnswer(c, g_selectionContent, g_pasteBoardErrorCode)

TakeText(c) ==
    /\ callerPc[c] = "wait_text"
    /\ g_selectionContent # Nobody
    /\ ReturnAnswer(c, Nobody, g_pasteBoardErrorCode)

\* Mutation for RequestsReturn: a wait without a timeout, ended by an error only.
GiveUpOnError(c) ==
    /\ callerPc[c] = "wait_text"
    /\ g_selectionContent = Nobody /\ g_pasteBoardErrorCode # Nobody
    /\ ReturnAnswer(c, g_selectionContent, Nobody)

\* The error code decides what is returned, and is reset.
GiveUp(c) ==
    /\ callerPc[c] = "wait_text"
    /\ g_selectionContent = Nobody
    /\ ReturnAnswer(c, g_selectionContent, Nobody)

Step(c) ==
    \/ RequestClearsFlag(c) \/ WaitForPendingAsync(c) \/ Refuse(c) \/ Subscribe(c)
    \/ StartInjection(c) \/ StoreFuture(c) \/ TakeText(c) \/ GiveUp(c)

EndInjection(c) ==
    /\ Running(c)
    /\ injecting' = [injecting EXCEPT ![c] = @ - 1]
    /\ UNCHANGED <<canGetSelectionContentFlag_, globals, injectCtrlCFuture_, callerPc, subscribed,
                   cameLate>>
    /\ RecordSharing

\* The observer.  It overwrites whatever is there; an empty text wakes nobody.
\* The service sends a text or an error, never both.
OnTextReceived(a) ==
    /\ a \in subscribed
    /\ subscribed' = subscribed \ {a}
    /\ \/ g_selectionContent' = a /\ g_pasteBoardErrorCode' = Nobody
       \/ g_selectionContent' = Nobody /\ g_pasteBoardErrorCode' \in {a, Nobody}
    /\ cameLate' = ~a.fresh
    /\ UNCHANGED <<canGetSelectionContentFlag_, injectCtrlCFuture_, callerPc, injecting>>
    /\ RecordSharing

PasteInit ==
    /\ canGetSelectionContentFlag_ = FALSE
    /\ g_selectionContent = Nobody /\ g_pasteBoardErrorCode = Nobody
    /\ injectCtrlCFuture_ = Nobody
    /\ callerPc = [c \in Callers |-> "idle"]
    /\ injecting = [c \in Callers |-> 0]
    /\ subscribed = {}
    /\ cameLate = FALSE /\ shared = FALSE

PasteNext ==
    \/ \E flag \in BOOLEAN : SetCanGetSelectionContentFlag(flag)
    \/ \E c \in Callers : RequestChecksFlag(c) \/ Step(c) \/ EndInjection(c)
    \/ \E a \in Answers : OnTextReceived(a)

PasteSpec == PasteInit /\ [][PasteNext]_pasteVars

\* An injection lasts 62 ms and a wait 110 ms.  A caller waits for the one
\* injection it finds, so that later ones cannot keep it from going on.
PasteFairness ==
    \A c \in Callers : SF_pasteVars(Step(c)) /\ WF_pasteVars(EndInjection(c))

FairPasteSpec == PasteSpec /\ PasteFairness
-----------------------------------------------------------------------------
(* Properties. *)

PasteTypeOK ==
    /\ canGetSelectionContentFlag_ \in BOOLEAN
    /\ g_selectionContent \in Answers \cup {Nobody}
    /\ g_pasteBoardErrorCode \in Answers \cup {Nobody}
    /\ injectCtrlCFuture_ \in Callers \cup {Nobody}
    /\ callerPc \in [Callers -> {"idle", "permitted", "wait_pending", "subscribe", "inject",
                                 "store_future", "wait_text"}]
    /\ injecting \in [Callers -> 0..1]
    /\ subscribed \subseteq Answers
    /\ cameLate \in BOOLEAN /\ shared \in BOOLEAN

\* A request returns the text or the error of its own subscription, unless the
\* last answer came after its request had returned, or two requests met in the
\* manager: nothing one request leaves in the globals reaches the next one
\* otherwise (GetSelectionContent, OnTextReceived).
OwnAnswerUnlessLateOrShared ==
    [][\A c \in Callers :
          callerPc[c] = "wait_text" /\ callerPc'[c] = "idle" =>
              \/ {g_selectionContent, g_pasteBoardErrorCode} \subseteq {Nobody, Mine(c)}
              \/ cameLate \/ shared
      ]_pasteVars

\* "Before a new asynchronous injection starts, make sure that the one before has
\* completed" (GetSelectionContent): the virtual keyboard never has two Ctrl+C
\* under way.
OneInjectionAtATime ==
    /\ \A c \in Callers : injecting[c] <= 1
    /\ \A c, d \in Callers : Running(c) /\ Running(d) => c = d

\* The same where it holds: readers that come one after the other, however fast,
\* find the injection of the last one and wait for it; only two readers that
\* met in the manager may inject at once.
OneInjectionUnlessShared == shared \/ OneInjectionAtATime

\* A request always returns, whether the pasteboard answers or not, even when
\* it waits for the injections of others (WaitForPendingAsync, wait_for).
RequestsReturn == \A c \in Callers : callerPc[c] # "idle" ~> callerPc[c] = "idle"
=============================================================================
