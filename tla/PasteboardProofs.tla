-------------------------- MODULE PasteboardProofs ---------------------------
(***************************************************************************)
(* Theorems about Pasteboard, for any set of callers: how many injections  *)
(* there are, and whose answer a request returns.                          *)
(***************************************************************************)
EXTENDS Pasteboard, TLAPS

-----------------------------------------------------------------------------
(* The inductive invariant. *)

\* A running injection is the one whose future the manager holds, or its caller
\* is about to store it: giving up a future waits for its thread.
InjectionIsHeld ==
    \A c \in Callers :
        injecting[c] > 0 => injectCtrlCFuture_ = c \/ callerPc[c] = "store_future"

\* A caller that is going to inject has no injection running.
InjectorWaited ==
    \A c \in Callers : callerPc[c] \in {"subscribe", "inject"} => injecting[c] = 0

\* Without sharing there is one caller in the manager, and when it is going to
\* inject, or has just done so, there is no injection of another.
AloneInside ==
    ~shared =>
        /\ \A c, d \in Inside(callerPc) : c = d
        /\ \A c, d \in Callers :
              callerPc[c] \in {"subscribe", "inject", "store_future"} /\ injecting[d] > 0 => c = d

\* An answer is fresh only while its request waits for it.
Awaited(a) == a.fresh => callerPc[a.of] \in {"inject", "store_future", "wait_text"}
FreshIsAwaited ==
    /\ \A a \in subscribed : Awaited(a)
    /\ \A a \in {g_selectionContent, g_pasteBoardErrorCode} \ {Nobody} : Awaited(a)

\* Stale is only what came late.
StaleCameLate ==
    \A a \in {g_selectionContent, g_pasteBoardErrorCode} \ {Nobody} : a.fresh \/ cameLate

\* The observer leaves a text or an error.
TextOrError == g_selectionContent = Nobody \/ g_pasteBoardErrorCode = Nobody

PasteboardInv ==
    /\ PasteTypeOK
    /\ InjectionIsHeld
    /\ InjectorWaited
    /\ AloneInside
    /\ FreshIsAwaited
    /\ StaleCameLate
    /\ TextOrError

-----------------------------------------------------------------------------
(* One lemma per action. *)

\* What the end of a request does to an answer.
LEMMA StaleFacts ==
  ASSUME NEW c \in Callers, NEW a \in Answers \cup {Nobody}
  PROVE  /\ Stale(c, a) \in Answers \cup {Nobody}
         /\ Stale(c, a) = Nobody <=> a = Nobody
         /\ a # Nobody => /\ Stale(c, a).of = a.of
                          /\ Stale(c, a).fresh <=> a.fresh /\ a.of # c
<1>1. Mine(c) \in Answers /\ [of |-> c, fresh |-> FALSE] \in Answers
  BY DEF Mine, Answers
<1>2. Nobody \notin Answers
  BY CallersAssumption DEF Answers
<1>3. CASE a = Mine(c)
  BY <1>1, <1>2, <1>3 DEF Stale, Mine, Answers
<1>4. CASE a # Mine(c)
  <2>1. ASSUME a # Nobody, a.fresh PROVE a.of # c
    <3>1. a = [of |-> a.of, fresh |-> a.fresh] /\ a.fresh = TRUE
      BY <2>1 DEF Answers
    <3> QED
      BY <3>1, <1>4 DEF Mine
  <2> QED
    BY <1>4, <2>1 DEF Stale
<1> QED
  BY <1>3, <1>4

\* The flag touches nothing else.
LEMMA FlagKeeps ==
  ASSUME PasteboardInv, NEW flag \in BOOLEAN, SetCanGetSelectionContentFlag(flag)
  PROVE  PasteboardInv'
<1> USE DEF PasteboardInv, PasteTypeOK, CallerGoto, globals
<1>1. PasteTypeOK'
  BY CallersAssumption DEF SetCanGetSelectionContentFlag, InjectionIsHeld, InjectorWaited, Running,
     RecordSharing, Mine, Answers
<1>2. InjectionIsHeld'
  BY <1>1, CallersAssumption DEF SetCanGetSelectionContentFlag, InjectionIsHeld, InjectorWaited,
     Running
<1>3. InjectorWaited'
  BY <1>1, CallersAssumption DEF SetCanGetSelectionContentFlag, InjectorWaited, InjectionIsHeld,
     Running
<1>4. AloneInside'
  BY <1>1, CallersAssumption DEF SetCanGetSelectionContentFlag, AloneInside, Inside,
     InjectionIsHeld, InjectorWaited, Running, RecordSharing
<1>5. FreshIsAwaited'
  BY <1>1 DEF SetCanGetSelectionContentFlag, FreshIsAwaited, Awaited, Mine, Answers
<1>6. StaleCameLate'
  BY <1>1 DEF SetCanGetSelectionContentFlag, StaleCameLate, FreshIsAwaited, Awaited, TextOrError,
     Mine, Answers
<1>7. TextOrError'
  BY <1>1 DEF SetCanGetSelectionContentFlag, TextOrError
<1> QED
  BY <1>1, <1>2, <1>3, <1>4, <1>5, <1>6, <1>7 DEF PasteboardInv

\* A caller that was let in is not inside yet.
LEMMA CheckFlagKeeps ==
  ASSUME PasteboardInv, NEW c \in Callers, RequestChecksFlag(c)
  PROVE  PasteboardInv'
<1> USE DEF PasteboardInv, PasteTypeOK, CallerGoto, globals
<1>1. PasteTypeOK'
  BY CallersAssumption DEF RequestChecksFlag, InjectionIsHeld, InjectorWaited, Running,
     RecordSharing, Mine, Answers
<1>2. InjectionIsHeld'
  BY <1>1, CallersAssumption DEF RequestChecksFlag, InjectionIsHeld, InjectorWaited, Running
<1>3. InjectorWaited'
  BY <1>1, CallersAssumption DEF RequestChecksFlag, InjectorWaited, InjectionIsHeld, Running
<1>4. AloneInside'
  BY <1>1, CallersAssumption DEF RequestChecksFlag, AloneInside, Inside, InjectionIsHeld,
     InjectorWaited, Running, RecordSharing
<1>5. FreshIsAwaited'
  BY <1>1 DEF RequestChecksFlag, FreshIsAwaited, Awaited, Mine, Answers
<1>6. StaleCameLate'
  BY <1>1 DEF RequestChecksFlag, StaleCameLate, FreshIsAwaited, Awaited, TextOrError, Mine, Answers
<1>7. TextOrError'
  BY <1>1 DEF RequestChecksFlag, TextOrError
<1> QED
  BY <1>1, <1>2, <1>3, <1>4, <1>5, <1>6, <1>7 DEF PasteboardInv

\* A caller enters.
LEMMA ClearFlagKeeps ==
  ASSUME PasteboardInv, NEW c \in Callers, RequestClearsFlag(c)
  PROVE  PasteboardInv'
<1> USE DEF PasteboardInv, PasteTypeOK, CallerGoto, globals
<1>1. PasteTypeOK'
  BY CallersAssumption DEF RequestClearsFlag, InjectionIsHeld, InjectorWaited, Running,
     RecordSharing, Mine, Answers
<1>2. InjectionIsHeld'
  BY <1>1, CallersAssumption DEF RequestClearsFlag, InjectionIsHeld, InjectorWaited, Running
<1>3. InjectorWaited'
  BY <1>1, CallersAssumption DEF RequestClearsFlag, InjectorWaited, InjectionIsHeld, Running
<1>4. AloneInside'
  BY <1>1, CallersAssumption DEF RequestClearsFlag, AloneInside, Inside, InjectionIsHeld,
     InjectorWaited, Running, RecordSharing
<1>5. FreshIsAwaited'
  BY <1>1 DEF RequestClearsFlag, FreshIsAwaited, Awaited, Mine, Answers
<1>6. StaleCameLate'
  BY <1>1 DEF RequestClearsFlag, StaleCameLate, FreshIsAwaited, Awaited, TextOrError, Mine, Answers
<1>7. TextOrError'
  BY <1>1 DEF RequestClearsFlag, TextOrError
<1> QED
  BY <1>1, <1>2, <1>3, <1>4, <1>5, <1>6, <1>7 DEF PasteboardInv

\* The injection whose future is held has ended, and so has any other one of the caller.
LEMMA WaitForPendingAsyncKeeps ==
  ASSUME PasteboardInv, NEW c \in Callers, WaitForPendingAsync(c)
  PROVE  PasteboardInv'
<1> USE DEF PasteboardInv, PasteTypeOK, CallerGoto, globals
<1>1. PasteTypeOK'
  BY CallersAssumption DEF WaitForPendingAsync, InjectionIsHeld, InjectorWaited, Running,
     RecordSharing, Mine, Answers
<1>2. InjectionIsHeld'
  BY <1>1, CallersAssumption DEF WaitForPendingAsync, InjectionIsHeld, InjectorWaited, Running
<1>3. InjectorWaited'
  BY <1>1, CallersAssumption DEF WaitForPendingAsync, InjectorWaited, InjectionIsHeld, Running
<1>4. AloneInside'
  BY <1>1, CallersAssumption DEF WaitForPendingAsync, AloneInside, Inside, InjectionIsHeld,
     InjectorWaited, Running, RecordSharing
<1>5. FreshIsAwaited'
  BY <1>1 DEF WaitForPendingAsync, FreshIsAwaited, Awaited, Mine, Answers
<1>6. StaleCameLate'
  BY <1>1 DEF WaitForPendingAsync, StaleCameLate, FreshIsAwaited, Awaited, TextOrError, Mine,
     Answers
<1>7. TextOrError'
  BY <1>1 DEF WaitForPendingAsync, TextOrError
<1> QED
  BY <1>1, <1>2, <1>3, <1>4, <1>5, <1>6, <1>7 DEF PasteboardInv

\* The caller was waited for, so this is its only injection.
LEMMA StartInjectionKeeps ==
  ASSUME PasteboardInv, NEW c \in Callers, StartInjection(c)
  PROVE  PasteboardInv'
<1> USE DEF PasteboardInv, PasteTypeOK, CallerGoto, globals
<1>1. PasteTypeOK'
  BY CallersAssumption DEF StartInjection, InjectionIsHeld, InjectorWaited, Running, RecordSharing,
     Mine, Answers
<1>2. InjectionIsHeld'
  BY <1>1, CallersAssumption DEF StartInjection, InjectionIsHeld, InjectorWaited, Running
<1>3. InjectorWaited'
  BY <1>1, CallersAssumption DEF StartInjection, InjectorWaited, InjectionIsHeld, Running
<1>4. AloneInside'
  BY <1>1, CallersAssumption DEF StartInjection, AloneInside, Inside, InjectionIsHeld,
     InjectorWaited, Running, RecordSharing
<1>5. FreshIsAwaited'
  BY <1>1 DEF StartInjection, FreshIsAwaited, Awaited, Mine, Answers
<1>6. StaleCameLate'
  BY <1>1 DEF StartInjection, StaleCameLate, FreshIsAwaited, Awaited, TextOrError, Mine, Answers
<1>7. TextOrError'
  BY <1>1 DEF StartInjection, TextOrError
<1> QED
  BY <1>1, <1>2, <1>3, <1>4, <1>5, <1>6, <1>7 DEF PasteboardInv

\* The future given up is not running.
LEMMA StoreFutureKeeps ==
  ASSUME PasteboardInv, NEW c \in Callers, StoreFuture(c)
  PROVE  PasteboardInv'
<1> USE DEF PasteboardInv, PasteTypeOK, CallerGoto, globals
<1>1. PasteTypeOK'
  BY CallersAssumption DEF StoreFuture, InjectionIsHeld, InjectorWaited, Running, RecordSharing,
     Mine, Answers
<1>2. InjectionIsHeld'
  BY <1>1, CallersAssumption DEF StoreFuture, InjectionIsHeld, InjectorWaited, Running
<1>3. InjectorWaited'
  BY <1>1, CallersAssumption DEF StoreFuture, InjectorWaited, InjectionIsHeld, Running
<1>4. AloneInside'
  BY <1>1, CallersAssumption DEF StoreFuture, AloneInside, Inside, InjectionIsHeld, InjectorWaited,
     Running, RecordSharing
<1>5. FreshIsAwaited'
  BY <1>1 DEF StoreFuture, FreshIsAwaited, Awaited, Mine, Answers
<1>6. StaleCameLate'
  BY <1>1 DEF StoreFuture, StaleCameLate, FreshIsAwaited, Awaited, TextOrError, Mine, Answers
<1>7. TextOrError'
  BY <1>1 DEF StoreFuture, TextOrError
<1> QED
  BY <1>1, <1>2, <1>3, <1>4, <1>5, <1>6, <1>7 DEF PasteboardInv

\* A caller that has not subscribed returns and leaves nothing fresh.
LEMMA EmptyHandedKeeps ==
  ASSUME PasteboardInv, NEW c \in Callers,
         callerPc[c] \in {"wait_pending", "subscribe"},
         ReturnAnswer(c, g_selectionContent, g_pasteBoardErrorCode)
  PROVE  PasteboardInv'
<1> USE DEF PasteboardInv, PasteTypeOK, CallerGoto, globals
<1>0. /\ Stale(c, g_selectionContent) \in Answers \cup {Nobody}
      /\ Stale(c, g_pasteBoardErrorCode) \in Answers \cup {Nobody}
      /\ Stale(c, Nobody) = Nobody
  BY StaleFacts
<1>1. PasteTypeOK'
  BY StaleFacts, <1>0 DEF ReturnAnswer, InjectionIsHeld, InjectorWaited, Running, RecordSharing
<1>2. InjectionIsHeld'
  BY <1>1 DEF ReturnAnswer, InjectionIsHeld, InjectorWaited, Running
<1>3. InjectorWaited'
  BY <1>1 DEF ReturnAnswer, InjectorWaited, InjectionIsHeld, Running
<1>4. AloneInside'
  BY <1>1 DEF ReturnAnswer, AloneInside, Inside, InjectionIsHeld, InjectorWaited, Running,
     RecordSharing
<1>5. FreshIsAwaited'
  <2>1. ASSUME NEW a \in Answers, Awaited(a) PROVE Awaited(Stale(c, a))'
    BY <2>1, <1>1, StaleFacts, CallersAssumption DEF ReturnAnswer, Awaited, Stale, Mine, Answers
  <2>2. \A a \in subscribed' : Awaited(a)'
    BY <2>1 DEF ReturnAnswer, FreshIsAwaited
  <2>3. \A a \in {g_selectionContent', g_pasteBoardErrorCode'} \ {Nobody} : Awaited(a)'
    BY <2>1, <1>0, StaleFacts DEF ReturnAnswer, FreshIsAwaited
  <2> QED
    BY <2>2, <2>3 DEF FreshIsAwaited
<1>6. StaleCameLate'
  BY <1>0, <1>1, StaleFacts DEF ReturnAnswer, StaleCameLate, FreshIsAwaited, Awaited, TextOrError
<1>7. TextOrError'
  BY <1>0, <1>1, StaleFacts DEF ReturnAnswer, TextOrError
<1> QED
  BY <1>1, <1>2, <1>3, <1>4, <1>5, <1>6, <1>7 DEF PasteboardInv

\* The answer that is owed is awaited.
LEMMA SubscribedKeeps ==
  ASSUME PasteboardInv, NEW c \in Callers, callerPc[c] = "subscribe",
         subscribed' = subscribed \cup {Mine(c)}, CallerGoto(c, "inject"),
         UNCHANGED <<canGetSelectionContentFlag_, globals, injectCtrlCFuture_, injecting,
                     cameLate, shared>>
  PROVE  PasteboardInv'
<1> USE DEF PasteboardInv, PasteTypeOK, CallerGoto, globals
<1>1. PasteTypeOK'
  <2>1. subscribed' \subseteq Answers
    <3>1. Mine(c) \in Answers
      BY DEF Mine, Answers
    <3> QED
      BY <3>1
  <2>2. callerPc' \in [Callers -> {"idle", "permitted", "wait_pending", "subscribe", "inject",
                                 "store_future", "wait_text"}]
    OBVIOUS
  <2> QED
    BY <2>1, <2>2
<1>2. InjectionIsHeld'
  BY <1>1, CallersAssumption DEF InjectionIsHeld, InjectorWaited, Running
<1>3. InjectorWaited'
  BY <1>1, CallersAssumption DEF InjectorWaited, InjectionIsHeld, Running
<1>4. AloneInside'
  BY <1>1, CallersAssumption DEF AloneInside, Inside, InjectionIsHeld, InjectorWaited, Running,
     RecordSharing
<1>5. FreshIsAwaited'
  BY <1>1 DEF FreshIsAwaited, Awaited, Mine, Answers
<1>6. StaleCameLate'
  BY <1>1 DEF StaleCameLate, FreshIsAwaited, Awaited, TextOrError, Mine, Answers
<1>7. TextOrError'
  BY <1>1 DEF TextOrError
<1> QED
  BY <1>1, <1>2, <1>3, <1>4, <1>5, <1>6, <1>7 DEF PasteboardInv

\* Who takes the text leaves no error.
LEMMA TakeTextKeeps ==
  ASSUME PasteboardInv, NEW c \in Callers, TakeText(c)
  PROVE  PasteboardInv'
<1> USE DEF PasteboardInv, PasteTypeOK, CallerGoto, globals
<1>0. /\ Stale(c, g_selectionContent) \in Answers \cup {Nobody}
      /\ Stale(c, g_pasteBoardErrorCode) \in Answers \cup {Nobody}
      /\ Stale(c, Nobody) = Nobody
  BY StaleFacts
<1>1. PasteTypeOK'
  BY StaleFacts, <1>0 DEF TakeText, ReturnAnswer, InjectionIsHeld, InjectorWaited, Running,
     RecordSharing
<1>2. InjectionIsHeld'
  BY <1>1 DEF TakeText, ReturnAnswer, InjectionIsHeld, InjectorWaited, Running
<1>3. InjectorWaited'
  BY <1>1 DEF TakeText, ReturnAnswer, InjectorWaited, InjectionIsHeld, Running
<1>4. AloneInside'
  BY <1>1 DEF TakeText, ReturnAnswer, AloneInside, Inside, InjectionIsHeld, InjectorWaited,
     Running, RecordSharing
<1>5. FreshIsAwaited'
  <2>1. ASSUME NEW a \in Answers, Awaited(a) PROVE Awaited(Stale(c, a))'
    BY <2>1, <1>1, StaleFacts, CallersAssumption DEF TakeText, ReturnAnswer, Awaited, Stale, Mine,
       Answers
  <2>2. \A a \in subscribed' : Awaited(a)'
    BY <2>1 DEF TakeText, ReturnAnswer, FreshIsAwaited
  <2>3. \A a \in {g_selectionContent', g_pasteBoardErrorCode'} \ {Nobody} : Awaited(a)'
    BY <2>1, <1>0, StaleFacts DEF TakeText, ReturnAnswer, FreshIsAwaited
  <2> QED
    BY <2>2, <2>3 DEF FreshIsAwaited
<1>6. StaleCameLate'
  BY <1>0, <1>1, StaleFacts DEF TakeText, ReturnAnswer, StaleCameLate, FreshIsAwaited, Awaited,
     TextOrError
<1>7. TextOrError'
  BY <1>0, <1>1, StaleFacts DEF TakeText, ReturnAnswer, TextOrError
<1> QED
  BY <1>1, <1>2, <1>3, <1>4, <1>5, <1>6, <1>7 DEF PasteboardInv

\* Who gives up leaves neither text nor error.
LEMMA GiveUpKeeps ==
  ASSUME PasteboardInv, NEW c \in Callers, GiveUp(c)
  PROVE  PasteboardInv'
<1> USE DEF PasteboardInv, PasteTypeOK, CallerGoto, globals
<1>0. /\ Stale(c, g_selectionContent) \in Answers \cup {Nobody}
      /\ Stale(c, g_pasteBoardErrorCode) \in Answers \cup {Nobody}
      /\ Stale(c, Nobody) = Nobody
  BY StaleFacts
<1>1. PasteTypeOK'
  BY StaleFacts, <1>0 DEF GiveUp, ReturnAnswer, InjectionIsHeld, InjectorWaited, Running,
     RecordSharing
<1>2. InjectionIsHeld'
  BY <1>1 DEF GiveUp, ReturnAnswer, InjectionIsHeld, InjectorWaited, Running
<1>3. InjectorWaited'
  BY <1>1 DEF GiveUp, ReturnAnswer, InjectorWaited, InjectionIsHeld, Running
<1>4. AloneInside'
  BY <1>1 DEF GiveUp, ReturnAnswer, AloneInside, Inside, InjectionIsHeld, InjectorWaited, Running,
     RecordSharing
<1>5. FreshIsAwaited'
  <2>1. ASSUME NEW a \in Answers, Awaited(a) PROVE Awaited(Stale(c, a))'
    BY <2>1, <1>1, StaleFacts, CallersAssumption DEF GiveUp, ReturnAnswer, Awaited, Stale, Mine,
       Answers
  <2>2. \A a \in subscribed' : Awaited(a)'
    BY <2>1 DEF GiveUp, ReturnAnswer, FreshIsAwaited
  <2>3. \A a \in {g_selectionContent', g_pasteBoardErrorCode'} \ {Nobody} : Awaited(a)'
    BY <2>1, <1>0, StaleFacts DEF GiveUp, ReturnAnswer, FreshIsAwaited
  <2> QED
    BY <2>2, <2>3 DEF FreshIsAwaited
<1>6. StaleCameLate'
  BY <1>0, <1>1, StaleFacts DEF GiveUp, ReturnAnswer, StaleCameLate, FreshIsAwaited, Awaited,
     TextOrError
<1>7. TextOrError'
  BY <1>0, <1>1, StaleFacts DEF GiveUp, ReturnAnswer, TextOrError
<1> QED
  BY <1>1, <1>2, <1>3, <1>4, <1>5, <1>6, <1>7 DEF PasteboardInv

\* An injection ends.
LEMMA EndInjectionKeeps ==
  ASSUME PasteboardInv, NEW c \in Callers, EndInjection(c)
  PROVE  PasteboardInv'
<1> USE DEF PasteboardInv, PasteTypeOK, CallerGoto, globals
<1>1. PasteTypeOK'
  BY CallersAssumption DEF EndInjection, Running, InjectionIsHeld, InjectorWaited, Running,
     RecordSharing, Mine, Answers
<1>2. InjectionIsHeld'
  BY <1>1, CallersAssumption DEF EndInjection, Running, InjectionIsHeld, InjectorWaited, Running
<1>3. InjectorWaited'
  BY <1>1, CallersAssumption DEF EndInjection, Running, InjectorWaited, InjectionIsHeld, Running
<1>4. AloneInside'
  BY <1>1, CallersAssumption DEF EndInjection, Running, AloneInside, Inside, InjectionIsHeld,
     InjectorWaited, Running, RecordSharing
<1>5. FreshIsAwaited'
  BY <1>1 DEF EndInjection, Running, FreshIsAwaited, Awaited, Mine, Answers
<1>6. StaleCameLate'
  BY <1>1 DEF EndInjection, Running, StaleCameLate, FreshIsAwaited, Awaited, TextOrError, Mine,
     Answers
<1>7. TextOrError'
  BY <1>1 DEF EndInjection, Running, TextOrError
<1> QED
  BY <1>1, <1>2, <1>3, <1>4, <1>5, <1>6, <1>7 DEF PasteboardInv

\* The observer overwrites whatever is there.
LEMMA OnTextReceivedKeeps ==
  ASSUME PasteboardInv, NEW a \in Answers, OnTextReceived(a)
  PROVE  PasteboardInv'
<1> USE DEF PasteboardInv, PasteTypeOK, CallerGoto, globals
<1>1. PasteTypeOK'
  BY CallersAssumption DEF OnTextReceived, InjectionIsHeld, InjectorWaited, Running, RecordSharing,
     Mine, Answers
<1>2. InjectionIsHeld'
  BY <1>1, CallersAssumption DEF OnTextReceived, InjectionIsHeld, InjectorWaited, Running
<1>3. InjectorWaited'
  BY <1>1, CallersAssumption DEF OnTextReceived, InjectorWaited, InjectionIsHeld, Running
<1>4. AloneInside'
  BY <1>1, CallersAssumption DEF OnTextReceived, AloneInside, Inside, InjectionIsHeld,
     InjectorWaited, Running, RecordSharing
<1>5. FreshIsAwaited'
  BY <1>1 DEF OnTextReceived, FreshIsAwaited, Awaited, Mine, Answers
<1>6. StaleCameLate'
  <2>1. a.fresh \/ cameLate'
    BY DEF OnTextReceived
  <2>2. \A b \in {g_selectionContent', g_pasteBoardErrorCode'} \ {Nobody} : b = a
    BY DEF OnTextReceived
  <2> QED
    BY <2>1, <2>2 DEF StaleCameLate
<1>7. TextOrError'
  BY <1>1 DEF OnTextReceived, TextOrError
<1> QED
  BY <1>1, <1>2, <1>3, <1>4, <1>5, <1>6, <1>7 DEF PasteboardInv

-----------------------------------------------------------------------------
(* The theorems. *)

LEMMA PasteboardInit == PasteInit => PasteboardInv
<1> SUFFICES ASSUME PasteInit PROVE PasteboardInv
  OBVIOUS
<1> USE DEF PasteInit
<1>1. PasteTypeOK
  <2>1. injecting \in [Callers -> 0..1]
    OBVIOUS
  <2> QED
    BY <2>1 DEF PasteTypeOK
<1>2. InjectionIsHeld /\ InjectorWaited /\ AloneInside
  BY DEF InjectionIsHeld, InjectorWaited, AloneInside, Inside
<1>3. FreshIsAwaited /\ StaleCameLate /\ TextOrError
  BY DEF FreshIsAwaited, StaleCameLate, TextOrError
<1> QED
  BY <1>1, <1>2, <1>3 DEF PasteboardInv

LEMMA PasteboardStep == PasteboardInv /\ [PasteNext]_pasteVars => PasteboardInv'
<1> SUFFICES ASSUME PasteboardInv, [PasteNext]_pasteVars PROVE PasteboardInv'
  OBVIOUS
<1>1. CASE \E flag \in BOOLEAN : SetCanGetSelectionContentFlag(flag)
  BY <1>1, FlagKeeps
<1>2. CASE \E c \in Callers : RequestChecksFlag(c)
  BY <1>2, CheckFlagKeeps
<1>3. ASSUME NEW c \in Callers, Step(c) PROVE PasteboardInv'
  <2>1. CASE RequestClearsFlag(c)
    BY <2>1, ClearFlagKeeps
  <2>2. CASE WaitForPendingAsync(c)
    BY <2>2, WaitForPendingAsyncKeeps
  <2>3. CASE Refuse(c)
    BY <2>3, EmptyHandedKeeps DEF Refuse
  <2>4. CASE Subscribe(c)
    BY <2>4, EmptyHandedKeeps, SubscribedKeeps DEF Subscribe
  <2>5. CASE StartInjection(c)
    BY <2>5, StartInjectionKeeps
  <2>6. CASE StoreFuture(c)
    BY <2>6, StoreFutureKeeps
  <2>7. CASE TakeText(c)
    BY <2>7, TakeTextKeeps
  <2>8. CASE GiveUp(c)
    BY <2>8, GiveUpKeeps
  <2> QED
    BY <1>3, <2>1, <2>2, <2>3, <2>4, <2>5, <2>6, <2>7, <2>8 DEF Step
<1>4. CASE \E c \in Callers : EndInjection(c)
  BY <1>4, EndInjectionKeeps
<1>5. CASE \E a \in Answers : OnTextReceived(a)
  BY <1>5, OnTextReceivedKeeps
<1>6. CASE UNCHANGED pasteVars
  BY <1>6 DEF pasteVars, globals, PasteboardInv, PasteTypeOK, InjectionIsHeld, InjectorWaited,
     AloneInside, Inside,
              FreshIsAwaited, Awaited, StaleCameLate, TextOrError
<1> QED
  BY <1>1, <1>2, <1>3, <1>4, <1>5, <1>6 DEF PasteNext

LEMMA PasteboardAlways == PasteSpec => []PasteboardInv
  BY PasteboardInit, PasteboardStep, PTL DEF PasteSpec

\* The variables of the manager have their types; in particular no caller has more than
\* one injection running.
THEOREM PasteboardTypeCorrect == PasteSpec => []PasteTypeOK
  BY PasteboardAlways, PTL DEF PasteboardInv

\* For any number of readers: as long as no two of them have met in the manager, at most
\* one Ctrl+C is under way, however fast one request follows the other
\* (WaitForPendingAsync, and the future that is given up in GetSelectionContent).
THEOREM PasteboardOneInjection == PasteSpec => []OneInjectionUnlessShared
<1>1. ASSUME PasteboardInv PROVE OneInjectionUnlessShared
  <2> SUFFICES ASSUME ~shared PROVE OneInjectionAtATime
    BY DEF OneInjectionUnlessShared
  <2>1. \A c \in Callers : injecting[c] <= 1
    BY <1>1 DEF PasteboardInv, PasteTypeOK
  <2>2. ASSUME NEW c \in Callers, NEW d \in Callers, injecting[c] > 0, injecting[d] > 0
        PROVE  c = d
    <3>1. CASE callerPc[c] = "store_future" \/ callerPc[d] = "store_future"
      BY <1>1, <2>2, <3>1 DEF PasteboardInv, AloneInside
    <3>2. CASE callerPc[c] # "store_future" /\ callerPc[d] # "store_future"
      BY <1>1, <2>2, <3>2 DEF PasteboardInv, InjectionIsHeld
    <3> QED
      BY <3>1, <3>2
  <2> QED
    BY <2>1, <2>2 DEF OneInjectionAtATime, Running
<1> QED
  BY <1>1, PasteboardAlways, PTL

\* For any number of readers: a request returns the text or the error of its own
\* subscription, unless the last answer came too late or two requests met in the manager
\* (the globals of GetSelectionContent and OnTextReceived).
THEOREM PasteboardOwnAnswer == PasteSpec => OwnAnswerUnlessLateOrShared
<1> DEFINE Own(c) == callerPc[c] = "wait_text" /\ callerPc'[c] = "idle" =>
            \/ {g_selectionContent, g_pasteBoardErrorCode} \subseteq {Nobody, Mine(c)}
            \/ cameLate \/ shared
<1>1. ASSUME PasteboardInv PROVE [\A c \in Callers : Own(c)]_pasteVars
  <2> SUFFICES ASSUME NEW c \in Callers, callerPc[c] = "wait_text", ~cameLate, ~shared,
                      NEW a \in {g_selectionContent, g_pasteBoardErrorCode} \ {Nobody}
               PROVE  a = Mine(c)
    OBVIOUS
  <2>1. a \in Answers /\ a.fresh
    BY <1>1 DEF PasteboardInv, PasteTypeOK, StaleCameLate
  <2>2. callerPc[a.of] \in {"inject", "store_future", "wait_text"} /\ a.of \in Callers
    BY <1>1, <2>1 DEF PasteboardInv, FreshIsAwaited, Awaited, Answers
  <2>3. a.of = c
    BY <1>1, <2>2 DEF PasteboardInv, AloneInside, Inside
  <2> QED
    BY <2>1, <2>3 DEF Answers, Mine
<1> QED
  BY <1>1, PasteboardAlways, PTL DEF OwnAnswerUnlessLateOrShared
=============================================================================
