------------------------------ MODULE AsyncCalls ------------------------------
(***************************************************************************)
(* The calls of the script on a panel.  Each becomes a work item: its      *)
(* input runs on the script's thread and enters jsQueue_, its exec on a    *)
(* worker, its output on the script's thread again.  FFRTBlockQueue makes  *)
(* the calls wait for their turn, but only for MAX_WAIT_TIME; after that a *)
(* call goes on out of turn, and when it ends it pops the front of the     *)
(* queue, whoever's that is.  AsyncCall::Post keeps a second, serial queue *)
(* of the calls that are to run one after the other.                       *)
(***************************************************************************)
EXTENDS Naturals, Sequences, FiniteSets, SequencesExt

CONSTANTS
  Calls,   \* the calls the script makes
  UiCalls, \* setUiContent: waits and runs on the script's thread, in the output
  Posted   \* the calls that go through Post

ASSUME CallsAssumption == UiCalls \subseteq Calls /\ Posted \subseteq Calls \ UiCalls

VARIABLES
  jsQueue,    \* queues_ of jsQueue_
  stage,      \* [Calls -> how far the call is]
  blocking,   \* the call in whose output the script's thread is, as a set
  late,       \* the calls that went on without waiting for their turn
  order,      \* the calls that entered jsQueue_, in order
  served,     \* the calls that began to run, in order
  taskQueue,  \* taskQueue_ of the serial queue
  isRunning,  \* its isRunning
  refused     \* the calls whose work item could not be queued

callVars == <<jsQueue, stage, blocking, late, order, served, taskQueue, isRunning, refused>>
serialVars == <<taskQueue, isRunning>>

Stages == {"new", "queued", "refused", "waiting", "running", "executed", "answered"}
SerialStages == {"new", "posted", "queued", "refused", "executed", "answered"}

CallsTypeOK ==
  /\ jsQueue \in Seq(Calls \ Posted) /\ order \in Seq(Calls \ Posted)
  /\ served \in Seq(Calls \ Posted) /\ taskQueue \in Seq(Posted)
  /\ stage \in [Calls -> Stages \cup SerialStages]
  /\ \A c \in Posted : stage[c] \in SerialStages
  /\ blocking \subseteq UiCalls /\ late \cup refused \subseteq Calls /\ isRunning \in BOOLEAN

CallsInit ==
  /\ jsQueue = <<>> /\ order = <<>> /\ served = <<>> /\ taskQueue = <<>>
  /\ stage = [c \in Calls |-> "new"]
  /\ blocking = {} /\ late = {} /\ refused = {} /\ isRunning = FALSE

Moves(c, from, to) == stage[c] = from /\ stage' = [stage EXCEPT ![c] = to]
Turn(c) == jsQueue # <<>> /\ Head(jsQueue) = c

-----------------------------------------------------------------------------
(* A call through AsyncCall::Call                                          *)

\* The result of napi_queue_async_work_with_qos is not looked at: the entry of
\* a refused work item stays in jsQueue_.
Call(c, accepted) ==
  /\ c \notin Posted /\ blocking = {}
  /\ Moves(c, "new", IF accepted THEN "queued" ELSE "refused")
  /\ jsQueue' = Append(jsQueue, c) /\ order' = Append(order, c)
  /\ refused' = IF accepted THEN refused ELSE refused \cup {c}
  /\ UNCHANGED <<blocking, late, served, serialVars>>

\* A worker takes the item, or, for setUiContent, the script's thread its output.
OnExecute(c) ==
  /\ c \notin Posted
  /\ c \in UiCalls => blocking = {}
  /\ Moves(c, "queued", "waiting")
  /\ blocking' = IF c \in UiCalls THEN {c} ELSE blocking
  /\ UNCHANGED <<jsQueue, late, order, served, serialVars, refused>>

Wait(c) ==
  /\ Turn(c) /\ Moves(c, "waiting", "running")
  /\ served' = Append(served, c)
  /\ UNCHANGED <<jsQueue, blocking, late, order, serialVars, refused>>

\* Mutation for CallsAreAnswered: the wait has no time-out.
WaitForEver(c) == FALSE /\ c \in Calls /\ UNCHANGED callVars

WaitTimedOut(c) ==
  /\ ~Turn(c) /\ Moves(c, "waiting", "running")
  /\ late' = late \cup {c} /\ served' = Append(served, c)
  /\ UNCHANGED <<jsQueue, blocking, order, serialVars, refused>>

\* Mutation for CallsKeepOrder: a call only removes its own entry.
PopInTurn(c) ==
  /\ Moves(c, "running", IF c \in UiCalls THEN "answered" ELSE "executed")
  /\ jsQueue' = IF Turn(c) THEN Tail(jsQueue) ELSE jsQueue
  /\ blocking' = blocking \ {c}
  /\ UNCHANGED <<late, order, served, serialVars, refused>>

\* The panel has been called, or there was none; either way the front is popped.
Pop(c) ==
  /\ Moves(c, "running", IF c \in UiCalls THEN "answered" ELSE "executed")
  /\ jsQueue' = Tail(jsQueue)
  /\ blocking' = blocking \ {c}
  /\ UNCHANGED <<late, order, served, serialVars, refused>>

\* OnComplete settles the promise or calls back, and deletes the context.
OnComplete(c) ==
  /\ blocking = {} /\ Moves(c, "executed", "answered")
  /\ UNCHANGED <<jsQueue, blocking, late, order, served, serialVars, refused>>

-----------------------------------------------------------------------------
(* A call through AsyncCall::Post                                          *)

\* Only an idle queue starts the work; if that is refused, the entry stays.
Post(c, accepted) ==
  /\ c \in Posted /\ blocking = {} /\ (isRunning => accepted)
  /\ Moves(c, "new", IF isRunning THEN "posted" ELSE IF accepted THEN "queued" ELSE "refused")
  /\ taskQueue' = Append(taskQueue, c)
  /\ isRunning' = (isRunning \/ accepted)
  /\ refused' = IF accepted THEN refused ELSE refused \cup {c}
  /\ UNCHANGED <<jsQueue, blocking, late, order, served>>

\* OnExecuteSeq runs the call, pops the front and starts the next.  After a
\* refusal the front need not be the call's own entry, and the next may be the
\* call itself; the model stops there, for its context is being deleted.
OnExecuteSeq(c, accepted) ==
  LET rest == Tail(taskQueue) IN
  /\ c \in Posted /\ stage[c] = "queued" /\ taskQueue # <<>>
  /\ rest = <<>> => accepted
  /\ rest # <<>> => Head(rest) # c
  /\ taskQueue' = rest
  /\ isRunning' = (rest # <<>> /\ accepted)
  /\ stage' = [d \in Calls |->
                 IF d = c THEN "executed"
                 ELSE IF rest # <<>> /\ d = Head(rest)
                      THEN (IF accepted THEN "queued" ELSE "refused") ELSE stage[d]]
  /\ refused' = IF accepted THEN refused ELSE refused \cup {Head(rest)}
  /\ UNCHANGED <<jsQueue, blocking, late, order, served>>

-----------------------------------------------------------------------------
Work(c) ==
  \/ OnExecute(c) \/ Wait(c) \/ WaitTimedOut(c) \/ Pop(c) \/ OnComplete(c)
  \/ \E accepted \in BOOLEAN : OnExecuteSeq(c, accepted)

CallStep(c) ==
  \/ Work(c)
  \/ \E accepted \in BOOLEAN : Call(c, accepted) \/ Post(c, accepted)

CallsNext == \E c \in Calls : CallStep(c)

CallsSpec == CallsInit /\ [][CallsNext]_callVars

\* Workers take what is queued, a wait ends by itself, the script's thread
\* comes back to its event loop.
CallsFairness == \A c \in Calls : WF_callVars(Work(c))

-----------------------------------------------------------------------------
\* The queue that makes the calls take turns is kept by calls that pop each
\* other's entries: it holds as many entries as calls are under way or lost, so
\* that Wait never looks at the front of an empty queue.  As long as no call
\* gave up waiting they run one at a time and in the order the script made
\* them, and the serial queue is running exactly while it holds calls.
CallsKeepOrder ==
  /\ Len(jsQueue) = Cardinality({c \in Calls \ Posted :
                       stage[c] \in {"queued", "waiting", "running", "refused"}})
  /\ late = {} => /\ IsPrefix(served, order)
                  /\ \A c \in Calls \ Posted : stage[c] = "running" => Turn(c)
  /\ refused \cap Posted = {} =>
       /\ isRunning <=> taskQueue # <<>>
       /\ \A c \in Posted : stage[c] = "queued" <=> taskQueue # <<>> /\ Head(taskQueue) = c

\* Every call that a worker was to run is answered, though entries of lost calls
\* stay in the queue for ever: the time-out of Wait is what the rest lives on.
CallsAreAnswered ==
  \A c \in Calls \ Posted : (stage[c] = "queued") ~> (stage[c] = "answered")
===============================================================================
