----------------------------- MODULE ServiceProofs -----------------------------
(***************************************************************************)
(* Two promises of the service process.                                    *)
(*                                                                         *)
(* A loaded plugin has a timer, for any number of threads and timers: the  *)
(* invariant says who will start or cancel one.                            *)
(*                                                                         *)
(* Init of the service follows the abilities that run, however often the   *)
(* process and the abilities start and stop.  What has to be watched is    *)
(* not inductive by itself: an ability is watched because a subscription   *)
(* made it due for a handler, which may be at work (InitIsFollowed), and   *)
(* the flags say what is watched because a new process starts with nothing *)
(* (NewDidNothing, FlagsAreTrue).  How often an ability is watched is      *)
(* bounded together with the handlers that are still to act                *)
(* (HandlersAreCounted): the check of the flag lets several pass, and each *)
(* of them will register.                                                  *)
(***************************************************************************)
EXTENDS PluginTimer, Lifecycle, FiniteSetTheorems, TLAPS

-----------------------------------------------------------------------------
(* A loaded plugin has a timer. *)

\* A timer that a thread has registered but not stored yet is known to that
\* thread alone, so that no other can cancel it.
NewTimerIsPrivate ==
    \A t \in TimerThreads : timerPc[t] = "store" =>
        /\ local[t] \in registered
        /\ pluginUnloadTimerId_ # local[t]
        /\ \A u \in TimerThreads \ {t} : local[u] # local[t]

\* A user that has not come to Register yet will start a timer; the timer thread
\* will unload the plugin.
TimerWillStart ==
    \E t \in Users : timerPc[t] \in {"reset", "load", "unregister", "forget", "register"}
PluginWillGo == timerPc["timer"] \in {"forget", "unload"}

PluginIsTimed == soLoaded => registered # {} \/ TimerWillStart \/ PluginWillGo

Inv == TimerTypeOK /\ NewTimerIsPrivate /\ PluginIsTimed

-----------------------------------------------------------------------------

LEMMA ThreadsApart ==
    /\ "timer" \in TimerThreads /\ "timer" \notin Users
    /\ Users \subseteq TimerThreads /\ "input" \in Users
    /\ \A t \in TimerThreads : t \in Users \/ t = "timer"
    /\ Unset \notin TimerThreads /\ Unset \notin Timers
BY PluginTimerAssumption DEF TimerThreads, Users

LEMMA InitInv == TimerInit => Inv
BY ThreadsApart DEF TimerInit, Inv, TimerTypeOK, NewTimerIsPrivate, PluginIsTimed

LEMMA LoadKeepsInv == ASSUME NEW t \in Users, Inv, LoadPluginSo(t) PROVE Inv'
<1> USE ThreadsApart DEF Inv, LoadPluginSo, TimerGoto
<1>1. TimerTypeOK'
  BY DEF TimerTypeOK, ResetSteps
<1>2. NewTimerIsPrivate'
  BY DEF NewTimerIsPrivate, TimerTypeOK
<1>3. PluginIsTimed'
  BY DEF PluginIsTimed, TimerWillStart, PluginWillGo, TimerTypeOK
<1> QED BY <1>1, <1>2, <1>3

LEMMA SelectKeepsInv == ASSUME Inv, WordSelectedResets PROVE Inv'
<1> USE ThreadsApart DEF Inv, WordSelectedResets, TimerGoto
<1>1. TimerTypeOK'
  BY DEF TimerTypeOK, ResetSteps
<1>2. NewTimerIsPrivate'
  BY DEF NewTimerIsPrivate, TimerTypeOK
<1>3. PluginIsTimed'
  BY DEF PluginIsTimed, TimerWillStart, PluginWillGo, TimerTypeOK
<1> QED BY <1>1, <1>2, <1>3

\* The steps of the timer thread that are not steps of a reset.
LEMMA TimerKeepsInv ==
    ASSUME Inv, OnPluginUnloadTimer \/ UnloadOnTimer \/ Unload PROVE Inv'
<1> USE ThreadsApart DEF Inv, OnPluginUnloadTimer, UnloadOnTimer, Unload, TimerGoto
<1>1. TimerTypeOK'
  BY DEF TimerTypeOK, ResetSteps, Unlock
<1>2. NewTimerIsPrivate'
  BY DEF NewTimerIsPrivate, TimerTypeOK
<1>3. PluginIsTimed'
  BY DEF PluginIsTimed, TimerWillStart, PluginWillGo, TimerTypeOK
<1> QED BY <1>1, <1>2, <1>3

LEMMA ResetKeepsInv == ASSUME NEW t \in TimerThreads, Inv, ResetPluginUnloadTimer(t) PROVE Inv'
<1> USE ThreadsApart DEF Inv, TimerGoto, Rest
<1>1. CASE IsTimerSet(t)
  <2>1. TimerTypeOK' BY <1>1 DEF IsTimerSet, TimerTypeOK, ResetSteps
  <2>2. NewTimerIsPrivate' BY <1>1 DEF IsTimerSet, NewTimerIsPrivate, TimerTypeOK
  <2>3. PluginIsTimed'
    BY <1>1 DEF IsTimerSet, PluginIsTimed, TimerWillStart, PluginWillGo, TimerTypeOK
  <2> QED BY <2>1, <2>2, <2>3
<1>2. CASE LoadTimer(t)
  <2>1. TimerTypeOK' BY <1>2 DEF LoadTimer, TimerTypeOK, ResetSteps
  <2>2. NewTimerIsPrivate' BY <1>2 DEF LoadTimer, NewTimerIsPrivate, TimerTypeOK
  <2>3. PluginIsTimed'
    BY <1>2 DEF LoadTimer, PluginIsTimed, TimerWillStart, PluginWillGo, TimerTypeOK
  <2> QED BY <2>1, <2>2, <2>3
<1>3. CASE UnRegister(t)
  <2>1. TimerTypeOK' BY <1>3 DEF UnRegister, TimerTypeOK, ResetSteps
  <2>2. NewTimerIsPrivate' BY <1>3 DEF UnRegister, NewTimerIsPrivate, TimerTypeOK
  <2>3. PluginIsTimed'
    BY <1>3 DEF UnRegister, PluginIsTimed, TimerWillStart, PluginWillGo, TimerTypeOK
  <2> QED BY <2>1, <2>2, <2>3
<1>4. CASE ForgetTimer(t)
  <2>1. TimerTypeOK' BY <1>4 DEF ForgetTimer, TimerTypeOK, ResetSteps
  <2>2. NewTimerIsPrivate' BY <1>4 DEF ForgetTimer, NewTimerIsPrivate, TimerTypeOK
  <2>3. PluginIsTimed'
    BY <1>4 DEF ForgetTimer, PluginIsTimed, TimerWillStart, PluginWillGo, TimerTypeOK
  <2> QED BY <2>1, <2>2, <2>3
<1>5. CASE Register(t)
  <2>1. TimerTypeOK' BY <1>5 DEF Register, TimerTypeOK, ResetSteps
  <2>2. NewTimerIsPrivate' BY <1>5 DEF Register, Fresh, NewTimerIsPrivate, TimerTypeOK
  <2>3. PluginIsTimed' BY <1>5 DEF Register, PluginIsTimed
  <2> QED BY <2>1, <2>2, <2>3
<1>6. CASE StoreTimer(t)
  <2>1. TimerTypeOK' BY <1>6 DEF StoreTimer, Unlock, TimerTypeOK, ResetSteps
  <2>2. NewTimerIsPrivate' BY <1>6 DEF StoreTimer, NewTimerIsPrivate, TimerTypeOK
  <2>3. PluginIsTimed' BY <1>6 DEF StoreTimer, NewTimerIsPrivate, PluginIsTimed
  <2> QED BY <2>1, <2>2, <2>3
<1> QED BY <1>1, <1>2, <1>3, <1>4, <1>5, <1>6 DEF ResetPluginUnloadTimer

LEMMA ShowPanelKeepsInv == ASSUME NEW b \in BOOLEAN, Inv, ShowPanel(b) PROVE Inv'
BY DEF ShowPanel, Inv, TimerTypeOK, NewTimerIsPrivate, PluginIsTimed, TimerWillStart, PluginWillGo

LEMMA StutterKeepsInv == ASSUME Inv, UNCHANGED timerVars PROVE Inv'
BY DEF timerVars, Inv, TimerTypeOK, NewTimerIsPrivate, PluginIsTimed, TimerWillStart, PluginWillGo

LEMMA TimerInvariant == TimerSpec => []Inv
<1>1. Inv /\ [TimerNext]_timerVars => Inv'
  BY LoadKeepsInv, SelectKeepsInv, TimerKeepsInv, ResetKeepsInv, ShowPanelKeepsInv,
     StutterKeepsInv DEF TimerNext
<1> QED BY InitInv, <1>1, PTL DEF TimerSpec

LEMMA InvImplies == Inv => TimerTypeOK /\ LoadedPluginIsTimed
BY ThreadsApart DEF Inv, PluginIsTimed, TimerWillStart, PluginWillGo, LoadedPluginIsTimed, Idle

\* Every variable of the plugin's timer keeps its type: in particular only the
\* timer thread unloads, and only the users start timers.
THEOREM TimerTypeCorrect == TimerSpec => []TimerTypeOK
BY TimerInvariant, InvImplies, PTL

\* A loaded plugin has a timer whenever no reset is under way, for any number of
\* threads that load the plugin and any number of timers (ResetPluginUnloadTimer).
THEOREM TimerLoadedPluginIsTimed == TimerSpec => []LoadedPluginIsTimed
BY TimerInvariant, InvImplies, PTL

-----------------------------------------------------------------------------
(* The service watches what runs. *)

(* The inductive invariant. *)

\* No call for the ability failed.
Clean(a) == a \notin trouble

\* A new process has done nothing yet.
NewDidNothing ==
    service.phase = "new" =>
        /\ service.inits = 0 /\ flags = {} /\ ~focus
        /\ \A a \in Abilities : /\ subscriptions[a] = 0 /\ due[a] = 0 /\ acting[a] = 0
                                /\ handle[a] = NoHandle /\ watching[a] = {}

\* What Init subscribed to is subscribed, and is on its way to be watched.
InitIsFollowed ==
    \A a \in Abilities : Clean(a) /\ service.inits > 0 =>
        /\ subscriptions[a] > 0
        /\ service.phase = "running" /\ a \in up => a \in flags \/ due[a] > 0 \/ acting[a] > 0

\* What the service knows of an ability it is registered with: how to take the
\* registration away.
Watched(a) == IF a = "windows" THEN focus ELSE handle[a] \in watching[a]
Unknown(a) == CASE a = "input" -> handle[a] = NoHandle [] a = "windows" -> ~focus [] OTHER -> TRUE

\* The flag of an ability says whether it is watched, unless a crash took the
\* registration along.
FlagsAreTrue ==
    \A a \in Abilities : Clean(a) =>
        /\ a \notin flags /\ (a = "events" => service.phase # "stopped") => watching[a] = {}
        /\ service.phase \in BeforeShutdown(a) =>
            /\ a \notin flags => Unknown(a)
            /\ a \in flags /\ a \notin dropped => watching[a] # {}
            /\ watching[a] # {} => Watched(a)
            /\ a # "windows" /\ spare[a] = 0 => watching[a] \subseteq {handle[a]}

\* Who is past the check will register, so both are bounded together.
Counted(a) ==
    /\ IsFiniteSet(watching[a])
    /\ acting[a] <= spare[a] + IF a \in flags THEN 0 ELSE 1
    /\ Cardinality(watching[a]) + acting[a]
         <= 1 + spare[a] + IF a = "events" /\ service.phase = "stopped" THEN spare[a] ELSE 0
    /\ service.phase \notin BeforeShutdown(a) /\ (a \notin late \/ (a = "events" /\ a \notin flags)) =>
         Cardinality(watching[a]) <= spare[a]

HandlersAreCounted ==
    /\ acting["windows"] = 0 /\ spare["windows"] = 0
    /\ \A a \in Abilities : Clean(a) => Counted(a)

LifeInv == LifeTypeOK /\ NewDidNothing /\ InitIsFollowed /\ FlagsAreTrue /\ HandlersAreCounted

\* What a registration and its removal do to the number of registrations.
LEMMA NoRegistration ==
  IsFiniteSet({}) /\ Cardinality({}) = 0
BY FS_EmptySet

LEMMA OneMore ==
  ASSUME NEW S, IsFiniteSet(S), NEW h
  PROVE  /\ IsFiniteSet(S \cup {h}) /\ Cardinality(S \cup {h}) \in Nat
         /\ Cardinality(S \cup {h}) <= Cardinality(S) + 1
<1>1. Cardinality(S) \in Nat
  BY FS_CardinalityType
<1>2. IsFiniteSet(S \cup {h}) /\ Cardinality(S \cup {h}) = IF h \in S THEN Cardinality(S) ELSE Cardinality(S) + 1
  BY FS_AddElement
<1> QED
  BY ONLY <1>1, <1>2

LEMMA OneLess ==
  ASSUME NEW S, IsFiniteSet(S), NEW h \in S
  PROVE  /\ IsFiniteSet(S \ {h}) /\ Cardinality(S \ {h}) \in Nat
         /\ Cardinality(S \ {h}) = Cardinality(S) - 1
<1>1. IsFiniteSet(S \ {h}) /\ Cardinality(S \ {h}) = Cardinality(S) - 1
  BY FS_RemoveElement
<1> QED
  BY <1>1, FS_CardinalityType

\* The service starts, and Init may run at once.
LEMMA StartKeeps ==
  ASSUME LifeInv, NEW canWatch \in BOOLEAN, NEW refused \in SUBSET Abilities, OnStart(canWatch, refused)
  PROVE  LifeInv'
<1> USE DEF LifeInv, LifeTypeOK, OnStart, SubscribeAbilities, pastVars, worldVars, NoHandle
<1>1. LifeTypeOK'
  <2>1. service' \in [phase : {"new", "running", "noMonitor", "noFocus", "stopped"}, inits : Nat]
    OBVIOUS
  <2>2. /\ subscriptions' \in [Abilities -> Nat] /\ due' \in [Abilities -> Nat]
        /\ trouble' \subseteq Abilities
    <3>1. CASE canWatch
      BY <3>1
    <3>2. CASE ~canWatch
      <4>1. /\ subscriptions' = [a \in Abilities |-> subscriptions[a] + IF a \in refused THEN 0 ELSE 1]
            /\ due' = [a \in Abilities |-> due[a] + IF a \in up \ refused THEN 1 ELSE 0]
            /\ trouble' = trouble \cup refused
        BY <3>2
      <4> QED
        BY <4>1
    <3> QED
      BY <3>1, <3>2
  <2> QED
    BY <2>1, <2>2
<1>2. NewDidNothing'
  BY DEF NewDidNothing, Abilities
<1>3. InitIsFollowed'
  BY DEF NewDidNothing, InitIsFollowed, FlagsAreTrue, HandlersAreCounted, Clean, Unknown, BeforeShutdown, Abilities
<1>4. FlagsAreTrue'
  BY DEF NewDidNothing, FlagsAreTrue, HandlersAreCounted, Counted, Clean, Watched, Unknown, BeforeShutdown, Abilities
<1>5. HandlersAreCounted'
  BY NoRegistration DEF NewDidNothing, FlagsAreTrue, HandlersAreCounted, Counted, Clean, Watched, BeforeShutdown, Abilities
<1> QED
  BY <1>1, <1>2, <1>3, <1>4, <1>5

\* Init may run again: what it subscribes to again is handled again.
LEMMA BootKeeps ==
  ASSUME LifeInv, NEW refused \in SUBSET Abilities, PerformParamBootCompleted(refused)
  PROVE  LifeInv'
<1> USE DEF LifeInv, LifeTypeOK, PerformParamBootCompleted, SubscribeAbilities, pastVars, worldVars, NoHandle
<1>1. LifeTypeOK'
  BY LifecycleAssumption DEF Abilities
<1>2. NewDidNothing'
  BY DEF NewDidNothing, Abilities
<1>3. InitIsFollowed'
  BY DEF NewDidNothing, InitIsFollowed, FlagsAreTrue, HandlersAreCounted, Clean, Unknown, BeforeShutdown, Abilities
<1>4. FlagsAreTrue'
  BY DEF NewDidNothing, FlagsAreTrue, HandlersAreCounted, Counted, Clean, Watched, Unknown, BeforeShutdown, Abilities
<1>5. HandlersAreCounted'
  BY NoRegistration DEF NewDidNothing, FlagsAreTrue, HandlersAreCounted, Counted, Clean, Watched, BeforeShutdown, Abilities
<1> QED
  BY <1>1, <1>2, <1>3, <1>4, <1>5

\* An ability that comes is on its way to be watched.
LEMMA AddKeeps ==
  ASSUME LifeInv, NEW b \in Abilities, OnAddSystemAbility(b)
  PROVE  LifeInv'
<1> USE DEF LifeInv, LifeTypeOK, OnAddSystemAbility, pastVars, worldVars, NoHandle
<1>1. LifeTypeOK'
  BY LifecycleAssumption DEF Abilities
<1>2. NewDidNothing'
  BY DEF NewDidNothing, Abilities
<1>3. InitIsFollowed'
  BY DEF NewDidNothing, InitIsFollowed, FlagsAreTrue, HandlersAreCounted, Clean, Unknown, BeforeShutdown, Abilities
<1>4. FlagsAreTrue'
  BY DEF NewDidNothing, FlagsAreTrue, HandlersAreCounted, Counted, Clean, Watched, Unknown, BeforeShutdown, Abilities
<1>5. HandlersAreCounted'
  BY NoRegistration DEF NewDidNothing, FlagsAreTrue, HandlersAreCounted, Counted, Clean, Watched, BeforeShutdown, Abilities
<1> QED
  BY <1>1, <1>2, <1>3, <1>4, <1>5

\* What goes need not be watched; what it takes along is noted.
LEMMA RemoveKeeps ==
  ASSUME LifeInv, NEW b \in Abilities, NEW kept \in BOOLEAN, OnRemoveSystemAbility(b, kept)
  PROVE  LifeInv'
<1> USE DEF LifeInv, LifeTypeOK, OnRemoveSystemAbility, pastVars, worldVars, NoHandle
<1>1. LifeTypeOK'
  BY LifecycleAssumption DEF Abilities
<1>2. NewDidNothing'
  BY DEF NewDidNothing, Abilities
<1>3. InitIsFollowed'
  BY DEF NewDidNothing, InitIsFollowed, FlagsAreTrue, HandlersAreCounted, Clean, Unknown, BeforeShutdown, Abilities
<1>4. FlagsAreTrue'
  BY DEF NewDidNothing, FlagsAreTrue, HandlersAreCounted, Counted, Clean, Watched, Unknown, BeforeShutdown, Abilities
<1>5. HandlersAreCounted'
  BY NoRegistration DEF NewDidNothing, FlagsAreTrue, HandlersAreCounted, Counted, Clean, Watched, BeforeShutdown, Abilities
<1> QED
  BY <1>1, <1>2, <1>3, <1>4, <1>5

\* A handler that finds the ability watched has nothing to do; any other is counted.
LEMMA ChecksKeep ==
  ASSUME LifeInv, NEW b \in Abilities, HandlerChecks(b)
  PROVE  LifeInv'
<1> USE DEF LifeInv, LifeTypeOK, HandlerChecks, MayAct, pastVars, worldVars, NoHandle
<1>1. LifeTypeOK'
  BY LifecycleAssumption DEF Abilities
<1>2. NewDidNothing'
  BY DEF NewDidNothing, Abilities
<1>3. InitIsFollowed'
  BY DEF NewDidNothing, InitIsFollowed, FlagsAreTrue, HandlersAreCounted, Clean, Unknown, BeforeShutdown, Abilities
<1>4. FlagsAreTrue'
  BY DEF NewDidNothing, FlagsAreTrue, HandlersAreCounted, Counted, Clean, Watched, Unknown, BeforeShutdown, Abilities
<1>5. HandlersAreCounted'
  <2>1. acting'["windows"] = 0 /\ spare'["windows"] = 0
    BY DEF HandlersAreCounted, Abilities
  <2>2. ASSUME NEW a \in Abilities, Clean(a)', a # b PROVE Counted(a)'
    <3>1. Clean(a) /\ Counted(a) /\ watching'[a] = watching[a] /\ acting'[a] = acting[a] /\ spare'[a] = spare[a]
      BY <2>2 DEF HandlersAreCounted, Clean, Abilities
    <3> QED
      BY <2>2, <3>1 DEF Counted, BeforeShutdown, Abilities
  <2>3. ASSUME Clean(b)' PROVE Counted(b)'
    <3>1. Clean(b) /\ Counted(b) /\ acting[b] \in Nat /\ spare[b] \in Nat /\ b \in Abilities
      BY <2>3 DEF HandlersAreCounted, Clean, Abilities
    <3>2. IsFiniteSet(watching[b]) /\ Cardinality(watching[b]) \in Nat
      BY <3>1, FS_CardinalityType DEF Counted
    <3>3. /\ acting'[b] = acting[b] + IF MayAct(b) THEN 1 ELSE 0
          /\ spare'[b] = IF acting'[b] > spare[b] + 1 THEN acting'[b] - 1 ELSE spare[b]
          /\ watching' = watching /\ flags' = flags /\ late' = late /\ service' = service
      BY <3>1
    <3>4. b \notin flags /\ (b = "events" => service.phase # "stopped") => Cardinality(watching[b]) = 0
      BY <3>1, NoRegistration DEF FlagsAreTrue
    <3>5. b \notin flags /\ b = "events" /\ service.phase = "stopped" => Cardinality(watching[b]) <= spare[b]
      BY <3>1 DEF Counted, BeforeShutdown
    <3>6. /\ acting'[b] <= spare'[b] + IF b \in flags THEN 0 ELSE 1
          /\ spare[b] <= spare'[b] /\ spare'[b] \in Nat
      BY <3>1, <3>3 DEF Counted
    <3>7. Cardinality(watching[b]) + acting'[b]
            <= 1 + spare'[b] + IF b = "events" /\ service.phase = "stopped" THEN spare'[b] ELSE 0
      <4>1. CASE b \in flags
        BY <3>1, <3>2, <3>3, <3>6, <4>1 DEF Counted, MayAct
      <4>2. CASE b \notin flags
        BY <3>1, <3>2, <3>3, <3>4, <3>5, <3>6, <4>2
      <4> QED
        BY <4>1, <4>2
    <3>8. service.phase \notin BeforeShutdown(b) /\ (b \notin late \/ (b = "events" /\ b \notin flags)) =>
            Cardinality(watching[b]) <= spare'[b]
      BY <3>1, <3>2, <3>6 DEF Counted
    <3> QED
      BY <3>2, <3>3, <3>6, <3>7, <3>8 DEF Counted, BeforeShutdown
  <2> QED
    BY <2>1, <2>2, <2>3 DEF HandlersAreCounted, Abilities
<1> QED
  BY <1>1, <1>2, <1>3, <1>4, <1>5

\* The handler of the input service acts.
LEMMA MonitorKeeps ==
  ASSUME LifeInv, NEW ok \in BOOLEAN, InputMonitorInit(ok)
  PROVE  LifeInv'
<1> USE DEF LifeInv, LifeTypeOK, InputMonitorInit, RegistersAt, pastVars, worldVars, NoHandle
<1>1. LifeTypeOK'
  <2>1. late' \subseteq Abilities /\ flags' \subseteq Abilities /\ trouble' \subseteq Abilities
    BY DEF Abilities
  <2>2. watching' \in [Abilities -> SUBSET Nat]
    BY DEF Abilities
  <2> QED
    BY <2>1, <2>2, LifecycleAssumption DEF Abilities
<1>2. NewDidNothing'
  BY DEF NewDidNothing, Abilities
<1>3. InitIsFollowed'
  BY DEF NewDidNothing, InitIsFollowed, FlagsAreTrue, HandlersAreCounted, Clean, Unknown, BeforeShutdown, Abilities
<1>4. FlagsAreTrue'
  BY DEF NewDidNothing, FlagsAreTrue, HandlersAreCounted, Counted, Clean, Watched, Unknown, BeforeShutdown, Abilities
<1>5. HandlersAreCounted'
  <2>1. acting'["windows"] = 0 /\ spare'["windows"] = 0
    BY DEF HandlersAreCounted, Abilities
  <2>2. ASSUME NEW a \in Abilities, Clean(a)', a # "input" PROVE Counted(a)'
    <3>1. Clean(a) /\ Counted(a) /\ watching'[a] = watching[a] /\ acting'[a] = acting[a] /\ spare'[a] = spare[a]
      BY <2>2 DEF HandlersAreCounted, Clean, Abilities
    <3> QED
      BY <2>2, <3>1 DEF Counted, BeforeShutdown, Abilities
  <2>3. ASSUME Clean("input")' PROVE Counted("input")'
    <3>1. Clean("input") /\ Counted("input") /\ acting["input"] \in Nat /\ spare["input"] \in Nat /\ "input" \in Abilities
      BY <2>3 DEF HandlersAreCounted, Clean, Abilities
    <3>2. IsFiniteSet(watching["input"]) /\ Cardinality(watching["input"]) \in Nat
      BY <3>1, FS_CardinalityType DEF Counted
    <3>3. /\ acting'["input"] = acting["input"] - 1 /\ spare' = spare
          /\ watching'["input"] = watching["input"] \cup {created + 1}
          /\ "input" \in flags' /\ service' = service
          /\ (service.phase \notin BeforeShutdown("input") => "input" \in late')
      BY <2>3, <3>1 DEF Clean
    <3>4. IsFiniteSet(watching'["input"]) /\ Cardinality(watching'["input"]) \in Nat
          /\ Cardinality(watching'["input"]) <= Cardinality(watching["input"]) + 1
      <4> DEFINE S == watching["input"]
      <4>1. /\ IsFiniteSet(S \cup {created + 1}) /\ Cardinality(S \cup {created + 1}) \in Nat
            /\ Cardinality(S \cup {created + 1}) <= Cardinality(S) + 1
        BY ONLY <3>2, OneMore
      <4> QED
        BY ONLY <3>3, <4>1
    <3> QED
      BY <3>1, <3>2, <3>3, <3>4 DEF Counted, BeforeShutdown
  <2> QED
    BY <2>1, <2>2, <2>3 DEF HandlersAreCounted, Abilities
<1> QED
  BY <1>1, <1>2, <1>3, <1>4, <1>5

\* The handler of the event service acts.
LEMMA ReceiverKeeps ==
  ASSUME LifeInv, NEW ok \in BOOLEAN, SubscribeSysEventReceiver(ok)
  PROVE  LifeInv'
<1> USE DEF LifeInv, LifeTypeOK, SubscribeSysEventReceiver, RegistersAt, pastVars, worldVars, NoHandle
<1>1. LifeTypeOK'
  <2>1. late' \subseteq Abilities /\ flags' \subseteq Abilities /\ trouble' \subseteq Abilities
    BY DEF Abilities
  <2>2. watching' \in [Abilities -> SUBSET Nat]
    BY DEF Abilities
  <2> QED
    BY <2>1, <2>2, LifecycleAssumption DEF Abilities
<1>2. NewDidNothing'
  BY DEF NewDidNothing, Abilities
<1>3. InitIsFollowed'
  BY DEF NewDidNothing, InitIsFollowed, FlagsAreTrue, HandlersAreCounted, Clean, Unknown, BeforeShutdown, Abilities
<1>4. FlagsAreTrue'
  BY DEF NewDidNothing, FlagsAreTrue, HandlersAreCounted, Counted, Clean, Watched, Unknown, BeforeShutdown, Abilities
<1>5. HandlersAreCounted'
  <2>1. acting'["windows"] = 0 /\ spare'["windows"] = 0
    BY DEF HandlersAreCounted, Abilities
  <2>2. ASSUME NEW a \in Abilities, Clean(a)', a # "events" PROVE Counted(a)'
    <3>1. Clean(a) /\ Counted(a) /\ watching'[a] = watching[a] /\ acting'[a] = acting[a] /\ spare'[a] = spare[a]
      BY <2>2 DEF HandlersAreCounted, Clean, Abilities
    <3> QED
      BY <2>2, <3>1 DEF Counted, BeforeShutdown, Abilities
  <2>3. ASSUME Clean("events")' PROVE Counted("events")'
    <3>1. Clean("events") /\ Counted("events") /\ acting["events"] \in Nat /\ spare["events"] \in Nat /\ "events" \in Abilities
      BY <2>3 DEF HandlersAreCounted, Clean, Abilities
    <3>2. IsFiniteSet(watching["events"]) /\ Cardinality(watching["events"]) \in Nat
      BY <3>1, FS_CardinalityType DEF Counted
    <3>3. /\ acting'["events"] = acting["events"] - 1 /\ spare' = spare
          /\ watching'["events"] = watching["events"] \cup {created + 1}
          /\ "events" \in flags' /\ service' = service
          /\ (service.phase \notin BeforeShutdown("events") => "events" \in late')
      BY <2>3, <3>1 DEF Clean
    <3>4. IsFiniteSet(watching'["events"]) /\ Cardinality(watching'["events"]) \in Nat
          /\ Cardinality(watching'["events"]) <= Cardinality(watching["events"]) + 1
      <4> DEFINE S == watching["events"]
      <4>1. /\ IsFiniteSet(S \cup {created + 1}) /\ Cardinality(S \cup {created + 1}) \in Nat
            /\ Cardinality(S \cup {created + 1}) <= Cardinality(S) + 1
        BY ONLY <3>2, OneMore
      <4> QED
        BY ONLY <3>3, <4>1
    <3> QED
      BY <3>1, <3>2, <3>3, <3>4 DEF Counted, BeforeShutdown
  <2> QED
    BY <2>1, <2>2, <2>3 DEF HandlersAreCounted, Abilities
<1> QED
  BY <1>1, <1>2, <1>3, <1>4, <1>5

\* The handler of the window manager checks and acts in one step.
LEMMA FocusKeeps ==
  ASSUME LifeInv, NEW ok \in BOOLEAN, InitFocusChangedMonitor(ok)
  PROVE  LifeInv'
<1> USE DEF LifeInv, LifeTypeOK, InitFocusChangedMonitor, RegistersAt, pastVars, worldVars, NoHandle
<1>1. LifeTypeOK'
  <2>1. late' \subseteq Abilities /\ flags' \subseteq Abilities /\ trouble' \subseteq Abilities
    BY DEF Abilities
  <2>2. watching' \in [Abilities -> SUBSET Nat]
    BY DEF Abilities
  <2> QED
    BY <2>1, <2>2, LifecycleAssumption DEF Abilities
<1>2. NewDidNothing'
  BY DEF NewDidNothing, Abilities
<1>3. InitIsFollowed'
  BY DEF NewDidNothing, InitIsFollowed, FlagsAreTrue, HandlersAreCounted, Clean, Unknown, BeforeShutdown, Abilities
<1>4. FlagsAreTrue'
  BY DEF NewDidNothing, FlagsAreTrue, HandlersAreCounted, Counted, Clean, Watched, Unknown, BeforeShutdown, Abilities
<1>5. HandlersAreCounted'
  <2>1. acting'["windows"] = 0 /\ spare'["windows"] = 0
    BY DEF HandlersAreCounted, Abilities
  <2>2. ASSUME NEW a \in Abilities, Clean(a)', a # "windows" PROVE Counted(a)'
    <3>1. Clean(a) /\ Counted(a) /\ watching'[a] = watching[a] /\ acting'[a] = acting[a] /\ spare'[a] = spare[a]
      BY <2>2 DEF HandlersAreCounted, Clean, Abilities
    <3> QED
      BY <2>2, <3>1 DEF Counted, BeforeShutdown, Abilities
  <2>3. ASSUME Clean("windows")' PROVE Counted("windows")'
    <3>1. Clean("windows") /\ Counted("windows") /\ acting["windows"] \in Nat /\ spare["windows"] \in Nat /\ "windows" \in Abilities
      BY <2>3 DEF HandlersAreCounted, Clean, Abilities
    <3>2. IsFiniteSet(watching["windows"]) /\ Cardinality(watching["windows"]) \in Nat
      BY <3>1, FS_CardinalityType DEF Counted
    <3>3. /\ acting' = acting /\ spare' = spare /\ service' = service /\ "windows" \in flags'
          /\ acting["windows"] = 0 /\ spare["windows"] = 0
      BY DEF HandlersAreCounted
    <3>4. CASE "windows" \notin flags /\ ~focus
      <4>1. ok /\ watching'["windows"] = {1} /\ (service.phase \notin BeforeShutdown("windows") => "windows" \in late')
        BY <2>3, <3>1, <3>4 DEF Clean
      <4>2. IsFiniteSet({1}) /\ Cardinality({1}) = 1
        BY FS_Singleton
      <4> QED
        <5>1. acting'["windows"] = 0 /\ spare'["windows"] = 0 /\ watching'["windows"] = {1}
          BY <3>3, <4>1
        <5> QED
          BY ONLY <3>3, <4>1, <4>2, <5>1 DEF Counted, BeforeShutdown
    <3>5. CASE ~("windows" \notin flags /\ ~focus)
      <4>1. watching' = watching /\ late' = late
        BY <3>5
      <4> QED
        <5>1. acting'["windows"] = 0 /\ spare'["windows"] = 0 /\ watching'["windows"] = watching["windows"]
          BY <3>3, <4>1
        <5>2. Cardinality(watching["windows"]) <= 1
          BY <3>1, <3>2, <3>3 DEF Counted
        <5>3. service.phase \notin BeforeShutdown("windows") /\ "windows" \notin late => Cardinality(watching["windows"]) <= 0
          BY <3>1, <3>3 DEF Counted
        <5> QED
          BY <3>2, <3>3, <4>1, <5>1, <5>2, <5>3 DEF Counted, BeforeShutdown
    <3> QED
      BY <3>4, <3>5
  <2> QED
    BY <2>1, <2>2, <2>3 DEF HandlersAreCounted, Abilities
<1> QED
  BY <1>1, <1>2, <1>3, <1>4, <1>5

\* The three steps of the shutdown take away what is watched.
LEMMA CancelMonitorKeeps ==
  ASSUME LifeInv, InputMonitorCancel
  PROVE  LifeInv'
<1> USE DEF LifeInv, LifeTypeOK, InputMonitorCancel, Advance, pastVars, worldVars, NoHandle
<1>1. LifeTypeOK'
  BY LifecycleAssumption DEF Abilities
<1>2. NewDidNothing'
  BY DEF NewDidNothing, Abilities
<1>3. InitIsFollowed'
  BY DEF NewDidNothing, InitIsFollowed, FlagsAreTrue, HandlersAreCounted, Clean, Unknown, BeforeShutdown, Abilities
<1>4. FlagsAreTrue'
  BY DEF NewDidNothing, FlagsAreTrue, HandlersAreCounted, Counted, Clean, Watched, Unknown, BeforeShutdown, Abilities
<1>5. HandlersAreCounted'
  <2>1. acting'["windows"] = 0 /\ spare'["windows"] = 0
    BY DEF HandlersAreCounted, Abilities
  <2>2. ASSUME NEW a \in Abilities, Clean(a)', a # "input" PROVE Counted(a)'
    <3>1. Clean(a) /\ Counted(a) /\ watching'[a] = watching[a] /\ acting'[a] = acting[a] /\ spare'[a] = spare[a]
      BY <2>2 DEF HandlersAreCounted, Clean, Abilities
    <3> QED
      BY <2>2, <3>1 DEF Counted, BeforeShutdown, Abilities
  <2>3. ASSUME Clean("input")' PROVE Counted("input")'
    <3>1. Clean("input") /\ Counted("input") /\ acting["input"] \in Nat /\ spare["input"] \in Nat /\ "input" \in Abilities
      BY <2>3 DEF HandlersAreCounted, Clean, Abilities
    <3>2. IsFiniteSet(watching["input"]) /\ Cardinality(watching["input"]) \in Nat
      BY <3>1, FS_CardinalityType DEF Counted
    <3>3. /\ acting' = acting /\ spare' = spare /\ flags' = flags
          /\ watching'["input"] = watching["input"] \ {handle["input"]}
          /\ service.phase = "running" /\ service'.phase = "noMonitor"
      BY <3>1
    <3>4. watching["input"] = {} \/ handle["input"] \in watching["input"]
      BY <3>1, <3>3 DEF FlagsAreTrue, Watched, BeforeShutdown
    <3>5. IsFiniteSet(watching'["input"]) /\ Cardinality(watching'["input"]) \in Nat
          /\ Cardinality(watching'["input"]) <= Cardinality(watching["input"])
          /\ Cardinality(watching'["input"]) <= spare["input"]
      <4>1. CASE watching["input"] = {}
        <5>1. watching'["input"] = {}
          BY <3>3, <4>1
        <5> QED
          BY ONLY <3>1, <3>2, <5>1, NoRegistration
      <4>2. CASE handle["input"] \in watching["input"]
        <5>1. /\ IsFiniteSet(watching'["input"]) /\ Cardinality(watching'["input"]) \in Nat
              /\ Cardinality(watching'["input"]) = Cardinality(watching["input"]) - 1
          BY <3>2, <3>3, <4>2, OneLess
        <5>2. Cardinality(watching["input"]) + acting["input"] <= 1 + spare["input"]
          BY <3>1, <3>3 DEF Counted
        <5> QED
          BY ONLY <3>1, <3>2, <5>1, <5>2
      <4> QED
        BY <3>4, <4>1, <4>2
    <3> QED
      BY <3>1, <3>2, <3>3, <3>5 DEF Counted, BeforeShutdown
  <2> QED
    BY <2>1, <2>2, <2>3 DEF HandlersAreCounted, Abilities
<1> QED
  BY <1>1, <1>2, <1>3, <1>4, <1>5

LEMMA CancelFocusKeeps ==
  ASSUME LifeInv, CancelFocusChangedMonitor
  PROVE  LifeInv'
<1> USE DEF LifeInv, LifeTypeOK, CancelFocusChangedMonitor, Advance, pastVars, worldVars, NoHandle
<1>1. LifeTypeOK'
  BY LifecycleAssumption DEF Abilities
<1>2. NewDidNothing'
  BY DEF NewDidNothing, Abilities
<1>3. InitIsFollowed'
  BY DEF NewDidNothing, InitIsFollowed, FlagsAreTrue, HandlersAreCounted, Clean, Unknown, BeforeShutdown, Abilities
<1>4. FlagsAreTrue'
  BY DEF NewDidNothing, FlagsAreTrue, HandlersAreCounted, Counted, Clean, Watched, Unknown, BeforeShutdown, Abilities
<1>5. HandlersAreCounted'
  <2>1. acting'["windows"] = 0 /\ spare'["windows"] = 0
    BY DEF HandlersAreCounted, Abilities
  <2>2. ASSUME NEW a \in Abilities, Clean(a)', a # "windows" PROVE Counted(a)'
    <3>1. Clean(a) /\ Counted(a) /\ watching'[a] = watching[a] /\ acting'[a] = acting[a] /\ spare'[a] = spare[a]
      BY <2>2 DEF HandlersAreCounted, Clean, Abilities
    <3> QED
      BY <2>2, <3>1 DEF Counted, BeforeShutdown, Abilities
  <2>3. ASSUME Clean("windows")' PROVE Counted("windows")'
    <3>1. Clean("windows") /\ Counted("windows") /\ acting["windows"] \in Nat /\ spare["windows"] \in Nat /\ "windows" \in Abilities
      BY <2>3 DEF HandlersAreCounted, Clean, Abilities
    <3>2. IsFiniteSet(watching["windows"]) /\ Cardinality(watching["windows"]) \in Nat
      BY <3>1, FS_CardinalityType DEF Counted
    <3>3. /\ acting' = acting /\ spare' = spare /\ flags' = flags /\ service'.phase = "noFocus"
          /\ acting["windows"] = 0 /\ spare["windows"] = 0
      BY DEF HandlersAreCounted
    <3>4. watching'["windows"] = {}
      BY <3>1 DEF FlagsAreTrue, Watched, BeforeShutdown
    <3> QED
      <4>1. acting'["windows"] = 0 /\ spare'["windows"] = 0
        BY <3>3
      <4> QED
        <5>1. IsFiniteSet(watching'["windows"]) /\ Cardinality(watching'["windows"]) = 0
          BY ONLY <3>4, NoRegistration
        <5> QED
          BY ONLY <4>1, <5>1 DEF Counted, BeforeShutdown
  <2> QED
    BY <2>1, <2>2, <2>3 DEF HandlersAreCounted, Abilities
<1> QED
  BY <1>1, <1>2, <1>3, <1>4, <1>5

LEMMA UnsubscribeKeeps ==
  ASSUME LifeInv, NEW ok \in BOOLEAN, UnsubscribeSysEventReceiver(ok)
  PROVE  LifeInv'
<1> USE DEF LifeInv, LifeTypeOK, UnsubscribeSysEventReceiver, Advance, pastVars, worldVars, NoHandle
<1>1. LifeTypeOK'
  BY LifecycleAssumption DEF Abilities
<1>2. NewDidNothing'
  BY DEF NewDidNothing, Abilities
<1>3. InitIsFollowed'
  BY DEF NewDidNothing, InitIsFollowed, FlagsAreTrue, HandlersAreCounted, Clean, Unknown, BeforeShutdown, Abilities
<1>4. FlagsAreTrue'
  BY DEF NewDidNothing, FlagsAreTrue, HandlersAreCounted, Counted, Clean, Watched, Unknown, BeforeShutdown, Abilities
<1>5. HandlersAreCounted'
  <2>1. acting'["windows"] = 0 /\ spare'["windows"] = 0
    BY DEF HandlersAreCounted, Abilities
  <2>2. ASSUME NEW a \in Abilities, Clean(a)', a # "events" PROVE Counted(a)'
    <3>1. Clean(a) /\ Counted(a) /\ watching'[a] = watching[a] /\ acting'[a] = acting[a] /\ spare'[a] = spare[a]
      BY <2>2 DEF HandlersAreCounted, Clean, Abilities
    <3> QED
      BY <2>2, <3>1 DEF Counted, BeforeShutdown, Abilities
  <2>3. ASSUME Clean("events")' PROVE Counted("events")'
    <3>1. Clean("events") /\ Counted("events") /\ acting["events"] \in Nat /\ spare["events"] \in Nat /\ "events" \in Abilities
      BY <2>3 DEF HandlersAreCounted, Clean, Abilities
    <3>2. IsFiniteSet(watching["events"]) /\ Cardinality(watching["events"]) \in Nat
      BY <3>1, FS_CardinalityType DEF Counted
    <3>3. /\ acting' = acting /\ spare' = spare
          /\ service.phase = "noFocus" /\ service'.phase = "stopped" /\ "events" \notin flags'
      BY <2>3 DEF Clean
    <3>4. /\ IsFiniteSet(watching'["events"]) /\ Cardinality(watching'["events"]) \in Nat
          /\ Cardinality(watching'["events"]) <= spare["events"]
      <4>1. CASE "events" \notin flags
        <5>1. watching'["events"] = {}
          BY <3>1, <3>3, <4>1 DEF FlagsAreTrue
        <5> QED
          BY <3>1, <5>1, NoRegistration
      <4>2. CASE "events" \in flags
        <5>1. watching'["events"] = watching["events"] \ {handle["events"]}
          BY <2>3, <3>1, <4>2 DEF Clean
        <5>2. watching["events"] = {} \/ handle["events"] \in watching["events"]
          BY <3>1, <3>3 DEF FlagsAreTrue, Watched, BeforeShutdown
        <5>3. CASE watching["events"] = {}
          <6>1. watching'["events"] = {}
            BY <5>1, <5>3
          <6> QED
            BY <3>1, <6>1, NoRegistration
        <5>4. CASE handle["events"] \in watching["events"]
          <6>1. /\ IsFiniteSet(watching'["events"]) /\ Cardinality(watching'["events"]) \in Nat
                /\ Cardinality(watching'["events"]) = Cardinality(watching["events"]) - 1
            BY <3>2, <5>1, <5>4, OneLess
          <6>2. Cardinality(watching["events"]) + acting["events"] <= 1 + spare["events"]
            BY <3>1, <3>3 DEF Counted
          <6> QED
            BY ONLY <3>1, <3>2, <6>1, <6>2
        <5> QED
          BY <5>2, <5>3, <5>4
      <4> QED
        BY <4>1, <4>2
    <3> QED
      BY <3>1, <3>3, <3>4 DEF Counted, BeforeShutdown
  <2> QED
    BY <2>1, <2>2, <2>3 DEF HandlersAreCounted, Abilities
<1> QED
  BY <1>1, <1>2, <1>3, <1>4, <1>5

\* The next process has done nothing yet.
LEMMA ExitKeeps ==
  ASSUME LifeInv, ProcessExits
  PROVE  LifeInv'
<1> USE DEF LifeInv, LifeTypeOK, ProcessExits, pastVars, worldVars, NoHandle
<1>1. LifeTypeOK'
  BY LifecycleAssumption DEF Abilities
<1>2. NewDidNothing'
  BY DEF NewDidNothing, Abilities
<1>3. InitIsFollowed'
  BY DEF NewDidNothing, InitIsFollowed, FlagsAreTrue, HandlersAreCounted, Clean, Unknown, BeforeShutdown, Abilities
<1>4. FlagsAreTrue'
  BY DEF NewDidNothing, FlagsAreTrue, HandlersAreCounted, Counted, Clean, Watched, Unknown, BeforeShutdown, Abilities
<1>5. HandlersAreCounted'
  BY NoRegistration DEF NewDidNothing, FlagsAreTrue, HandlersAreCounted, Counted, Clean, Watched, BeforeShutdown, Abilities
<1> QED
  BY <1>1, <1>2, <1>3, <1>4, <1>5

LEMMA StutterKeeps ==
  ASSUME LifeInv, UNCHANGED lifeVars
  PROVE  LifeInv'
BY DEF lifeVars, pastVars, LifeInv, LifeTypeOK, NewDidNothing, InitIsFollowed, FlagsAreTrue,
       HandlersAreCounted, Counted, Clean, Watched, Unknown, BeforeShutdown

LEMMA LifeInitially ==
  ASSUME LifeInit
  PROVE  LifeInv
<1> PICK running \in {{}, Abilities} : NewProcess(running)
  BY DEF LifeInit
<1> USE DEF NewProcess, Abilities, NoHandle
<1>1. LifeTypeOK
  BY DEF LifeTypeOK
<1>2. NewDidNothing /\ InitIsFollowed
  BY DEF NewDidNothing, InitIsFollowed
<1>3. FlagsAreTrue
  BY DEF FlagsAreTrue, Unknown
<1>4. HandlersAreCounted
  BY NoRegistration DEF HandlersAreCounted, Counted, BeforeShutdown
<1> QED
  BY <1>1, <1>2, <1>3, <1>4 DEF LifeInv

LEMMA LifeAlways == LifeSpec => []LifeInv
<1>1. ASSUME LifeInv, [LifeNext]_lifeVars PROVE LifeInv'
  BY <1>1, StartKeeps, BootKeeps, AddKeeps, RemoveKeeps, ChecksKeep, MonitorKeeps, ReceiverKeeps,
     FocusKeeps, CancelMonitorKeeps, CancelFocusKeeps, UnsubscribeKeeps, ExitKeeps, StutterKeeps
     DEF LifeNext, LifeStep
<1> QED
  BY LifeInitially, <1>1, PTL DEF LifeSpec

\* The flags, handles and registrations of the service keep their types.
THEOREM LifeTypeCorrect == LifeSpec => []LifeTypeOK
BY LifeAlways, PTL DEF LifeInv

\* However often the end of the boot is reported, whichever abilities crash and come again
\* with or without what was registered, however the handlers overlap each other and OnStop:
\* an ability whose calls succeeded is watched while the service runs unless a crash took the
\* registration along, at most once more for every handler that was past the check together
\* with another, by the handle that is kept when none was, and by no more than those when
\* the service has stopped (RegisterSystemAbilityStatusChangeListener, the three handlers of
\* OnAddSystemAbility, Shutdown).
THEOREM LifeWatchesWhatRuns == LifeSpec => []WatchesWhatRuns
<1>1. ASSUME LifeInv PROVE WatchesWhatRuns
  <2> SUFFICES ASSUME NEW a \in Abilities, Handled(a)
      PROVE /\ service.phase = "running" /\ service.inits > 0 /\ a \in up \ dropped => watching[a] # {}
            /\ Cardinality(watching[a]) <= 1 + spare[a] + IF a \in late THEN spare[a] ELSE 0
            /\ a # "windows" /\ service.phase = "running" /\ spare[a] = 0 => watching[a] \subseteq {handle[a]}
            /\ service.phase = "stopped" /\ a \notin late => Cardinality(watching[a]) <= spare[a]
    BY DEF WatchesWhatRuns
  <2> USE <1>1 DEF LifeInv, LifeTypeOK, Clean, Handled
  <2>1. service.phase = "running" /\ service.inits > 0 /\ a \in up \ dropped => watching[a] # {}
    BY DEF InitIsFollowed, FlagsAreTrue, BeforeShutdown, Abilities
  <2>2. a # "windows" /\ service.phase = "running" /\ spare[a] = 0 => watching[a] \subseteq {handle[a]}
    BY DEF FlagsAreTrue, BeforeShutdown, Abilities
  <2>3. Counted(a) /\ Cardinality(watching[a]) \in Nat
    BY FS_CardinalityType DEF HandlersAreCounted, Counted
  <2>4. Cardinality(watching[a]) <= 1 + spare[a] + IF a \in late THEN spare[a] ELSE 0
    BY <2>3 DEF Counted, BeforeShutdown
  <2>5. service.phase = "stopped" /\ a \notin late => Cardinality(watching[a]) <= spare[a]
    BY <2>3 DEF Counted, BeforeShutdown, Abilities
  <2> QED
    BY <2>1, <2>2, <2>4, <2>5
<1> QED
  BY <1>1, LifeAlways, PTL
================================================================================
