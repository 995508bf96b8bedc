----------------------------- MODULE PluginTimer -----------------------------
(***************************************************************************)
(* The timer that unloads the plugin after five idle minutes:              *)
(* ResetPluginUnloadTimer, LoadPluginSo, UnloadPluginSo and                *)
(* OnPluginUnloadTimer of service/src/selection_service.cpp, with the      *)
(* timers of utils/src/selection_timer.cpp.                                *)
(*                                                                         *)
(* LoadPluginSo and UnloadPluginSo reset or cancel the timer while they    *)
(* hold pluginMutex_ alone; HandleWordSelected resets it on the input      *)
(* thread without any mutex.  pluginUnloadTimerId_ is atomic, a reset of   *)
(* the timer is not: it is a sequence of loads, calls and stores.          *)
(*                                                                         *)
(* ExtConnection models what else these functions do.  Sharing             *)
(* pluginMutex_ only delays the steps modelled here and is left out.       *)
(***************************************************************************)
EXTENDS Naturals, FiniteSets

CONSTANTS
    Binders,   \* threads that use the plugin
    Timers,    \* timer identifiers (a bound on the timers registered at once)
    Unset       \* no thread, and timer identifier 0

ASSUME PluginTimerAssumption ==
    /\ Unset \notin Timers
    /\ {"input", "timer", Unset} \cap Binders = {}
    /\ Unset \notin {"input", "timer"}

Users == {"input"} \cup Binders
TimerThreads == {"timer"} \cup Users

VARIABLES
    soLoaded,              \* TRUE iff the plugin is loaded
    pluginUnloadTimerId_,
    registered,             \* the periodic timers that are running
    pluginMutex_,           \* the thread that holds it alone, or None
    timerPc,                     \* what each thread is about to do
    local,                  \* the timer identifier each thread has at hand
    panelShowing            \* external: a panel of the application is visible

timerVars == <<soLoaded, pluginUnloadTimerId_, registered, pluginMutex_, timerPc, local,
               panelShowing>>

TimerGoto(t, label) == timerPc' = [timerPc EXCEPT ![t] = label]

\* Bound: a reset starts only while there is an identifier left for it.
Room == Cardinality(registered) + Cardinality({t \in Users : timerPc[t] # "idle"})
            < Cardinality(Timers)

-----------------------------------------------------------------------------
(* Who resets or cancels the timer. *)

\* Mutation for LoadedPluginIsTimed: only a plugin that was loaded before is timed.
LoadPluginSoUntimed(t) ==
    /\ timerPc[t] = "idle" /\ pluginMutex_ = Unset /\ Room
    /\ soLoaded' \in {TRUE, soLoaded}
    /\ IF soLoaded
       THEN pluginMutex_' = t /\ TimerGoto(t, "reset")
       ELSE UNCHANGED <<pluginMutex_, timerPc>>
    /\ UNCHANGED <<pluginUnloadTimerId_, registered, local, panelShowing>>

\* The library or one of its functions may be missing: then nothing is changed.
LoadPluginSo(t) ==
    /\ timerPc[t] = "idle" /\ pluginMutex_ = Unset /\ Room
    /\ soLoaded' \in {TRUE, soLoaded}
    /\ IF soLoaded'
       THEN pluginMutex_' = t /\ TimerGoto(t, "reset")
       ELSE UNCHANGED <<pluginMutex_, timerPc>>
    /\ UNCHANGED <<pluginUnloadTimerId_, registered, local, panelShowing>>

\* Whether or not the plugin is loaded.
WordSelectedResets ==
    /\ timerPc["input"] = "idle" /\ Room
    /\ TimerGoto("input", "reset")
    /\ UNCHANGED <<soLoaded, pluginUnloadTimerId_, registered, pluginMutex_, local, panelShowing>>

\* Mutation for PluginIsUnloaded: a timer fires only once.
OnPluginUnloadTimerOnce ==
    /\ timerPc["timer"] = "idle"
    /\ \E n \in registered : registered' = registered \ {n}
    /\ TimerGoto("timer", IF panelShowing THEN "idle" ELSE "lock")
    /\ UNCHANGED <<soLoaded, pluginUnloadTimerId_, pluginMutex_, local, panelShowing>>

\* One thread runs the callbacks of all timers.  Nothing happens while a panel is
\* showing: the timer fires again after the next five minutes.
OnPluginUnloadTimer ==
    /\ timerPc["timer"] = "idle" /\ registered # {} /\ ~panelShowing
    /\ TimerGoto("timer", "lock")
    /\ UNCHANGED <<soLoaded, pluginUnloadTimerId_, registered, pluginMutex_, local, panelShowing>>

UnloadOnTimer ==
    /\ timerPc["timer"] = "lock" /\ pluginMutex_ = Unset
    /\ pluginMutex_' = "timer"
    /\ TimerGoto("timer", "reset")
    /\ UNCHANGED <<soLoaded, pluginUnloadTimerId_, registered, local, panelShowing>>

-----------------------------------------------------------------------------
(* The steps of a reset.  UnloadPluginSo goes as far as ForgetTimer. *)

Rest(t) == IF t = "timer" THEN "unload" ELSE "register"

IsTimerSet(t) ==
    /\ timerPc[t] = "reset"
    /\ TimerGoto(t, IF pluginUnloadTimerId_ = Unset THEN Rest(t) ELSE "load")
    /\ UNCHANGED <<soLoaded, pluginUnloadTimerId_, registered, pluginMutex_, local, panelShowing>>

LoadTimer(t) ==
    /\ timerPc[t] = "load"
    /\ local' = [local EXCEPT ![t] = pluginUnloadTimerId_]
    /\ TimerGoto(t, "unregister")
    /\ UNCHANGED <<soLoaded, pluginUnloadTimerId_, registered, pluginMutex_, panelShowing>>

UnRegister(t) ==
    /\ timerPc[t] = "unregister"
    /\ registered' = registered \ {local[t]}
    /\ local' = [local EXCEPT ![t] = Unset]
    /\ TimerGoto(t, "forget")
    /\ UNCHANGED <<soLoaded, pluginUnloadTimerId_, pluginMutex_, panelShowing>>

ForgetTimer(t) ==
    /\ timerPc[t] = "forget"
    /\ pluginUnloadTimerId_' = Unset
    /\ TimerGoto(t, Rest(t))
    /\ UNCHANGED <<soLoaded, registered, pluginMutex_, local, panelShowing>>

Fresh(n) == n \notin registered /\ n # pluginUnloadTimerId_ /\ \A t \in TimerThreads : local[t] # n

Register(t) ==
    /\ timerPc[t] = "register"
    /\ \E n \in Timers :
          /\ Fresh(n)
          /\ registered' = registered \cup {n}
          /\ local' = [local EXCEPT ![t] = n]
    /\ TimerGoto(t, "store")
    /\ UNCHANGED <<soLoaded, pluginUnloadTimerId_, pluginMutex_, panelShowing>>

Unlock(t) == pluginMutex_' = IF pluginMutex_ = t THEN Unset ELSE pluginMutex_

StoreTimer(t) ==
    /\ timerPc[t] = "store"
    /\ pluginUnloadTimerId_' = local[t]
    /\ local' = [local EXCEPT ![t] = Unset]
    /\ Unlock(t)
    /\ TimerGoto(t, "idle")
    /\ UNCHANGED <<soLoaded, registered, panelShowing>>

Unload ==
    /\ timerPc["timer"] = "unload"
    /\ soLoaded' = FALSE
    /\ Unlock("timer")
    /\ TimerGoto("timer", "idle")
    /\ UNCHANGED <<pluginUnloadTimerId_, registered, local, panelShowing>>

ResetPluginUnloadTimer(t) ==
    \/ IsTimerSet(t) \/ LoadTimer(t) \/ UnRegister(t) \/ ForgetTimer(t) \/ Register(t)
    \/ StoreTimer(t)

ShowPanel(b) ==
    /\ panelShowing' = b
    /\ UNCHANGED <<soLoaded, pluginUnloadTimerId_, registered, pluginMutex_, timerPc, local>>

TimerInit ==
    /\ soLoaded = FALSE
    /\ pluginUnloadTimerId_ = Unset
    /\ registered = {}
    /\ pluginMutex_ = Unset
    /\ timerPc = [t \in TimerThreads |-> "idle"]
    /\ local = [t \in TimerThreads |-> Unset]
    /\ panelShowing = FALSE

TimerNext ==
    \/ \E t \in Users : LoadPluginSo(t)
    \/ WordSelectedResets
    \/ OnPluginUnloadTimer \/ UnloadOnTimer \/ Unload
    \/ \E t \in TimerThreads : ResetPluginUnloadTimer(t)
    \/ \E b \in BOOLEAN : ShowPanel(b)

TimerSpec == TimerInit /\ [][TimerNext]_timerVars

\* Threads that have begun go on, and the timers are periodic.
TimerFairness ==
    /\ \A t \in TimerThreads : WF_timerVars(ResetPluginUnloadTimer(t))
    /\ WF_timerVars(OnPluginUnloadTimer) /\ WF_timerVars(UnloadOnTimer) /\ WF_timerVars(Unload)

FairTimerSpec == TimerSpec /\ TimerFairness
-----------------------------------------------------------------------------
(* Properties. *)

ResetSteps == {"reset", "load", "unregister", "forget", "register", "store"}

TimerTypeOK ==
    /\ soLoaded \in BOOLEAN
    /\ pluginUnloadTimerId_ \in Timers \cup {Unset}
    /\ registered \subseteq Timers
    /\ pluginMutex_ \in TimerThreads \cup {Unset}
    /\ DOMAIN timerPc = TimerThreads
    /\ timerPc["timer"] \in {"idle", "lock", "reset", "load", "unregister", "forget", "unload"}
    /\ \A t \in Users : timerPc[t] \in {"idle"} \cup ResetSteps
    /\ local \in [TimerThreads -> Timers \cup {Unset}]
    /\ panelShowing \in BOOLEAN

Idle == \A t \in TimerThreads : timerPc[t] = "idle"

\* A loaded plugin always has a timer that will unload it: however the resets of
\* the input thread and of LoadPluginSo interleave, they never cancel each
\* other's timer without one of them starting another.
LoadedPluginIsTimed == soLoaded /\ Idle => registered # {}

\* Once the plugin is no longer used and no panel is showing it is unloaded, also
\* when a panel was showing the first time the timer fired.
PluginIsUnloaded ==
    <>[](~panelShowing /\ \A t \in Users : timerPc[t] = "idle") => <>[]~soLoaded

\* "Cancel the old timer" (ResetPluginUnloadTimer): when no one is resetting the
\* timer, the only timer running is the one pluginUnloadTimerId_ names.
OldTimerIsCancelled == Idle => registered \subseteq {pluginUnloadTimerId_}
=============================================================================
