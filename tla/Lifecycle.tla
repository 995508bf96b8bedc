------------------------------- MODULE Lifecycle -------------------------------
(***************************************************************************)
(* The life of the selection service: OnStart waits for the end of the     *)
(* boot, Init subscribes to three system abilities, and the start of each  *)
(* of these makes the service watch it: the input service with a monitor,  *)
(* the window manager with a focus listener, the event service with a      *)
(* receiver.  OnStop takes the three away.  The notifications come on      *)
(* threads of their own, OnStop comes at any time, and only the focus      *)
(* handler takes a lock.  What Init and the common events do to the        *)
(* configuration is modelled in ConfigSync, the screen lock in             *)
(* SelectionMonitor.                                                       *)
(*                                                                         *)
(* An ability may crash and come again.  Whether what was registered with  *)
(* it is then registered anew is up to its client library, which is not    *)
(* part of this code: both are modelled.  The handlers of the service do   *)
(* not, as the flags they test stay true.                                  *)
(***************************************************************************)
EXTENDS Naturals, FiniteSets

CONSTANTS
  MaxInits,    \* bound on the times the end of the boot is reported
  MaxRemovals, \* bound on the crashes of system abilities
  MaxRegistrations,  \* bound on the monitors and receivers a process creates
  MaxTroubled        \* bound on the abilities for which calls fail

Abilities == {"input", "windows", "events"}
NoHandle == 0
ASSUME LifecycleAssumption == {MaxInits, MaxRemovals, MaxRegistrations, MaxTroubled} \subseteq Nat

VARIABLES
  service,     \* [phase, inits]: where OnStart and OnStop are, how often Init ran
  up,          \* the system abilities that run
  removals,    \* how often one went away
  subscriptions,  \* [Abilities -> the listeners SubscribeSystemAbility took]
  due,         \* [Abilities -> notifications not yet handled]
  acting,      \* ["input" and "events" -> handlers past the check of their flags]
  flags,       \* isMonitorInitialized_, isWindowInitialized_, isCommonEventInitialized_ that are true
  handle,      \* inputMonitorId_ and selectionSysEventReceiver_
  watching,    \* [Abilities -> what is registered with the ability: handles]
  created,     \* handles given out
  focus,       \* focusListener_ of FocusMonitorManager is set
  trouble,     \* the abilities for which a call failed
  (* the history that the properties speak of *)
  spare,       \* [Abilities -> handlers beyond one that were past the check at once]
  dropped,     \* abilities that crashed and took a registration along
  late         \* abilities registered with after OnStop had dealt with them

pastVars == <<spare, dropped, late>>

lifeVars == <<service, up, removals, subscriptions, due, acting, flags, handle,
              watching, created, focus, trouble, pastVars>>
worldVars == <<up, removals>>

NewProcess(running) ==
  /\ service = [phase |-> "new", inits |-> 0] /\ up = running /\ removals = 0
  /\ subscriptions = [a \in Abilities |-> 0] /\ due = [a \in Abilities |-> 0]
  /\ acting = [a \in Abilities |-> 0] /\ flags = {}
  /\ handle = [a \in Abilities |-> NoHandle] /\ watching = [a \in Abilities |-> {}]
  /\ created = 0 /\ focus = FALSE /\ trouble = {}
  /\ spare = [a \in Abilities |-> 0] /\ dropped = {} /\ late = {}

LifeInit == \E running \in {{}, Abilities} : NewProcess(running)

\* The phases before the part of Shutdown that takes away what is registered with a.
BeforeShutdown(a) ==
  CASE a = "input" -> {"new", "running"}
    [] a = "windows" -> {"new", "running", "noMonitor"}
    [] a = "events" -> {"new", "running", "noMonitor", "noFocus"}
RegistersAt(a) ==
  late' = IF service.phase \in BeforeShutdown(a) THEN late ELSE late \cup {a}

-----------------------------------------------------------------------------
(* Starting                                                                *)

\* Mutation for WatchesWhatRuns: the loop is left at the first refusal.
SubscribeUntilRefused(refused) ==
  /\ subscriptions' = [a \in Abilities |-> subscriptions[a] + IF refused # {} THEN 0 ELSE 1]
  /\ due' = [a \in Abilities |-> due[a] + IF a \in up /\ refused = {} THEN 1 ELSE 0]
  /\ trouble' = trouble \cup refused

\* RegisterSystemAbilityStatusChangeListener goes on to the next ability when
\* a subscription fails.  An ability that runs already is reported at once.
SubscribeAbilities(refused) ==
  /\ subscriptions' = [a \in Abilities |-> subscriptions[a] + IF a \in refused THEN 0 ELSE 1]
  /\ due' = [a \in Abilities |-> due[a] + IF a \in up \ refused THEN 1 ELSE 0]
  /\ trouble' = trouble \cup refused

\* WatchParameter failed: Init is called at once.  Otherwise it is left to
\* PerformParamBootCompleted.
OnStart(canWatch, refused) ==
  /\ service.phase = "new"
  /\ service' = [phase |-> "running", inits |-> IF canWatch THEN 0 ELSE 1]
  /\ IF canWatch THEN refused = {} /\ UNCHANGED <<subscriptions, due, trouble>> ELSE SubscribeAbilities(refused)
  /\ UNCHANGED <<worldVars, acting, flags, handle, watching, created, focus, pastVars>>

\* The watch is never removed, and nothing remembers that Init has run.
PerformParamBootCompleted(refused) ==
  /\ service.phase # "new" /\ service.inits < MaxInits
  /\ service' = [service EXCEPT !.inits = @ + 1]
  /\ SubscribeAbilities(refused)
  /\ UNCHANGED <<worldVars, acting, flags, handle, watching, created, focus, pastVars>>

-----------------------------------------------------------------------------
(* System abilities come and go; only the coming is handled                *)

OnAddSystemAbility(a) ==
  /\ a \notin up /\ up' = up \cup {a}
  /\ due' = [due EXCEPT ![a] = @ + subscriptions[a]]
  /\ UNCHANGED <<service, removals, subscriptions, acting, flags, handle, watching,
                 created, focus, trouble, pastVars>>

\* The library keeps what was registered, or it is gone with the ability.
OnRemoveSystemAbility(a, kept) ==
  /\ a \in up /\ removals < MaxRemovals
  /\ up' = up \ {a} /\ removals' = removals + 1
  /\ watching' = IF kept THEN watching ELSE [watching EXCEPT ![a] = {}]
  /\ dropped' = IF kept \/ watching[a] = {} THEN dropped ELSE dropped \cup {a}
  /\ UNCHANGED <<service, subscriptions, due, acting, flags, handle, created, focus,
                 trouble, spare, late>>

-----------------------------------------------------------------------------
(* The three handlers                                                      *)

\* The checks of InputMonitorInit and SubscribeSysEventReceiver.
MayAct(a) ==
  /\ a \notin flags
  /\ a = "input" => handle[a] = NoHandle /\ a \in up

HandlerChecks(a) ==
  /\ a \in {"input", "events"} /\ due[a] > 0
  /\ due' = [due EXCEPT ![a] = @ - 1]
  /\ acting' = [acting EXCEPT ![a] = @ + IF MayAct(a) THEN 1 ELSE 0]
  /\ spare' = [spare EXCEPT ![a] = IF acting'[a] > @ + 1 THEN acting'[a] - 1 ELSE @]
  /\ UNCHANGED <<service, worldVars, subscriptions, flags, handle, watching, created,
                 focus, trouble, dropped, late>>

\* AddMonitor: what it returns replaces inputMonitorId_ and decides
\* isMonitorInitialized_, also when it failed.
InputMonitorInit(ok) ==
  LET id == IF ok THEN created + 1 ELSE NoHandle IN
  /\ acting["input"] > 0 /\ (ok => created < MaxRegistrations)
  /\ acting' = [acting EXCEPT !["input"] = @ - 1]
  /\ handle' = [handle EXCEPT !["input"] = id]
  /\ watching' = IF ok THEN [watching EXCEPT !["input"] = @ \cup {id}] ELSE watching
  /\ created' = created + IF ok THEN 1 ELSE 0
  /\ flags' = IF ok THEN flags \cup {"input"} ELSE flags \ {"input"}
  /\ trouble' = IF ok THEN trouble ELSE trouble \cup {"input"}
  /\ IF ok THEN RegistersAt("input") ELSE UNCHANGED late
  /\ UNCHANGED <<service, worldVars, subscriptions, due, focus, spare, dropped>>

\* A new receiver replaces the old one; a failed subscription is not noted.
SubscribeSysEventReceiver(ok) ==
  LET id == created + 1 IN
  /\ acting["events"] > 0 /\ created < MaxRegistrations
  /\ acting' = [acting EXCEPT !["events"] = @ - 1]
  /\ handle' = [handle EXCEPT !["events"] = id] /\ created' = id
  /\ watching' = IF ok THEN [watching EXCEPT !["events"] = @ \cup {id}] ELSE watching
  /\ flags' = IF ok THEN flags \cup {"events"} ELSE flags
  /\ trouble' = IF ok THEN trouble ELSE trouble \cup {"events"}
  /\ IF ok THEN RegistersAt("events") ELSE UNCHANGED late
  /\ UNCHANGED <<service, worldVars, subscriptions, due, focus, spare, dropped>>

\* Under initMutex_.  The result of the registration is not looked at.
InitFocusChangedMonitor(ok) ==
  LET fresh == "windows" \notin flags /\ ~focus IN
  /\ due["windows"] > 0
  /\ due' = [due EXCEPT !["windows"] = @ - 1]
  /\ flags' = flags \cup {"windows"}
  /\ focus' = (focus \/ fresh)
  /\ watching' = IF fresh /\ ok THEN [watching EXCEPT !["windows"] = {1}] ELSE watching
  /\ trouble' = IF fresh /\ ~ok THEN trouble \cup {"windows"} ELSE trouble
  /\ IF fresh /\ ok THEN RegistersAt("windows") ELSE UNCHANGED late
  /\ UNCHANGED <<service, worldVars, subscriptions, acting, handle, created, spare, dropped>>

-----------------------------------------------------------------------------
(* Stopping: the three parts of Shutdown, then the exit of the process     *)

Advance(from, to) ==
  /\ service.phase = from /\ service' = [service EXCEPT !.phase = to]

\* isMonitorInitialized_ keeps its value.
InputMonitorCancel ==
  /\ Advance("running", "noMonitor")
  /\ watching' = [watching EXCEPT !["input"] = @ \ {handle["input"]}]
  /\ handle' = [handle EXCEPT !["input"] = NoHandle]
  /\ UNCHANGED <<worldVars, subscriptions, due, acting, flags, created, focus, trouble, pastVars>>

\* So does isWindowInitialized_.
CancelFocusChangedMonitor ==
  /\ Advance("noMonitor", "noFocus")
  /\ watching' = IF focus THEN [watching EXCEPT !["windows"] = {}] ELSE watching
  /\ focus' = FALSE
  /\ UNCHANGED <<worldVars, subscriptions, due, acting, flags, handle, created, trouble, pastVars>>

UnsubscribeSysEventReceiver(ok) ==
  /\ Advance("noFocus", "stopped")
  /\ IF "events" \in flags /\ ok
     THEN /\ watching' = [watching EXCEPT !["events"] = @ \ {handle["events"]}]
          /\ flags' = flags \ {"events"} /\ UNCHANGED trouble
     ELSE /\ trouble' = IF "events" \in flags THEN trouble \cup {"events"} ELSE trouble
          /\ UNCHANGED <<watching, flags>>
  /\ UNCHANGED <<worldVars, subscriptions, due, acting, handle, created, focus, pastVars>>

\* The process ends, and with it what it had registered; the next start is
\* that of a new process.
ProcessExits ==
  /\ service.phase = "stopped"
  /\ service' = [phase |-> "new", inits |-> 0] /\ removals' = 0
  /\ subscriptions' = [a \in Abilities |-> 0] /\ due' = [a \in Abilities |-> 0]
  /\ acting' = [a \in Abilities |-> 0] /\ flags' = {}
  /\ handle' = [a \in Abilities |-> NoHandle] /\ watching' = [a \in Abilities |-> {}]
  /\ created' = 0 /\ focus' = FALSE /\ trouble' = {}
  /\ spare' = [a \in Abilities |-> 0] /\ dropped' = {} /\ late' = {}
  /\ UNCHANGED up

LifeStep ==
  \/ \E refused \in SUBSET Abilities :
       \/ \E canWatch \in BOOLEAN : OnStart(canWatch, refused)
       \/ PerformParamBootCompleted(refused)
  \/ \E a \in Abilities :
       \/ OnAddSystemAbility(a) \/ HandlerChecks(a)
       \/ \E kept \in BOOLEAN : OnRemoveSystemAbility(a, kept)
  \/ \E ok \in BOOLEAN :
       \/ InputMonitorInit(ok) \/ SubscribeSysEventReceiver(ok) \/ InitFocusChangedMonitor(ok)
       \/ UnsubscribeSysEventReceiver(ok)
  \/ InputMonitorCancel \/ CancelFocusChangedMonitor \/ ProcessExits

LifeNext == LifeStep /\ Cardinality(trouble') <= MaxTroubled

LifeSpec == LifeInit /\ [][LifeNext]_lifeVars

-----------------------------------------------------------------------------
LifeTypeOK ==
  /\ service \in [phase : {"new", "running", "noMonitor", "noFocus", "stopped"}, inits : Nat]
  /\ up \subseteq Abilities /\ removals \in Nat
  /\ subscriptions \in [Abilities -> Nat] /\ due \in [Abilities -> Nat]
  /\ acting \in [Abilities -> Nat] /\ flags \subseteq Abilities
  /\ handle \in [Abilities -> Nat] /\ watching \in [Abilities -> SUBSET Nat]
  /\ created \in Nat /\ focus \in BOOLEAN
  /\ trouble \subseteq Abilities /\ spare \in [Abilities -> Nat]
  /\ dropped \subseteq Abilities /\ late \subseteq Abilities

\* No handler is to run or runs, and no call failed.
Handled(a) == due[a] = 0 /\ acting[a] = 0 /\ a \notin trouble

\* When the notifications of an ability are handled and no call for it failed:
\* once the boot was reported, the running service watches every ability that
\* runs, unless a crash took the registration along; however often Init ran, it
\* watches the ability once, and once more only for every handler that was past
\* the unlocked check together with another, twice that if one acted after
\* OnStop; the handle that is kept is the one registered, unless handlers
\* overlapped, so that OnStop can take it away; and a service that has stopped
\* watches nothing but what those handlers left.
WatchesWhatRuns ==
  \A a \in Abilities : Handled(a) =>
    /\ service.phase = "running" /\ service.inits > 0 /\ a \in up \ dropped => watching[a] # {}
    /\ Cardinality(watching[a]) <= 1 + spare[a] + IF a \in late THEN spare[a] ELSE 0
    /\ a # "windows" /\ service.phase = "running" /\ spare[a] = 0 => watching[a] \subseteq {handle[a]}
    /\ service.phase = "stopped" /\ a \notin late => Cardinality(watching[a]) <= spare[a]
================================================================================
