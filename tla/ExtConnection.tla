---------------------------- MODULE ExtConnection ---------------------------
(***************************************************************************)
(* The connection to the selection extension, and the plugin it needs:     *)
(* SelectionExtensionAbilityConnection, DoConnectNewExtAbility,            *)
(* DoDisconnectCurrentExtAbility, LoadPluginSo and UnloadPluginSo of       *)
(* service/src/selection_service.cpp.                                      *)
(*                                                                         *)
(* The input thread connects when a gesture is done; the threads of Syncs  *)
(* (parameter watchers, common events) disconnect when the application     *)
(* changes; the timer thread disconnects and unloads the plugin after five *)
(* idle minutes.  The ability manager (AMS), which is external, answers    *)
(* from a binder thread, late or never, and reports the extension's death. *)
(* Both waits end after TIMEOUT_FOR_CONNECT_DISCONNECT seconds: a timeout  *)
(* is a step that may be taken at any time while waiting.                  *)
(*                                                                         *)
(* connectMutex_ is held across a whole connect or disconnect.             *)
(* pluginMutex_ is shared while a plugin function is called, and during    *)
(* the wait for the connection; LoadPluginSo and UnloadPluginSo need it    *)
(* alone and are one step each.  pid_, which only IsCurrentSelectionApp    *)
(* reads, and the identity of the unload timer are left out.               *)
(***************************************************************************)
EXTENDS Naturals

CONSTANTS
    Conns,    \* connection objects that may be alive at once (a bound)
    Syncs,    \* threads that disconnect when the configuration changes
    None

ASSUME ExtConnectionAssumption ==
    /\ None \notin Conns \cup Syncs \cup {"input", "timer"}
    /\ {"input", "timer"} \cap Syncs = {}

Threads == {"input", "timer"} \cup Syncs

VARIABLES
    connectInner_,      \* the service's connection object
    info,               \* [Conns -> BOOLEAN] connectedAbilityInfo has a value
    connectPromise_,    \* [Conns -> {"none", "pending", "kept"}]
    disconnectPromise_, \* the same; "kept" until it is destroyed
    connectMutex_,      \* the thread that holds it, or None
    pluginReaders,      \* threads that share pluginMutex_
    pluginSo_,          \* TRUE iff the plugin is loaded
    connPc,                 \* [Threads -> what the thread is about to do]
    ams                 \* external: what AMS knows of each connection

\* Recorded for the properties: connections the service gave up while AMS was
\* still connecting, and extensions connected when the plugin was unloaded.
VARIABLES late, stranded

connVars == <<info, connectPromise_, disconnectPromise_>>
lockVars == <<connectMutex_, pluginReaders>>
ghostVars == <<late, stranded>>
extVars == <<connectInner_, connVars, lockVars, pluginSo_, connPc, ams, ghostVars>>

Live(c) == ams[c] \in {"connecting", "connected"}

HasExtAbilityConnection == connectInner_ # None /\ info[connectInner_]

\* An object no one refers to any more: its memory may serve a new one.
Free(c) == c # connectInner_ /\ ams[c] = "none"

ExtGoto(t, label) == connPc' = [connPc EXCEPT ![t] = label]

\* The lock_guard of connectMutex_ goes out of scope.  The timer goes on to
\* unload the plugin.
Return(t) ==
    /\ connectMutex_' = None
    /\ ExtGoto(t, IF t = "timer" THEN "unload" ELSE "idle")

-----------------------------------------------------------------------------
(* Connecting, on the input thread. *)

\* Mutation for OrphanHasCause: a selection connects again.
StartConnectAgain ==
    /\ connPc["input"] = "idle"
    /\ \E c \in Conns : Free(c)
    /\ ExtGoto("input", "lock_connect")
    /\ UNCHANGED <<connectInner_, connVars, lockVars, pluginSo_, ams, ghostVars>>

\* HandleWordSelected looks before it takes the mutex.
StartConnect ==
    /\ connPc["input"] = "idle" /\ ~HasExtAbilityConnection
    /\ \E c \in Conns : Free(c)      \* bound: never more objects than Conns
    /\ ExtGoto("input", "lock_connect")
    /\ UNCHANGED <<connectInner_, connVars, lockVars, pluginSo_, ams, ghostVars>>

\* The object before, if any, is forgotten, whatever AMS knows of it.
NewConnection ==
    /\ connPc["input"] = "lock_connect" /\ connectMutex_ = None
    /\ connectMutex_' = "input"
    /\ \E c \in Conns :
          /\ Free(c)
          /\ connectInner_' = c
          /\ info' = [info EXCEPT ![c] = FALSE]
          /\ connectPromise_' = [connectPromise_ EXCEPT ![c] = "none"]
          /\ disconnectPromise_' = [disconnectPromise_ EXCEPT ![c] = "none"]
          /\ late' = late \ {c} /\ stranded' = stranded \ {c}
    /\ ExtGoto("input", "load")
    /\ UNCHANGED <<pluginReaders, pluginSo_, ams>>

GiveUpConnecting ==
    /\ connectInner_' = None
    /\ pluginReaders' = pluginReaders \ {"input"}
    /\ Return("input")
    /\ UNCHANGED <<connVars, ams, ghostVars>>

LoadForConnect ==
    /\ connPc["input"] = "load" /\ pluginReaders = {}
    /\ \/ /\ pluginSo_' = TRUE
          /\ ExtGoto("input", "share_plugin")
          /\ UNCHANGED <<connectInner_, connVars, lockVars, ams, ghostVars>>
       \/ /\ ~pluginSo_
          /\ GiveUpConnecting /\ UNCHANGED pluginSo_

SharePlugin ==
    /\ connPc["input"] = "share_plugin"
    /\ IF pluginSo_
       THEN /\ pluginReaders' = pluginReaders \cup {"input"}
            /\ ExtGoto("input", "call_connect")
            /\ UNCHANGED <<connectInner_, connVars, connectMutex_, ams, ghostVars>>
       ELSE GiveUpConnecting
    /\ UNCHANGED pluginSo_

CallConnect ==
    /\ connPc["input"] = "call_connect"
    /\ \/ /\ ams' = [ams EXCEPT ![connectInner_] = "connecting"]
          /\ ExtGoto("input", "promise")
          /\ UNCHANGED <<connectInner_, connVars, lockVars, ghostVars>>
       \/ GiveUpConnecting
    /\ UNCHANGED pluginSo_

\* WaitForConnect makes the promise only now; an answer that came before is lost
\* to the wait.
MakeConnectPromise ==
    /\ connPc["input"] = "promise"
    /\ connectPromise_' = [connectPromise_ EXCEPT ![connectInner_] = "pending"]
    /\ ExtGoto("input", "await_connect")
    /\ UNCHANGED <<connectInner_, info, disconnectPromise_, lockVars, pluginSo_, ams, ghostVars>>

\* The wait is over, answered or not: connectInner_ stays either way.
EndWaitForConnect ==
    /\ connPc["input"] = "await_connect"
    /\ late' = IF ams[connectInner_] = "connecting" THEN late \cup {connectInner_} ELSE late
    /\ pluginReaders' = pluginReaders \ {"input"}
    /\ Return("input")
    /\ UNCHANGED <<connectInner_, connVars, pluginSo_, ams, stranded>>

Connect == NewConnection \/ LoadForConnect \/ SharePlugin \/ CallConnect
              \/ MakeConnectPromise \/ EndWaitForConnect

-----------------------------------------------------------------------------
(* Disconnecting, on the timer thread or a thread of Syncs. *)

StartSync(t) ==
    /\ connPc[t] = "idle"
    /\ ExtGoto(t, "lock_disconnect")
    /\ UNCHANGED <<connectInner_, connVars, lockVars, pluginSo_, ams, ghostVars>>

\* No panel is showing.  The timer looks before it takes the mutex.
FireTimer ==
    /\ connPc["timer"] = "idle"
    /\ ExtGoto("timer", IF HasExtAbilityConnection THEN "lock_disconnect" ELSE "unload")
    /\ UNCHANGED <<connectInner_, connVars, lockVars, pluginSo_, ams, ghostVars>>

\* ReconnectExtAbility leaves the right application connected.
AlreadyConnected(t) ==
    /\ t \in Syncs
    /\ connPc[t] = "lock_disconnect" /\ connectMutex_ = None
    /\ HasExtAbilityConnection
    /\ ExtGoto(t, "idle")
    /\ UNCHANGED <<connectInner_, connVars, lockVars, pluginSo_, ams, ghostVars>>

\* Mutation for DisconnectAnswerIsNotLost: the promise is not made before the call.
BeginDisconnectUnprepared(t) ==
    /\ connPc[t] = "lock_disconnect" /\ connectMutex_ = None
    /\ IF connectInner_ = None
       THEN Return(t)
       ELSE connectMutex_' = t /\ ExtGoto(t, "share_plugin")
    /\ UNCHANGED <<connectInner_, connVars, pluginReaders, pluginSo_, ams, ghostVars>>

BeginDisconnect(t) ==
    /\ connPc[t] = "lock_disconnect" /\ connectMutex_ = None
    /\ IF connectInner_ = None
       THEN Return(t) /\ UNCHANGED disconnectPromise_
       ELSE /\ connectMutex_' = t
            /\ disconnectPromise_' = [disconnectPromise_ EXCEPT ![connectInner_] = "pending"]
            /\ ExtGoto(t, "share_plugin")
    /\ UNCHANGED <<connectInner_, info, connectPromise_, pluginReaders, pluginSo_, ams, ghostVars>>

DestroyDisconnectPromise ==
    disconnectPromise_' = [disconnectPromise_ EXCEPT ![connectInner_] = "none"]

\* Without the plugin the connection object is dropped, and AMS not told.
SharePluginToDisconnect(t) ==
    /\ t # "input" /\ connPc[t] = "share_plugin"
    /\ IF pluginSo_
       THEN /\ pluginReaders' = pluginReaders \cup {t}
            /\ ExtGoto(t, "call_disconnect")
            /\ UNCHANGED <<connectInner_, disconnectPromise_, connectMutex_>>
       ELSE /\ DestroyDisconnectPromise
            /\ connectInner_' = None
            /\ Return(t)
            /\ UNCHANGED pluginReaders
    /\ UNCHANGED <<info, connectPromise_, pluginSo_, ams, ghostVars>>

\* AMS refuses a connection it does not know, and may refuse another.
CallDisconnect(t) ==
    /\ connPc[t] = "call_disconnect"
    /\ pluginReaders' = pluginReaders \ {t}
    /\ \/ /\ Live(connectInner_)
          /\ ams' = [ams EXCEPT ![connectInner_] = "disconnecting"]
          /\ ExtGoto(t, "await_disconnect")
          /\ UNCHANGED <<disconnectPromise_, connectMutex_>>
       \/ /\ DestroyDisconnectPromise
          /\ Return(t)
          /\ UNCHANGED ams
    /\ UNCHANGED <<connectInner_, info, connectPromise_, pluginSo_, ghostVars>>

\* Mutation for CallsReturn: the wait has no timeout.
EndWaitForDisconnectAnswered(t) ==
    /\ connPc[t] = "await_disconnect"
    /\ disconnectPromise_[connectInner_] = "kept"
    /\ DestroyDisconnectPromise
    /\ connectInner_' = None
    /\ Return(t)
    /\ UNCHANGED <<info, connectPromise_, pluginReaders, pluginSo_, ams, ghostVars>>

EndWaitForDisconnect(t) ==
    /\ connPc[t] = "await_disconnect"
    /\ DestroyDisconnectPromise
    /\ connectInner_' = None
    /\ Return(t)
    /\ UNCHANGED <<info, connectPromise_, pluginReaders, pluginSo_, ams, ghostVars>>

Disconnect(t) ==
    \/ AlreadyConnected(t) \/ BeginDisconnect(t) \/ SharePluginToDisconnect(t)
    \/ CallDisconnect(t) \/ EndWaitForDisconnect(t)

\* Mutation for PluginStaysWhileUsed: the plugin is unloaded without its mutex.
UnloadPluginSoUnlocked ==
    /\ connPc["timer"] = "unload"
    /\ pluginSo_' = FALSE
    /\ stranded' = stranded \cup {c \in Conns : ams[c] = "connected"}
    /\ ExtGoto("timer", "idle")
    /\ UNCHANGED <<connectInner_, connVars, lockVars, ams, late>>

UnloadPluginSo ==
    /\ connPc["timer"] = "unload" /\ pluginReaders = {}
    /\ pluginSo_' = FALSE
    /\ stranded' = stranded \cup {c \in Conns : ams[c] = "connected"}
    /\ ExtGoto("timer", "idle")
    /\ UNCHANGED <<connectInner_, connVars, lockVars, ams, late>>

\* Any other use of the plugin loads it first.
LoadForOthers ==
    /\ ~pluginSo_ /\ pluginReaders = {}
    /\ pluginSo_' = TRUE
    /\ UNCHANGED <<connectInner_, connVars, lockVars, connPc, ams, ghostVars>>

-----------------------------------------------------------------------------
(* AMS.  The result code of the answer is only logged: a failed connection  *)
(* counts as connected for the service.                                     *)

OnAbilityConnectDone(c) ==
    /\ ams[c] = "connecting"
    /\ ams' \in {[ams EXCEPT ![c] = s] : s \in {"connected", "none"}}
    /\ info' = [info EXCEPT ![c] = TRUE]
    /\ connectPromise_' = [connectPromise_ EXCEPT ![c] = IF @ = "pending" THEN "kept" ELSE @]
    /\ UNCHANGED <<connectInner_, disconnectPromise_, lockVars, pluginSo_, connPc, ghostVars>>

\* The answer to a disconnect, or the death of the extension.
OnAbilityDisconnectDone(c) ==
    /\ ams[c] \in {"connected", "disconnecting"}
    /\ ams' = [ams EXCEPT ![c] = "none"]
    /\ info' = [info EXCEPT ![c] = FALSE]
    /\ disconnectPromise_' =
          [disconnectPromise_ EXCEPT ![c] = IF @ = "pending" THEN "kept" ELSE @]
    /\ UNCHANGED <<connectInner_, connectPromise_, lockVars, pluginSo_, connPc, ghostVars>>

ExtInit ==
    /\ connectInner_ = None
    /\ info = [c \in Conns |-> FALSE]
    /\ connectPromise_ = [c \in Conns |-> "none"]
    /\ disconnectPromise_ = [c \in Conns |-> "none"]
    /\ connectMutex_ = None
    /\ pluginReaders = {}
    /\ pluginSo_ \in BOOLEAN
    /\ connPc = [t \in Threads |-> "idle"]
    /\ ams = [c \in Conns |-> "none"]
    /\ late = {} /\ stranded = {}

ExtNext ==
    \/ StartConnect \/ Connect
    \/ \E t \in Syncs : StartSync(t)
    \/ FireTimer
    \/ \E t \in Threads \ {"input"} : Disconnect(t)
    \/ UnloadPluginSo \/ LoadForOthers
    \/ \E c \in Conns : OnAbilityConnectDone(c) \/ OnAbilityDisconnectDone(c)

ExtSpec == ExtInit /\ [][ExtNext]_extVars

\* A wait ends by its timeout at the latest, and a thread that finds a mutex
\* free again and again gets it at last.  Nothing is assumed of AMS, and no one
\* has to start anything.
ExtFairness ==
    /\ SF_extVars(Connect)
    /\ \A t \in Threads \ {"input"} : SF_extVars(Disconnect(t))
    /\ SF_extVars(UnloadPluginSo)

FairExtSpec == ExtSpec /\ ExtFairness
-----------------------------------------------------------------------------
(* Properties. *)

PromiseStates == {"none", "pending", "kept"}
ConnectSteps ==
    {"lock_connect", "load", "share_plugin", "call_connect", "promise", "await_connect"}
DisconnectSteps == {"lock_disconnect", "share_plugin", "call_disconnect", "await_disconnect"}

ExtTypeOK ==
    /\ connectInner_ \in Conns \cup {None}
    /\ info \in [Conns -> BOOLEAN]
    /\ connectPromise_ \in [Conns -> PromiseStates]
    /\ disconnectPromise_ \in [Conns -> PromiseStates]
    /\ connectMutex_ \in Threads \cup {None}
    /\ pluginReaders \subseteq Threads
    /\ pluginSo_ \in BOOLEAN
    /\ DOMAIN connPc = Threads
    /\ connPc["input"] \in {"idle"} \cup ConnectSteps
    /\ connPc["timer"] \in {"idle", "unload"} \cup DisconnectSteps
    /\ \A t \in Syncs : connPc[t] \in {"idle"} \cup DisconnectSteps
    /\ ams \in [Conns -> {"none", "connecting", "connected", "disconnecting"}]
    /\ late \subseteq Conns /\ stranded \subseteq Conns

\* No thread calls into the plugin after dlclose: whoever is about to call one of
\* its functions, or waits inside DoConnectNewExtAbility, finds it loaded, and
\* the connection object it works on is still there.
PluginStaysWhileUsed ==
    \A t \in Threads :
        connPc[t] \in {"call_connect", "promise", "await_connect", "call_disconnect"} =>
                pluginSo_ /\ connectInner_ # None

\* The answer to a disconnect is never lost: DoDisconnectCurrentExtAbility makes
\* its promise before it calls AMS, so it waits in vain only for AMS.
DisconnectAnswerIsNotLost ==
    \A t \in Threads :
        connPc[t] = "await_disconnect" =>
            \/ ams[connectInner_] = "disconnecting" /\ disconnectPromise_[connectInner_] = "pending"
            \/ ams[connectInner_] = "none" /\ disconnectPromise_[connectInner_] = "kept"

\* The service loses sight of an extension that is still connected, so that it
\* runs on and can never be disconnected, only if AMS answered the connect after
\* the timeout or the plugin was unloaded under the connection; no interleaving
\* of selections, configuration changes and the timer does it alone.
OrphanHasCause ==
    \A c \in Conns : Live(c) /\ c # connectInner_ => c \in late \cup stranded

\* Connects and disconnects do not block one another for ever: each call returns.
CallsReturn == \A t \in Threads : connPc[t] # "idle" ~> connPc[t] = "idle"

\* OnPluginUnloadTimer: the extension is disconnected before the plugin is
\* unloaded, "to avoid that it cannot be disconnected after the plugin is
\* unloaded".
DisconnectedBeforeUnload == stranded = {}
=============================================================================
