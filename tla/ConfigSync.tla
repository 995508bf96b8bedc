----------------------------- MODULE ConfigSync ------------------------------
(***************************************************************************)
(* The settings of the users: SynchronizeSelectionConfig,                  *)
(* PersistSelectionConfig and the parameter watchers of                    *)
(* service/src/selection_service.cpp, SelectionConfigComparator,           *)
(* SysSelectionConfigRepository and the rows of the database plugin.       *)
(*                                                                         *)
(* There are three copies of the settings: the system parameters (one set, *)
(* for whoever is in the foreground, with the user they belong to in       *)
(* sys.selection.uid), the memory of the service, and one row per user in  *)
(* the database.  The user changes the parameters; watchers copy the       *)
(* changes to the memory and to the row of the foreground user.  When the  *)
(* user is switched, and when the service starts, the copies are           *)
(* synchronised.  The service is started and stopped on demand             *)
(* (sa_profile/8500.json), may crash, and the device may be rebooted.      *)
(*                                                                         *)
(* An application stands for the user who chose it.  The trigger mode is   *)
(* written, watched and saved exactly like the application, and left out.  *)
(* Threads: "watch" runs the callbacks of the parameters, Init among them; *)
(* "sync" is Init's or the common event thread's synchronisation.          *)
(***************************************************************************)
EXTENDS Naturals, Sequences

CONSTANTS
    Users,        \* local accounts
    NoUser,       \* -1: no user is logged in; also the key of the default row
    Factory,      \* the application that is set when the device is delivered
    NoRow,        \* no row was found
    MaxEvents,    \* bound on the parameter changes that wait for the watchers
    MaxSwitches,  \* bound on the user switches that wait for the service
    MaxFailures,  \* bound on the transactions that fail
    MaxHaste      \* bound on what users do without taking their time

ASSUME ConfigSyncAssumption ==
    /\ NoUser \notin Users /\ Factory \notin Users
    /\ MaxEvents \in Nat /\ MaxSwitches \in Nat /\ MaxFailures \in Nat
    /\ MaxHaste \in Nat

Apps == Users \cup {Factory}
Ids == Users \cup {NoUser}
Config == [enable : BOOLEAN, app : Apps]
Parameters == [enable : BOOLEAN, app : Apps, uid : Ids]
ComparisonResult == [config : Config, uid : Ids, stop : BOOLEAN,
                     direction : {"none", "create", "toSys", "toDb"}]

SyncPc == {"idle", "default", "saveDefault", "account", "readSys", "readDb", "compare",
           "save", "writeSwitch", "writeApp", "writeUid", "finish", "done"}
WatchPc == {"idle", "account", "copy", "save"}

VARIABLES
    sys,          \* the parameters: Config and the uid they belong to
    fg,           \* external: the user in the foreground, NoUser before the first login
    db,           \* the rows, by user; the row of NoUser is the default
    mem,          \* MemSelectionConfig
    default,      \* defaultSelectionConfig_
    userId_,
    running,      \* the process of the service exists
    wanted,       \* external: the service is to be started (again)
    stopping,     \* external: the service was asked to stop
    watching,     \* Init is over: parameters are watched, events are received
    changes,      \* external: the parameter changes on their way to the watchers
    switches,     \* external: the user switches on their way to the service
    watch,        \* the position of the watcher in PersistSelectionConfig
    copied,       \* its selectionConfig
    sync,         \* the position in SynchronizeSelectionConfig
    sysRead,      \* its sysSelectionConfig
    dbRead,       \* its dbSelectionConfig, or NoRow
    result,       \* its result
    failures,     \* external: the transactions that failed so far
    haste,        \* ghost: how often a user did not take his time
    unsaved,      \* ghost: the rows whose latest save failed
    defaults      \* ghost: the applications that were ever a default

userVars == <<fg, haste>>
samgrVars == <<wanted, stopping>>
eventVars == <<changes, switches>>
dbVars == <<db, failures, unsaved>>
watchVars == <<watch, copied>>
readVars == <<sysRead, dbRead>>
defaultVars == <<default, defaults>>
syncVars == <<sync, readVars, result, defaultVars>>
lifeVars == <<running, watching>>
serviceVars == <<mem, userId_, lifeVars, watchVars, syncVars>>
vars == <<sys, userVars, dbVars, samgrVars, eventVars, serviceVars>>

-----------------------------------------------------------------------------
(* What the steps are made of. *)

Settings(s) == [enable |-> s.enable, app |-> s.app]
FactoryConfig == [enable |-> FALSE, app |-> Factory]   \* SelectionConfig's initial values
BootParameters == [enable |-> TRUE, app |-> Factory, uid |-> NoUser]   \* etc/para
NoResult == [config |-> FactoryConfig, uid |-> NoUser, direction |-> "none", stop |-> FALSE]

\* A parameter that changes tells its watcher, once there is one.
Tell(key, old, new) ==
    changes' = IF watching /\ old # new
               THEN Append(changes, [key |-> key, value |-> new]) ELSE changes

\* samgr starts the service when the switch is turned on and stops it when it is
\* turned off (sa_profile/8500.json).
SetEnabled(on) ==
    /\ sys' = [sys EXCEPT !.enable = on]
    /\ Tell("switch", sys.enable, on)
    /\ stopping' = (stopping \/ (running /\ sys.enable /\ ~on))
    /\ wanted' = (wanted \/ (on /\ ~sys.enable /\ (~running \/ stopping)))

SetApplicationInfo(app) ==
    /\ sys' = [sys EXCEPT !.app = app]
    /\ Tell("app", sys.app, app)
    /\ UNCHANGED samgrVars

\* The plugin may be missing, and a transaction may fail.
Fail == failures < MaxFailures /\ failures' = failures + 1

Save(u, config) ==
    \/ db' = [db EXCEPT ![u] = config] /\ unsaved' = unsaved \ {u} /\ UNCHANGED failures
    \/ Fail /\ UNCHANGED db /\ unsaved' = unsaved \cup {u}

\* A row that cannot be read counts as one that does not exist.
GetOneByUserId(u, row) ==
    /\ \/ row = db[u] /\ UNCHANGED failures
       \/ row = NoRow /\ db[u] # NoRow /\ Fail
    /\ UNCHANGED <<db, unsaved>>

\* Mutation for UserGetsOwnSettings: a user who is known is not asked for again.
LoadAccountLocalIdOnce == userId_' = IF userId_ = NoUser THEN fg ELSE userId_

\* GetForegroundOsAccountLocalId fails for as long as no user has logged in.
LoadAccountLocalId == userId_' = fg

-----------------------------------------------------------------------------
(* The user and the system. *)

\* The service is still busy with what happened before, or has not yet subscribed
\* to the events.
Occupied ==
    /\ running
    /\ changes # <<>> \/ watch # "idle" \/ sync # "idle" \/ ~watching

\* The parameters are the foreground user's own.
OwnSettings == sys.uid = fg

\* Users take their time if they do nothing before the parameters are their own, once
\* logged in, and do not switch while the service is occupied.  Nothing makes them.
TakesTime(patient) ==
    /\ haste' = IF patient THEN haste ELSE haste + 1
    /\ haste' <= MaxHaste

\* The foreground user turns the switch, or chooses an application.
SetSwitch ==
    /\ fg # NoUser /\ Len(changes) < MaxEvents
    /\ TakesTime(OwnSettings)
    /\ SetEnabled(~sys.enable)
    /\ UNCHANGED <<fg, dbVars, switches, serviceVars>>

SetApp ==
    /\ fg # NoUser /\ Len(changes) < MaxEvents
    /\ TakesTime(OwnSettings)
    /\ sys.app # fg
    /\ SetApplicationInfo(fg)
    /\ UNCHANGED <<fg, dbVars, switches, serviceVars>>

\* USER_SWITCHED, at the first login too, starts a service that is not running.
\* One that is running receives it if it has subscribed.
SwitchUser ==
    /\ switches < MaxSwitches
    /\ TakesTime(~Occupied /\ (fg = NoUser \/ OwnSettings))
    /\ fg' \in Users \ {fg}
    /\ switches' = IF watching THEN switches + 1 ELSE switches
    /\ wanted' = (wanted \/ ~running \/ stopping)
    /\ UNCHANGED <<sys, dbVars, stopping, changes, serviceVars>>

-----------------------------------------------------------------------------
(* The watchers: WatchEnableSwitch and WatchAppSwitch, which end with          *)
(* PersistSelectionConfig.  What follows in WatchAppSwitch, disconnecting the  *)
(* extension, changes no setting (see ExtConnection).                          *)

Watch ==
    /\ watching /\ watch = "idle" /\ changes # <<>>
    /\ LET change == Head(changes) IN
         mem' = IF change.key = "switch" THEN [mem EXCEPT !.enable = change.value]
                                         ELSE [mem EXCEPT !.app = change.value]
    /\ changes' = Tail(changes)
    /\ watch' = "account"
    /\ UNCHANGED <<sys, userVars, dbVars, samgrVars, switches, userId_, lifeVars, copied, syncVars>>

WatchCheckUserLoggedIn ==
    /\ watch = "account"
    /\ LoadAccountLocalId
    /\ watch' = IF userId_' = NoUser THEN "idle" ELSE "copy"
    /\ UNCHANGED <<sys, userVars, dbVars, samgrVars, eventVars, mem, lifeVars, copied, syncVars>>

WatchCopy ==
    /\ watch = "copy"
    /\ copied' = mem
    /\ watch' = "save"
    /\ UNCHANGED <<sys, userVars, dbVars, samgrVars, eventVars, mem, userId_, lifeVars, syncVars>>

\* Mutation for SettingsArePersistent: not while a synchronisation saves anyway.
PersistUnlessSynchronising ==
    /\ watch = "save"
    /\ IF sync = "idle" THEN Save(userId_, copied) ELSE UNCHANGED dbVars
    /\ watch' = "idle" /\ copied' = FactoryConfig
    /\ UNCHANGED <<sys, userVars, samgrVars, eventVars, mem, userId_, lifeVars, syncVars>>

PersistSelectionConfig ==
    /\ watch = "save"
    /\ Save(userId_, copied)
    /\ watch' = "idle" /\ copied' = FactoryConfig
    /\ UNCHANGED <<sys, userVars, samgrVars, eventVars, mem, userId_, lifeVars, syncVars>>

-----------------------------------------------------------------------------
(* The synchronisation. *)

\* SelectionConfigComparator::Init: a default row that is not found is made from
\* the parameters.
InitDefault ==
    /\ sync = "default"
    /\ \E row \in {db[NoUser], NoRow} :
         /\ GetOneByUserId(NoUser, row)
         /\ default' = IF row = NoRow THEN Settings(sys) ELSE row
         /\ defaults' = defaults \cup {default'.app}
         /\ sync' = IF row = NoRow THEN "saveDefault" ELSE "account"
    /\ UNCHANGED <<sys, userVars, samgrVars, eventVars, mem, userId_, lifeVars, watchVars,
                   readVars, result>>

SaveDefault ==
    /\ sync = "saveDefault"
    /\ Save(NoUser, default)
    /\ sync' = "account"
    /\ UNCHANGED <<sys, userVars, samgrVars, eventVars, mem, userId_, lifeVars, watchVars,
                   readVars, result, defaultVars>>

\* USER_SWITCHED
HandleUserSwitched ==
    /\ watching /\ sync = "idle" /\ switches > 0
    /\ switches' = switches - 1
    /\ sync' = "account"
    /\ UNCHANGED <<sys, userVars, dbVars, samgrVars, changes, mem, userId_, lifeVars, watchVars,
                   readVars, result, defaultVars>>

SyncCheckUserLoggedIn ==
    /\ sync = "account"
    /\ LoadAccountLocalId
    /\ sync' = IF userId_' = NoUser THEN "done" ELSE "readSys"
    /\ UNCHANGED <<sys, userVars, dbVars, samgrVars, eventVars, mem, lifeVars, watchVars,
                   readVars, result, defaultVars>>

GetSysParameters ==
    /\ sync = "readSys"
    /\ sysRead' = sys
    /\ sync' = "readDb"
    /\ UNCHANGED <<sys, userVars, dbVars, samgrVars, eventVars, mem, userId_, lifeVars, watchVars,
                   dbRead, result, defaultVars>>

LoadDatabaseSelectionConfig ==
    /\ sync = "readDb"
    /\ \E row \in {db[userId_], NoRow} :
         /\ GetOneByUserId(userId_, row)
         /\ dbRead' = IF row = NoRow THEN NoRow ELSE [config |-> row, uid |-> userId_]
    /\ sync' = "compare"
    /\ UNCHANGED <<sys, userVars, samgrVars, eventVars, mem, userId_, lifeVars, watchVars,
                   sysRead, result, defaultVars>>

DoCompare(uid, s, d) ==
    CASE d = NoRow ->
           [config |-> default, uid |-> uid, direction |-> "create", stop |-> ~default.enable]
      [] d # NoRow /\ s.uid # uid ->
           [config |-> d.config, uid |-> d.uid, direction |-> "toSys", stop |-> ~d.config.enable]
      [] OTHER ->
           [config |-> Settings(s), uid |-> s.uid, direction |-> "toDb", stop |-> ~s.enable]

Compare ==
    /\ sync = "compare"
    /\ result' = DoCompare(userId_, sysRead, dbRead)
    /\ mem' = result'.config
    /\ sync' = IF result'.direction = "toSys" THEN "writeSwitch" ELSE "save"
    /\ sysRead' = BootParameters /\ dbRead' = NoRow
    /\ UNCHANGED <<sys, userVars, dbVars, samgrVars, eventVars, userId_, lifeVars, watchVars,
                   defaultVars>>

SyncConfigToDatabase ==
    /\ sync = "save"
    /\ Save(userId_, result.config)
    /\ sync' = IF result.direction = "create" THEN "writeSwitch" ELSE "finish"
    /\ UNCHANGED <<sys, userVars, samgrVars, eventVars, mem, userId_, lifeVars, watchVars,
                   readVars, result, defaultVars>>

\* Mutation for PatientRowsAreOwn: the uid is written first, not last.
WriteSwitchAfterUid ==
    /\ sync = "writeSwitch"
    /\ sys' = [sys EXCEPT !.enable = result.config.enable, !.uid = result.uid]
    /\ Tell("switch", sys.enable, result.config.enable)
    /\ stopping' = (stopping \/ (sys.enable /\ ~result.config.enable))
    /\ UNCHANGED wanted
    /\ sync' = "writeApp"
    /\ UNCHANGED <<userVars, dbVars, switches, mem, userId_, lifeVars, watchVars,
                   readVars, result, defaultVars>>

\* SetSysParameters, one parameter at a time, the uid last.
WriteSwitch ==
    /\ sync = "writeSwitch"
    /\ SetEnabled(result.config.enable)
    /\ sync' = "writeApp"
    /\ UNCHANGED <<userVars, dbVars, switches, mem, userId_, lifeVars, watchVars,
                   readVars, result, defaultVars>>

WriteApp ==
    /\ sync = "writeApp"
    /\ SetApplicationInfo(result.config.app)
    /\ sync' = "writeUid"
    /\ UNCHANGED <<userVars, dbVars, switches, mem, userId_, lifeVars, watchVars,
                   readVars, result, defaultVars>>

WriteUid ==
    /\ sync = "writeUid"
    /\ sys' = [sys EXCEPT !.uid = result.uid]
    /\ sync' = "finish"
    /\ UNCHANGED <<userVars, dbVars, samgrVars, eventVars, mem, userId_, lifeVars, watchVars,
                   readVars, result, defaultVars>>

\* Mutation for SettingsAreEffective: the memory is set when all else is done.
ProcessSyncResultThenMemory ==
    /\ sync = "finish"
    /\ mem' = result.config
    /\ sync' = "done" /\ result' = NoResult
    /\ UNCHANGED <<sys, userVars, dbVars, samgrVars, eventVars, userId_, lifeVars, watchVars,
                   readVars, defaultVars>>

\* DisableSAService and UnloadService.  What else it does, restarting the
\* extension, changes no setting.
ProcessSyncResult ==
    /\ sync = "finish"
    /\ IF result.stop
       THEN /\ sys' = [sys EXCEPT !.enable = FALSE]
            /\ Tell("switch", sys.enable, FALSE)
            /\ stopping' = TRUE
       ELSE UNCHANGED <<sys, changes, stopping>>
    /\ sync' = "done" /\ result' = NoResult
    /\ UNCHANGED <<userVars, dbVars, wanted, switches, mem, userId_, lifeVars, watchVars,
                   readVars, defaultVars>>

\* The event thread is free again, or Init goes on: it subscribes to the events
\* and watches the parameters.  A new watcher is told the present value.
EndSync ==
    /\ sync = "done"
    /\ sync' = "idle"
    /\ watching' = TRUE
    /\ changes' = IF watching THEN changes
                  ELSE <<[key |-> "switch", value |-> sys.enable],
                         [key |-> "app", value |-> sys.app]>>
    /\ UNCHANGED <<sys, userVars, dbVars, samgrVars, switches, mem, userId_, running, watchVars,
                   readVars, result, defaultVars>>

-----------------------------------------------------------------------------
(* The process of the service. *)

Start ==
    /\ ~running /\ wanted
    /\ running' = TRUE /\ wanted' = FALSE
    /\ sync' = "default"
    /\ UNCHANGED <<sys, userVars, dbVars, stopping, eventVars, mem, userId_, watching, watchVars,
                   readVars, result, defaultVars>>

\* What the process had in memory, and what was on its way to it, is gone.
Lose ==
    /\ running' = FALSE /\ watching' = FALSE /\ stopping' = FALSE
    /\ changes' = <<>> /\ switches' = 0
    /\ mem' = FactoryConfig /\ default' = FactoryConfig /\ userId_' = NoUser
    /\ watch' = "idle" /\ copied' = FactoryConfig
    /\ sync' = "idle" /\ sysRead' = BootParameters /\ dbRead' = NoRow /\ result' = NoResult
    /\ UNCHANGED <<dbVars, defaults>>

\* It may be asked to stop, and stop, in the middle of anything.
Stop ==
    /\ running /\ stopping
    /\ Lose
    /\ UNCHANGED <<sys, userVars, wanted>>

\* auto-restart
Crash ==
    /\ running
    /\ Lose
    /\ wanted' = TRUE
    /\ UNCHANGED <<sys, userVars>>

\* The parameters, which are not persistent, are those of etc/para again.
Reboot ==
    /\ Lose
    /\ sys' = BootParameters
    /\ wanted' = TRUE
    /\ fg' = NoUser
    /\ UNCHANGED haste

-----------------------------------------------------------------------------
Init ==
    /\ sys = BootParameters
    /\ fg = NoUser
    /\ db = [u \in Ids |-> NoRow]
    /\ mem = FactoryConfig /\ default = FactoryConfig /\ userId_ = NoUser
    /\ running = FALSE /\ wanted = TRUE /\ stopping = FALSE /\ watching = FALSE
    /\ changes = <<>> /\ switches = 0
    /\ watch = "idle" /\ copied = FactoryConfig
    /\ sync = "idle" /\ sysRead = BootParameters /\ dbRead = NoRow /\ result = NoResult
    /\ failures = 0 /\ haste = 0 /\ unsaved = {} /\ defaults = {Factory}

WatchStep == Watch \/ WatchCheckUserLoggedIn \/ WatchCopy \/ PersistSelectionConfig

SyncStep ==
    \/ InitDefault \/ SaveDefault \/ HandleUserSwitched \/ SyncCheckUserLoggedIn
    \/ GetSysParameters \/ LoadDatabaseSelectionConfig \/ Compare \/ SyncConfigToDatabase
    \/ WriteSwitch \/ WriteApp \/ WriteUid \/ ProcessSyncResult \/ EndSync

SystemStep == WatchStep \/ SyncStep \/ Start \/ Stop \/ Crash \/ Reboot
UserStep == SetSwitch \/ SetApp \/ SwitchUser

Next == SystemStep \/ UserStep

Spec == Init /\ [][Next]_vars

\* The two threads go on for as long as the process exists.
ConfigFairness == WF_vars(WatchStep) /\ WF_vars(SyncStep)
FairSpec == Spec /\ ConfigFairness

-----------------------------------------------------------------------------
Row == Config \cup {NoRow}
ChangesTo(apps) == [key : {"switch"}, value : BOOLEAN] \cup [key : {"app"}, value : apps]

TypeOK ==
    /\ sys \in Parameters /\ sysRead \in Parameters
    /\ fg \in Ids
    /\ db \in [Ids -> Row]
    /\ mem \in Config /\ default \in Config /\ copied \in Config
    /\ userId_ \in Ids
    /\ running \in BOOLEAN /\ watching \in BOOLEAN
    /\ wanted \in BOOLEAN /\ stopping \in BOOLEAN
    /\ changes \in Seq(ChangesTo(Apps))
    /\ switches \in 0 .. MaxSwitches
    /\ watch \in WatchPc /\ sync \in SyncPc
    /\ dbRead \in [config : Config, uid : Ids] \cup {NoRow}
    /\ result \in ComparisonResult
    /\ failures \in 0 .. MaxFailures /\ haste \in 0 .. MaxHaste
    /\ unsaved \subseteq Ids /\ defaults \subseteq Apps

\* No user's settings get into the row of another: a row holds an application its user
\* chose or a default.  The autotest selectionfwk_user_switch_0100 has two users switch
\* back and forth and keep their settings.
RowsAreOwn ==
    \A u \in Users : db[u] # NoRow => db[u].app \in {u} \cup defaults

\* As long as the users take their time, no one's settings get into the row of another,
\* whatever order the threads run in, however often the service stops or crashes between
\* two parameters, and whichever transactions fail.
PatientRowsAreOwn == haste = 0 => RowsAreOwn

AtRest == running /\ ~stopping /\ ~Occupied /\ switches = 0 /\ fg # NoUser

\* When all is quiet, and the users have taken their time, the service works with the
\* parameters that are set, and they are the foreground user's: no change is lost between
\* the watchers, which write the memory field by field, and a synchronisation, which
\* replaces it.
SettingsAreEffective == haste = 0 /\ AtRest => OwnSettings /\ mem = Settings(sys)

\* When all is quiet, and the users have taken their time, the foreground user's row is
\* what the service works with, unless the latest save of it failed.
SettingsArePersistent == haste = 0 /\ AtRest => db[fg] = mem \/ fg \in unsaved

\* A user who is in the foreground when the service has his switch on its way to it, or is
\* starting and has not asked yet who is in the foreground, gets his settings, unless the
\* process is gone or another user follows.  It makes no difference whether the service
\* was starting or synchronising when he came, or how many switches and changes of the
\* parameters it has to deal with before (HandleUserSwitched, LoadAccountLocalId).
UserGetsOwnSettings ==
    \A u \in Users :
       /\ running /\ fg = u
       /\ switches > 0 \/ sync \in {"default", "saveDefault", "account"}
       ~> ~running \/ fg # u \/ sys.uid = u

\* "These configuration items can be bound to users" (README.en.md): whoever is in the
\* foreground gets his settings, unless the process is gone or another user follows.
SwitchIsFollowed ==
    \A u \in Users : (running /\ fg = u) ~> (~running \/ fg # u \/ sys.uid = u)
=============================================================================
