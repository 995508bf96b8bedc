-------------------------- MODULE ConfigSyncProofs ---------------------------
(***************************************************************************)
(* No user's row gets another user's application, and when all is quiet the *)
(* parameters, the memory and the row agree, for any number of users, of    *)
(* events on their way and of transactions that fail.                       *)
(***************************************************************************)
EXTENDS ConfigSync, SequenceTheorems, TLAPS

LEMMA Constants ==
    /\ Factory \in Apps /\ NoUser \in Ids /\ NoUser \notin Users
    /\ \A u \in Users : u \in Apps /\ u \in Ids
    /\ \A u \in Ids : u # NoUser => u \in Users
    /\ MaxSwitches \in Nat /\ MaxFailures \in Nat /\ MaxHaste \in Nat
BY ConfigSyncAssumption DEF Apps, Ids

LEMMA InitialRecords ==
    /\ FactoryConfig \in Config /\ FactoryConfig.app = Factory
    /\ BootParameters \in Parameters
    /\ BootParameters.app = Factory /\ BootParameters.uid = NoUser
    /\ NoResult \in ComparisonResult
BY Constants
   DEF FactoryConfig, BootParameters, NoResult, Config, Parameters, ComparisonResult

LEMMA SettingsOf == \A s \in Parameters : Settings(s) \in Config /\ Settings(s).app = s.app
BY DEF Parameters, Config, Settings

LEMMA ConfigFields == \A c \in Config : c.enable \in BOOLEAN /\ c.app \in Apps
BY DEF Config

LEMMA ParametersFields ==
    \A s \in Parameters : s.enable \in BOOLEAN /\ s.app \in Apps /\ s.uid \in Ids
BY DEF Parameters

LEMMA ResultFields ==
    \A r \in ComparisonResult : r.config \in Config /\ r.uid \in Ids /\ r.stop \in BOOLEAN
BY DEF ComparisonResult

LEMMA ConfigWith == \A c \in Config :
    /\ \A b \in BOOLEAN :
          [c EXCEPT !.enable = b] \in Config /\ [c EXCEPT !.enable = b].app = c.app
    /\ \A a \in Apps : [c EXCEPT !.app = a] \in Config /\ [c EXCEPT !.app = a].app = a
BY DEF Config

\* A parameter that is written leaves the others alone.
LEMMA SwitchWritten ==
    \A s \in Parameters, b \in BOOLEAN :
       LET t == [s EXCEPT !.enable = b] IN t \in Parameters /\ t.app = s.app /\ t.uid = s.uid
BY DEF Parameters

LEMMA AppWritten ==
    \A s \in Parameters, a \in Apps :
       LET t == [s EXCEPT !.app = a] IN t \in Parameters /\ t.app = a /\ t.uid = s.uid
BY DEF Parameters

LEMMA UidWritten ==
    \A s \in Parameters, u \in Ids :
       LET t == [s EXCEPT !.uid = u] IN t \in Parameters /\ t.app = s.app /\ t.uid = u
BY DEF Parameters

\* A watcher is told one more change, of the parameter's kind, or none.
LEMMA TellKeepsKind ==
    ASSUME NEW S, changes \in Seq(S), NEW key, NEW old, NEW new,
           [key |-> key, value |-> new] \in S, Tell(key, old, new)
    PROVE  changes' \in Seq(S)
BY AppendProperties DEF Tell

LEMMA SwitchTold ==
    ASSUME NEW apps, changes \in Seq(ChangesTo(apps)), NEW old, NEW on \in BOOLEAN,
           Tell("switch", old, on)
    PROVE  changes' \in Seq(ChangesTo(apps))
<1>1. [key |-> "switch", value |-> on] \in ChangesTo(apps) BY DEF ChangesTo
<1> QED BY <1>1, TellKeepsKind

LEMMA AppTold ==
    ASSUME NEW apps, changes \in Seq(ChangesTo(apps)), NEW old, NEW app \in apps,
           Tell("app", old, app)
    PROVE  changes' \in Seq(ChangesTo(apps))
<1>1. [key |-> "app", value |-> app] \in ChangesTo(apps) BY DEF ChangesTo
<1> QED BY <1>1, TellKeepsKind

LEMMA InitialChanges ==
    ASSUME NEW on \in BOOLEAN, NEW apps, NEW app \in apps
    PROVE  <<[key |-> "switch", value |-> on], [key |-> "app", value |-> app]>>
               \in Seq(ChangesTo(apps))
BY DEF ChangesTo

LEMMA NoChanges == \A apps : <<>> \in Seq(ChangesTo(apps))
BY EmptySeq

LEMMA HeadChange ==
    ASSUME NEW apps, changes \in Seq(ChangesTo(apps)), changes # <<>>
    PROVE  /\ Tail(changes) \in Seq(ChangesTo(apps))
           /\ Head(changes).key = "switch" => Head(changes).value \in BOOLEAN
           /\ Head(changes).key # "switch" => Head(changes).value \in apps
<1>1. Head(changes) \in ChangesTo(apps) /\ Tail(changes) \in Seq(ChangesTo(apps))
  BY HeadTailProperties
<1> QED BY <1>1 DEF ChangesTo

-----------------------------------------------------------------------------
(* Types. *)

LEMMA CompareType ==
    ASSUME NEW u \in Ids, NEW s \in Parameters, default \in Config,
           NEW d \in [config : Config, uid : Ids] \cup {NoRow}
    PROVE  DoCompare(u, s, d) \in ComparisonResult
BY SettingsOf, ConfigFields, ParametersFields DEF DoCompare, ComparisonResult

LEMMA InitType == Init => TypeOK
<1> SUFFICES ASSUME Init PROVE TypeOK OBVIOUS
<1> USE Constants, InitialRecords DEF Init, WatchPc, SyncPc
<1>1. sys \in Parameters /\ sysRead \in Parameters OBVIOUS
<1>2. fg \in Ids /\ userId_ \in Ids OBVIOUS
<1>3. db \in [Ids -> Row] BY DEF Row
<1>4. mem \in Config /\ default \in Config /\ copied \in Config OBVIOUS
<1>5. changes \in Seq(ChangesTo(Apps)) BY NoChanges
<1>6. dbRead \in [config : Config, uid : Ids] \cup {NoRow} OBVIOUS
<1>7. result \in ComparisonResult OBVIOUS
<1>8. switches \in 0 .. MaxSwitches /\ failures \in 0 .. MaxFailures OBVIOUS
<1>9. unsaved \subseteq Ids /\ defaults \subseteq Apps /\ haste \in 0 .. MaxHaste OBVIOUS
<1>10. watch \in WatchPc /\ sync \in SyncPc OBVIOUS
<1> QED BY <1>1, <1>2, <1>3, <1>4, <1>5, <1>6, <1>7, <1>8, <1>9, <1>10 DEF TypeOK

LEMMA LoseType ==
    ASSUME TypeOK, Lose, sys' \in Parameters, fg' \in Ids, haste' \in 0 .. MaxHaste,
           wanted' \in BOOLEAN
    PROVE  TypeOK'
<1> USE Constants, InitialRecords DEF Lose, TypeOK, dbVars
<1>1. db' \in [Ids -> Row] /\ failures' \in 0 .. MaxFailures /\ unsaved' \subseteq Ids OBVIOUS
<1>2. mem' \in Config /\ default' \in Config /\ copied' \in Config OBVIOUS
<1>3. defaults' \subseteq Apps OBVIOUS
<1>4. changes' \in Seq(ChangesTo(Apps)) BY NoChanges
<1>5. dbRead' \in [config : Config, uid : Ids] \cup {NoRow} OBVIOUS
<1>6. result' \in ComparisonResult /\ sysRead' \in Parameters /\ userId_' \in Ids OBVIOUS
<1>7. switches' \in 0 .. MaxSwitches OBVIOUS
<1>8. watch' \in WatchPc /\ sync' \in SyncPc BY DEF WatchPc, SyncPc
<1>9. running' \in BOOLEAN /\ watching' \in BOOLEAN /\ stopping' \in BOOLEAN OBVIOUS
<1> QED BY <1>1, <1>2, <1>3, <1>4, <1>5, <1>6, <1>7, <1>8, <1>9

\* Taking one's time keeps the count, and nothing else makes it smaller.
LEMMA NotHasty ==
    ASSUME haste \in 0 .. MaxHaste, NEW patient \in BOOLEAN, TakesTime(patient)
    PROVE  haste' \in 0 .. MaxHaste /\ (haste' = 0 => haste = 0 /\ patient)
BY Constants DEF TakesTime

LEMMA HasteOfUsers ==
    ASSUME TypeOK, SetSwitch \/ SetApp \/ SwitchUser
    PROVE  haste' \in 0 .. MaxHaste
<1>1. haste \in 0 .. MaxHaste BY DEF TypeOK
<1>2. OwnSettings \in BOOLEAN BY DEF OwnSettings
<1>3. (~Occupied /\ (fg = NoUser \/ OwnSettings)) \in BOOLEAN OBVIOUS
<1> QED BY <1>1, <1>2, <1>3, NotHasty DEF SetSwitch, SetApp, SwitchUser

LEMMA TypeStep == ASSUME TypeOK, Next PROVE TypeOK'
<1> USE Constants, ConfigFields DEF TypeOK, SyncPc, WatchPc,
    userVars, samgrVars, eventVars, dbVars, watchVars, readVars, defaultVars, syncVars,
    lifeVars, serviceVars
<1>1. CASE SetSwitch
  BY <1>1, HasteOfUsers, SwitchTold, SwitchWritten, ParametersFields DEF SetSwitch, SetEnabled
<1>2. CASE SetApp
  BY <1>2, HasteOfUsers, AppTold, AppWritten, ParametersFields DEF SetApp, SetApplicationInfo
<1>3. CASE SwitchUser
  BY <1>3, HasteOfUsers DEF SwitchUser
<1>4. CASE Watch
  BY <1>4, HeadChange, ConfigWith DEF Watch
<1>5. CASE WatchCheckUserLoggedIn
  BY <1>5 DEF WatchCheckUserLoggedIn, LoadAccountLocalId
<1>6. CASE WatchCopy
  BY <1>6 DEF WatchCopy
<1>7. CASE PersistSelectionConfig
  BY <1>7, InitialRecords DEF PersistSelectionConfig, Save, Fail, Row
<1>8. CASE InitDefault
  BY <1>8, SettingsOf DEF InitDefault, GetOneByUserId, Fail, Row
<1>9. CASE SaveDefault
  BY <1>9 DEF SaveDefault, Save, Fail, Row
<1>10. CASE HandleUserSwitched
  BY <1>10 DEF HandleUserSwitched
<1>11. CASE SyncCheckUserLoggedIn
  BY <1>11 DEF SyncCheckUserLoggedIn, LoadAccountLocalId
<1>12. CASE GetSysParameters
  BY <1>12 DEF GetSysParameters
<1>13. CASE LoadDatabaseSelectionConfig
  BY <1>13 DEF LoadDatabaseSelectionConfig, GetOneByUserId, Fail, Row
<1>14. CASE Compare
  BY <1>14, InitialRecords, CompareType, ResultFields DEF Compare
<1>15. CASE SyncConfigToDatabase
  BY <1>15, ResultFields DEF SyncConfigToDatabase, Save, Fail, Row
<1>16. CASE WriteSwitch
  BY <1>16, SwitchTold, SwitchWritten, ParametersFields, ResultFields,
         ConfigFields
     DEF WriteSwitch, SetEnabled
<1>17. CASE WriteApp
  BY <1>17, AppTold, AppWritten, ParametersFields, ResultFields, ConfigFields
     DEF WriteApp, SetApplicationInfo
<1>18. CASE WriteUid
  BY <1>18, ResultFields, UidWritten DEF WriteUid
<1>19. CASE ProcessSyncResult
  BY <1>19, SwitchTold, SwitchWritten, ParametersFields, InitialRecords
     DEF ProcessSyncResult
<1>20. CASE EndSync
  BY <1>20, InitialChanges, ParametersFields DEF EndSync
<1>21. CASE Start
  BY <1>21 DEF Start
<1>22. CASE Stop
  BY <1>22, LoseType, InitialRecords DEF Stop
<1>23. CASE Crash
  BY <1>23, LoseType, InitialRecords DEF Crash
<1>24. CASE Reboot
  BY <1>24, LoseType, InitialRecords DEF Reboot
<1> QED
  BY <1>1, <1>2, <1>3, <1>4, <1>5, <1>6, <1>7, <1>8, <1>9, <1>10, <1>11, <1>12,
     <1>13, <1>14, <1>15, <1>16, <1>17, <1>18, <1>19, <1>20, <1>21, <1>22, <1>23, <1>24
  DEF Next, SystemStep, UserStep, WatchStep, SyncStep
-----------------------------------------------------------------------------
(* Whose the applications are. *)

Reading == {"readDb", "compare"}
Applying == {"save", "writeSwitch", "writeApp", "writeUid", "finish"}

\* Only a process that exists, and watches, has anything to do.
Life ==
    /\ watching => running
    /\ sync # "idle" => running
    /\ watch # "idle" \/ changes # <<>> => watching
    /\ ~running => mem.app = Factory

\* A synchronisation, and a save, that has begun is for the foreground user, since
\* no one switches meanwhile.
KnowsUser ==
    /\ sync \in {"readSys"} \cup Reading \cup Applying => userId_ = fg /\ fg # NoUser
    /\ watch \in {"copy", "save"} => userId_ = fg /\ fg # NoUser
    /\ fg = NoUser => sys.uid = NoUser
    /\ sync \in Reading => sysRead.uid = sys.uid
    /\ sync = "compare" /\ dbRead # NoRow => dbRead.uid = fg
    /\ sync \in Applying => result.uid = fg
    /\ sync = "save" /\ result.direction # "create" => sys.uid = fg
    /\ sync \in {"finish", "done"} => sys.uid = fg

\* What the foreground user's row may hold.
Mine == {fg} \cup defaults

\* An application is the foreground user's, or a default, in every variable that
\* may yet be copied to his row.  The parameters are his only once the uid is.
OwnOnTheWay ==
    /\ Factory \in defaults /\ default.app \in defaults
    /\ sys.uid = fg \/ sync = "writeUid" => sys.app \in Mine
    /\ sync \in Reading /\ sysRead.uid = fg => sysRead.app \in Mine
    /\ sync = "compare" /\ dbRead # NoRow => dbRead.config.app \in Mine
    /\ sync \in Applying => result.config.app \in Mine

OwnWatched ==
    /\ (\/ changes # <<>> \/ watch # "idle" \/ ~watching
        \/ sys.uid = fg \/ sync \in Applying) => mem.app \in Mine
    /\ changes \in Seq(ChangesTo(Mine))
    /\ watch = "save" => copied.app \in Mine

Inv == TypeOK /\ Life /\ KnowsUser /\ OwnOnTheWay /\ OwnWatched /\ RowsAreOwn

LEMMA SetWhenOwn ==
    ASSUME TypeOK, haste' = 0, SetSwitch \/ SetApp
    PROVE  sys.uid = fg
BY NotHasty DEF SetSwitch, SetApp, OwnSettings, TypeOK

LEMMA SwitchWhenIdle ==
    ASSUME Inv, haste' = 0, SwitchUser
    PROVE  /\ changes = <<>> /\ watch = "idle" /\ sync = "idle"
           /\ watching \/ mem.app = Factory
           /\ fg' # fg /\ sys.uid # fg'
           /\ ~Occupied /\ (fg = NoUser \/ sys.uid = fg)
<1>1. ~Occupied /\ (fg = NoUser \/ sys.uid = fg)
  <2>1. (~Occupied /\ (fg = NoUser \/ OwnSettings)) \in BOOLEAN OBVIOUS
  <2> QED BY <2>1, NotHasty DEF SwitchUser, OwnSettings, Inv, TypeOK
<1> QED BY <1>1, Constants DEF Occupied, Inv, Life, KnowsUser, SwitchUser

LEMMA LifeStep == ASSUME Inv, Next, haste' = 0 PROVE Life'
<1> USE InitialRecords DEF Inv, Life,
    userVars, samgrVars, eventVars, dbVars, watchVars, readVars, defaultVars, syncVars,
    lifeVars, serviceVars
<1>1. CASE SetSwitch
  BY <1>1 DEF SetSwitch, SetEnabled, Tell
<1>2. CASE SetApp
  BY <1>2 DEF SetApp, SetApplicationInfo, Tell
<1>3. CASE SwitchUser
  BY <1>3 DEF SwitchUser
<1>4. CASE Watch
  BY <1>4 DEF Watch
<1>5. CASE WatchCheckUserLoggedIn
  BY <1>5 DEF WatchCheckUserLoggedIn
<1>6. CASE WatchCopy
  BY <1>6 DEF WatchCopy
<1>7. CASE PersistSelectionConfig
  BY <1>7 DEF PersistSelectionConfig
<1>8. CASE InitDefault
  BY <1>8 DEF InitDefault
<1>9. CASE SaveDefault
  BY <1>9 DEF SaveDefault
<1>10. CASE HandleUserSwitched
  BY <1>10 DEF HandleUserSwitched
<1>11. CASE SyncCheckUserLoggedIn
  BY <1>11 DEF SyncCheckUserLoggedIn
<1>12. CASE GetSysParameters
  BY <1>12 DEF GetSysParameters
<1>13. CASE LoadDatabaseSelectionConfig
  BY <1>13 DEF LoadDatabaseSelectionConfig
<1>14. CASE Compare
  BY <1>14 DEF Compare
<1>15. CASE SyncConfigToDatabase
  BY <1>15 DEF SyncConfigToDatabase
<1>16. CASE WriteSwitch
  BY <1>16 DEF WriteSwitch, SetEnabled, Tell
<1>17. CASE WriteApp
  BY <1>17 DEF WriteApp, SetApplicationInfo, Tell
<1>18. CASE WriteUid
  BY <1>18 DEF WriteUid
<1>19. CASE ProcessSyncResult
  BY <1>19 DEF ProcessSyncResult, Tell
<1>20. CASE EndSync
  BY <1>20 DEF EndSync
<1>21. CASE Start
  BY <1>21 DEF Start
<1>22. CASE Stop
  BY <1>22 DEF Stop, Lose
<1>23. CASE Crash
  BY <1>23 DEF Crash, Lose
<1>24. CASE Reboot
  BY <1>24 DEF Reboot, Lose
<1> QED
  BY <1>1, <1>2, <1>3, <1>4, <1>5, <1>6, <1>7, <1>8, <1>9, <1>10, <1>11, <1>12,
     <1>13, <1>14, <1>15, <1>16, <1>17, <1>18, <1>19, <1>20, <1>21, <1>22, <1>23, <1>24
  DEF Next, SystemStep, UserStep, WatchStep, SyncStep

LEMMA KnowsUserStep == ASSUME Inv, Next, haste' = 0 PROVE KnowsUser'
<1> USE DEF Inv, KnowsUser, Reading, Applying,
    userVars, samgrVars, eventVars, dbVars, watchVars, readVars, defaultVars, syncVars,
    lifeVars, serviceVars
<1>1. CASE SetSwitch
  BY <1>1, SwitchWritten, ParametersFields DEF SetSwitch, SetEnabled, TypeOK
<1>2. CASE SetApp
  BY <1>2, AppWritten, Constants DEF SetApp, SetApplicationInfo, TypeOK
<1>3. CASE SwitchUser
  BY <1>3, SwitchWhenIdle, Constants DEF SwitchUser, Occupied, Life
<1>4. CASE Watch
  BY <1>4 DEF Watch
<1>5. CASE WatchCheckUserLoggedIn
  BY <1>5 DEF WatchCheckUserLoggedIn, LoadAccountLocalId
<1>6. CASE WatchCopy
  BY <1>6 DEF WatchCopy
<1>7. CASE PersistSelectionConfig
  BY <1>7 DEF PersistSelectionConfig
<1>8. CASE InitDefault
  BY <1>8 DEF InitDefault
<1>9. CASE SaveDefault
  BY <1>9 DEF SaveDefault
<1>10. CASE HandleUserSwitched
  BY <1>10 DEF HandleUserSwitched
<1>11. CASE SyncCheckUserLoggedIn
  BY <1>11 DEF SyncCheckUserLoggedIn, LoadAccountLocalId
<1>12. CASE GetSysParameters
  BY <1>12 DEF GetSysParameters
<1>13. CASE LoadDatabaseSelectionConfig
  BY <1>13 DEF LoadDatabaseSelectionConfig
<1>14. CASE Compare
  BY <1>14 DEF Compare, DoCompare
<1>15. CASE SyncConfigToDatabase
  BY <1>15 DEF SyncConfigToDatabase
<1>16. CASE WriteSwitch
  BY <1>16, SwitchWritten, ResultFields, ConfigFields
     DEF WriteSwitch, SetEnabled, TypeOK
<1>17. CASE WriteApp
  BY <1>17, AppWritten, ResultFields, ConfigFields
     DEF WriteApp, SetApplicationInfo, TypeOK
<1>18. CASE WriteUid
  BY <1>18, UidWritten, ResultFields DEF WriteUid, TypeOK
<1>19. CASE ProcessSyncResult
  BY <1>19, SwitchWritten DEF ProcessSyncResult, TypeOK
<1>20. CASE EndSync
  BY <1>20 DEF EndSync
<1>21. CASE Start
  BY <1>21 DEF Start
<1>22. CASE Stop
  BY <1>22 DEF Stop, Lose
<1>23. CASE Crash
  BY <1>23 DEF Crash, Lose
<1>24. CASE Reboot
  BY <1>24, InitialRecords DEF Reboot, Lose
<1> QED
  BY <1>1, <1>2, <1>3, <1>4, <1>5, <1>6, <1>7, <1>8, <1>9, <1>10, <1>11, <1>12,
     <1>13, <1>14, <1>15, <1>16, <1>17, <1>18, <1>19, <1>20, <1>21, <1>22, <1>23, <1>24
  DEF Next, SystemStep, UserStep, WatchStep, SyncStep


\* The defaults only grow, so that what is a user's own stays so until the next
\* switch.
LEMMA MineGrows ==
    ASSUME Inv, Next
    PROVE  /\ defaults \subseteq defaults' /\ default'.app \in defaults'
           /\ fg' = fg => Mine \subseteq Mine' /\ fg \in Mine'
           /\ defaults' \subseteq Mine'
<1>1. CASE InitDefault BY <1>1 DEF InitDefault, Mine
<1>2. CASE Stop \/ Crash \/ Reboot
  BY <1>2, InitialRecords DEF Stop, Crash, Reboot, Lose, Mine, Inv, OwnOnTheWay
<1>3. ASSUME ~InitDefault, ~(Stop \/ Crash \/ Reboot) PROVE UNCHANGED defaultVars
  BY <1>3 DEF Next, SystemStep, UserStep, WatchStep, SyncStep, Watch,
     WatchCheckUserLoggedIn, WatchCopy, PersistSelectionConfig, SaveDefault, HandleUserSwitched, SyncCheckUserLoggedIn,
     GetSysParameters, LoadDatabaseSelectionConfig, Compare, SyncConfigToDatabase,
     WriteSwitch, WriteApp, WriteUid, ProcessSyncResult, EndSync, Start,
     SetSwitch, SetApp, SwitchUser, serviceVars, syncVars
<1> QED BY <1>1, <1>2, <1>3 DEF defaultVars, Mine, Inv, OwnOnTheWay

LEMMA RowIsMine ==
    ASSUME Inv, fg # NoUser, db[fg] # NoRow
    PROVE  db[fg].app \in Mine
BY Constants DEF Inv, TypeOK, RowsAreOwn, Mine

LEMMA CompareIsMine ==
    ASSUME Inv, Compare
    PROVE  result'.config.app \in Mine
<1> USE DEF Inv, Compare, KnowsUser, Reading, OwnOnTheWay
<1>1. userId_ = fg OBVIOUS
<1>2. CASE dbRead = NoRow BY <1>2 DEF DoCompare, Mine
<1>3. CASE dbRead # NoRow /\ sysRead.uid # fg BY <1>1, <1>3 DEF DoCompare
<1>4. CASE dbRead # NoRow /\ sysRead.uid = fg
  <2>1. Settings(sysRead).app = sysRead.app BY SettingsOf DEF TypeOK
  <2> QED BY <1>1, <1>4, <2>1 DEF DoCompare
<1> QED BY <1>2, <1>3, <1>4

LEMMA OwnOnTheWayStep == ASSUME Inv, Next, haste' = 0 PROVE OwnOnTheWay'
<1> USE DEF Inv, OwnOnTheWay, Reading, Applying,
    userVars, samgrVars, eventVars, dbVars, watchVars, readVars, defaultVars, syncVars,
    lifeVars, serviceVars
<1>0. /\ defaults \subseteq defaults' /\ default'.app \in defaults'
      /\ fg' = fg => Mine \subseteq Mine' /\ fg \in Mine'
      /\ defaults' \subseteq Mine'
  BY MineGrows
<1>1. CASE SetSwitch
  BY <1>0, <1>1, SwitchWritten, ParametersFields DEF SetSwitch, SetEnabled, TypeOK
<1>2. CASE SetApp
  BY <1>0, <1>2, AppWritten, Constants DEF SetApp, SetApplicationInfo, TypeOK
<1>3. CASE SwitchUser
  BY <1>0, <1>3, SwitchWhenIdle DEF SwitchUser
<1>4. CASE Watch
  BY <1>0, <1>4 DEF Watch
<1>5. CASE WatchCheckUserLoggedIn
  BY <1>0, <1>5 DEF WatchCheckUserLoggedIn
<1>6. CASE WatchCopy
  BY <1>0, <1>6 DEF WatchCopy
<1>7. CASE PersistSelectionConfig
  BY <1>0, <1>7 DEF PersistSelectionConfig
<1>8. CASE InitDefault
  BY <1>0, <1>8 DEF InitDefault
<1>9. CASE SaveDefault
  BY <1>0, <1>9 DEF SaveDefault
<1>10. CASE HandleUserSwitched
  BY <1>0, <1>10 DEF HandleUserSwitched
<1>11. CASE SyncCheckUserLoggedIn
  BY <1>0, <1>11 DEF SyncCheckUserLoggedIn
<1>12. CASE GetSysParameters
  BY <1>0, <1>12 DEF GetSysParameters
<1>13. CASE LoadDatabaseSelectionConfig
  BY <1>0, <1>13, RowIsMine
     DEF LoadDatabaseSelectionConfig, GetOneByUserId, Fail, Row, KnowsUser, Reading
<1>14. CASE Compare
  BY <1>0, <1>14, CompareIsMine DEF Compare
<1>15. CASE SyncConfigToDatabase
  BY <1>0, <1>15 DEF SyncConfigToDatabase
<1>16. CASE WriteSwitch
  BY <1>0, <1>16, SwitchWritten, ResultFields, ConfigFields
     DEF WriteSwitch, SetEnabled, TypeOK
<1>17. CASE WriteApp
  BY <1>0, <1>17, AppWritten, ResultFields, ConfigFields
     DEF WriteApp, SetApplicationInfo, TypeOK
<1>18. CASE WriteUid
  BY <1>0, <1>18, UidWritten, ResultFields DEF WriteUid, TypeOK
<1>19. CASE ProcessSyncResult
  BY <1>0, <1>19, SwitchWritten DEF ProcessSyncResult, TypeOK
<1>20. CASE EndSync
  BY <1>0, <1>20 DEF EndSync
<1>21. CASE Start
  BY <1>0, <1>21 DEF Start
<1>22. CASE Stop
  BY <1>0, <1>22, InitialRecords DEF Stop, Lose
<1>23. CASE Crash
  BY <1>0, <1>23, InitialRecords DEF Crash, Lose
<1>24. CASE Reboot
  BY <1>0, <1>24, InitialRecords DEF Reboot, Lose, Mine
<1> QED
  BY <1>0, <1>1, <1>2, <1>3, <1>4, <1>5, <1>6, <1>7, <1>8, <1>9, <1>10, <1>11, <1>12,
     <1>13, <1>14, <1>15, <1>16, <1>17, <1>18, <1>19, <1>20, <1>21, <1>22, <1>23, <1>24
  DEF Next, SystemStep, UserStep, WatchStep, SyncStep

\* What is on its way stays of the kind it is when the defaults grow.
LEMMA ChangesStayMine ==
    ASSUME Inv, Next, fg' = fg, changes \in Seq(ChangesTo(Mine))
    PROVE  changes \in Seq(ChangesTo(Mine'))
<1>1. Mine \subseteq Mine' BY MineGrows
<1>2. ChangesTo(Mine) \subseteq ChangesTo(Mine') BY <1>1 DEF ChangesTo
<1> QED BY <1>2, SeqMonotonic

LEMMA OwnWatchedStep == ASSUME Inv, Next, haste' = 0 PROVE OwnWatched'
<1> USE DEF Inv, OwnWatched, Reading, Applying,
    userVars, samgrVars, eventVars, dbVars, watchVars, readVars, defaultVars, syncVars,
    lifeVars, serviceVars
<1>0. /\ defaults \subseteq defaults' /\ default'.app \in defaults'
      /\ fg' = fg => Mine \subseteq Mine' /\ fg \in Mine'
      /\ defaults' \subseteq Mine'
  BY MineGrows
<1>00. fg' = fg => changes \in Seq(ChangesTo(Mine'))
  BY ChangesStayMine DEF OwnWatched
<1>1. CASE SetSwitch
  BY <1>0, <1>00, <1>1, SetWhenOwn, SwitchWritten, SwitchTold, ParametersFields
     DEF SetSwitch, SetEnabled, TypeOK
<1>2. CASE SetApp
  BY <1>0, <1>00, <1>2, SetWhenOwn, AppWritten, AppTold, Constants
     DEF SetApp, SetApplicationInfo, TypeOK
<1>3. CASE SwitchUser
  BY <1>0, <1>00, <1>3, SwitchWhenIdle, NoChanges DEF SwitchUser, OwnOnTheWay
<1>4. CASE Watch
  BY <1>0, <1>00, <1>4, HeadChange, ConfigWith DEF Watch, TypeOK
<1>5. CASE WatchCheckUserLoggedIn
  BY <1>0, <1>00, <1>5 DEF WatchCheckUserLoggedIn
<1>6. CASE WatchCopy
  BY <1>0, <1>00, <1>6 DEF WatchCopy
<1>7. CASE PersistSelectionConfig
  BY <1>0, <1>00, <1>7 DEF PersistSelectionConfig
<1>8. CASE InitDefault
  BY <1>0, <1>00, <1>8 DEF InitDefault
<1>9. CASE SaveDefault
  BY <1>0, <1>00, <1>9 DEF SaveDefault
<1>10. CASE HandleUserSwitched
  BY <1>0, <1>00, <1>10 DEF HandleUserSwitched
<1>11. CASE SyncCheckUserLoggedIn
  BY <1>0, <1>00, <1>11 DEF SyncCheckUserLoggedIn
<1>12. CASE GetSysParameters
  BY <1>0, <1>00, <1>12 DEF GetSysParameters
<1>13. CASE LoadDatabaseSelectionConfig
  BY <1>0, <1>00, <1>13 DEF LoadDatabaseSelectionConfig
<1>14. CASE Compare
  BY <1>0, <1>00, <1>14, CompareIsMine DEF Compare
<1>15. CASE SyncConfigToDatabase
  BY <1>0, <1>00, <1>15 DEF SyncConfigToDatabase
<1>16. CASE WriteSwitch
  BY <1>0, <1>00, <1>16, SwitchWritten, SwitchTold, ResultFields, ConfigFields
     DEF WriteSwitch, SetEnabled, TypeOK
<1>17. CASE WriteApp
  BY <1>0, <1>00, <1>17, AppWritten, AppTold, ResultFields, ConfigFields
     DEF WriteApp, SetApplicationInfo, TypeOK, OwnOnTheWay
<1>18. CASE WriteUid
  BY <1>0, <1>00, <1>18, UidWritten, ResultFields DEF WriteUid, TypeOK
<1>19. CASE ProcessSyncResult
  BY <1>0, <1>00, <1>19, SwitchWritten, SwitchTold DEF ProcessSyncResult, TypeOK
<1>20. CASE EndSync
  BY <1>0, <1>00, <1>20, InitialChanges, ParametersFields
     DEF EndSync, TypeOK, KnowsUser, OwnOnTheWay
<1>21. CASE Start
  BY <1>0, <1>00, <1>21 DEF Start, Life
<1>22. CASE Stop
  BY <1>0, <1>00, <1>22, InitialRecords, NoChanges DEF Stop, Lose, OwnOnTheWay
<1>23. CASE Crash
  BY <1>0, <1>00, <1>23, InitialRecords, NoChanges DEF Crash, Lose, OwnOnTheWay
<1>24. CASE Reboot
  BY <1>0, <1>00, <1>24, InitialRecords, NoChanges DEF Reboot, Lose, OwnOnTheWay
<1> QED
  BY <1>0, <1>00, <1>1, <1>2, <1>3, <1>4, <1>5, <1>6, <1>7, <1>8, <1>9, <1>10, <1>11,
         <1>12,
     <1>13, <1>14, <1>15, <1>16, <1>17, <1>18, <1>19, <1>20, <1>21, <1>22, <1>23, <1>24
  DEF Next, SystemStep, UserStep, WatchStep, SyncStep

LEMMA RowsAreOwnStep == ASSUME Inv, Next, haste' = 0 PROVE RowsAreOwn'
<1> USE DEF Inv, RowsAreOwn,
    userVars, samgrVars, eventVars, dbVars, watchVars, readVars, defaultVars, syncVars,
    lifeVars, serviceVars
<1>0. /\ defaults \subseteq defaults' /\ default'.app \in defaults'
      /\ fg' = fg => Mine \subseteq Mine' /\ fg \in Mine'
      /\ defaults' \subseteq Mine'
  BY MineGrows
<1>1. CASE SetSwitch
  BY <1>0, <1>1 DEF SetSwitch
<1>2. CASE SetApp
  BY <1>0, <1>2 DEF SetApp
<1>3. CASE SwitchUser
  BY <1>0, <1>3 DEF SwitchUser
<1>4. CASE Watch
  BY <1>0, <1>4 DEF Watch
<1>5. CASE WatchCheckUserLoggedIn
  BY <1>0, <1>5 DEF WatchCheckUserLoggedIn
<1>6. CASE WatchCopy
  BY <1>0, <1>6 DEF WatchCopy
<1>7. CASE PersistSelectionConfig
  BY <1>0, <1>7, Constants
     DEF PersistSelectionConfig, Save, Fail, Row, OwnWatched, KnowsUser, TypeOK, Mine
<1>8. CASE InitDefault
  BY <1>0, <1>8 DEF InitDefault, GetOneByUserId, Fail, Row
<1>9. CASE SaveDefault
  BY <1>0, <1>9, Constants DEF SaveDefault, Save, Fail, Row, TypeOK
<1>10. CASE HandleUserSwitched
  BY <1>0, <1>10 DEF HandleUserSwitched
<1>11. CASE SyncCheckUserLoggedIn
  BY <1>0, <1>11 DEF SyncCheckUserLoggedIn
<1>12. CASE GetSysParameters
  BY <1>0, <1>12 DEF GetSysParameters
<1>13. CASE LoadDatabaseSelectionConfig
  BY <1>0, <1>13 DEF LoadDatabaseSelectionConfig, GetOneByUserId, Fail, Row
<1>14. CASE Compare
  BY <1>0, <1>14 DEF Compare
<1>15. CASE SyncConfigToDatabase
  BY <1>0, <1>15, Constants
     DEF SyncConfigToDatabase, Save, Fail, Row, OwnOnTheWay, KnowsUser, TypeOK, Mine, Applying
<1>16. CASE WriteSwitch
  BY <1>0, <1>16 DEF WriteSwitch
<1>17. CASE WriteApp
  BY <1>0, <1>17 DEF WriteApp
<1>18. CASE WriteUid
  BY <1>0, <1>18 DEF WriteUid
<1>19. CASE ProcessSyncResult
  BY <1>0, <1>19 DEF ProcessSyncResult
<1>20. CASE EndSync
  BY <1>0, <1>20 DEF EndSync
<1>21. CASE Start
  BY <1>0, <1>21 DEF Start
<1>22. CASE Stop
  BY <1>0, <1>22 DEF Stop, Lose
<1>23. CASE Crash
  BY <1>0, <1>23 DEF Crash, Lose
<1>24. CASE Reboot
  BY <1>0, <1>24 DEF Reboot, Lose
<1> QED
  BY <1>0, <1>1, <1>2, <1>3, <1>4, <1>5, <1>6, <1>7, <1>8, <1>9, <1>10, <1>11, <1>12,
     <1>13, <1>14, <1>15, <1>16, <1>17, <1>18, <1>19, <1>20, <1>21, <1>22, <1>23, <1>24
  DEF Next, SystemStep, UserStep, WatchStep, SyncStep

-----------------------------------------------------------------------------
(* The theorems. *)

LEMMA InitInv == Init => Inv
<1> SUFFICES ASSUME Init PROVE Inv OBVIOUS
<1>1. TypeOK BY InitType
<1>2. Life /\ KnowsUser BY InitialRecords DEF Init, Life, KnowsUser, Reading, Applying
<1>3. OwnOnTheWay /\ OwnWatched
  BY InitialRecords, NoChanges
     DEF Init, OwnOnTheWay, OwnWatched, Mine, Reading, Applying
<1>4. RowsAreOwn BY Constants DEF Init, RowsAreOwn
<1> QED BY <1>1, <1>2, <1>3, <1>4 DEF Inv

LEMMA TypeStutter == ASSUME TypeOK, UNCHANGED vars PROVE TypeOK'
BY DEF TypeOK, vars, userVars, samgrVars, eventVars, dbVars, watchVars, readVars,
       defaultVars, syncVars, lifeVars, serviceVars

LEMMA StutterKeepsInv == ASSUME Inv, UNCHANGED vars PROVE Inv'
BY DEF Inv, TypeOK, Life, KnowsUser, OwnOnTheWay, OwnWatched, RowsAreOwn, Mine, vars,
    userVars, samgrVars, eventVars, dbVars, watchVars, readVars, defaultVars, syncVars,
    lifeVars, serviceVars

LEMMA StepKeepsInv == ASSUME Inv, Next, haste' = 0 PROVE Inv'
BY TypeStep, LifeStep, KnowsUserStep, OwnOnTheWayStep, OwnWatchedStep, RowsAreOwnStep
   DEF Inv

LEMMA HasteStays == ASSUME TypeOK, [Next]_vars, haste' = 0 PROVE haste = 0
<1>1. CASE UserStep
  <2>1. PICK patient \in BOOLEAN : TakesTime(patient)
    <3>1. (~Occupied /\ (fg = NoUser \/ OwnSettings)) \in BOOLEAN /\ OwnSettings \in BOOLEAN
      BY DEF OwnSettings
    <3> QED BY <1>1, <3>1 DEF UserStep, SetSwitch, SetApp, SwitchUser
  <2> QED BY <2>1, NotHasty DEF TypeOK
<1>2. CASE SystemStep \/ UNCHANGED vars
  BY <1>2 DEF SystemStep, WatchStep, SyncStep, Watch, WatchCheckUserLoggedIn, WatchCopy,
     PersistSelectionConfig, InitDefault, SaveDefault, HandleUserSwitched,
     SyncCheckUserLoggedIn, GetSysParameters, LoadDatabaseSelectionConfig, Compare,
     SyncConfigToDatabase, WriteSwitch, WriteApp, WriteUid, ProcessSyncResult, EndSync,
     Start, Stop, Crash, Reboot, userVars, vars
<1> QED BY <1>1, <1>2 DEF Next

\* The settings keep their types, however hasty the users are.
THEOREM ConfigTypeCorrect == Spec => []TypeOK
<1>1. TypeOK /\ [Next]_vars => TypeOK' BY TypeStep, TypeStutter
<1> QED BY InitType, <1>1, PTL DEF Spec

\* The settings of one user never get into the row of another, as long as no one
\* acts before the settings are his own or switches while the service is occupied.
THEOREM ConfigRowsAreOwn == Spec => []PatientRowsAreOwn
<1> DEFINE HInv == TypeOK /\ (haste = 0 => Inv)
<1>1. Init => HInv BY InitType, InitInv
<1>2. HInv /\ [Next]_vars => HInv'
  BY TypeStep, TypeStutter, HasteStays, StepKeepsInv, StutterKeepsInv
<1>3. HInv => PatientRowsAreOwn BY DEF Inv, PatientRowsAreOwn
<1> QED BY <1>1, <1>2, <1>3, PTL DEF Spec

-----------------------------------------------------------------------------
(* What the service works with, and what is saved. *)

\* A user switch is synchronised before the next: until its uid is written, the
\* parameters are not the foreground user's; until its settings are, nothing is on
\* its way to the watchers.
Replacing == {"account", "save", "writeSwitch"} \cup {"readSys"} \cup Reading
Switching == Replacing \cup {"writeApp", "writeUid"}

OneSwitch ==
    /\ watching => sync \notin {"default", "saveDefault"}
    /\ switches > 0 => watching /\ sync = "idle" /\ switches = 1
    /\ watching /\ (switches > 0 \/ sync \in Switching) => sys.uid # fg
    /\ watching /\ (switches > 0 \/ sync \in Replacing) => watch = "idle" /\ changes = <<>>
    /\ watching /\ sync = "idle" /\ switches = 0 => sys.uid = fg

\* Once the changes in seq are applied, the field that holds old holds new.
EndsIn(seq, key, old, new) ==
    \/ \E i \in 1 .. Len(seq) :
          /\ seq[i].key = key /\ seq[i].value = new
          /\ \A j \in (i + 1) .. Len(seq) : seq[j].key # key
    \/ old = new /\ \A j \in 1 .. Len(seq) : seq[j].key # key

\* With the changes on its way to it, the memory is the parameters, or what they are
\* about to be set to.
Following ==
    /\ watching /\ sync \in {"save", "writeSwitch"} => mem = result.config
    /\ watching /\ sync \notin {"save", "writeSwitch"} =>
         /\ EndsIn(changes, "switch", mem.enable, sys.enable)
         /\ EndsIn(changes, "app", mem.app,
                   IF sync = "writeApp" THEN result.config.app ELSE sys.app)

\* The row is the memory, unless the memory is about to be saved or the row could
\* not be saved.
Saved ==
    /\ watch = "save" => copied = mem
    /\ watching /\ sync = "compare" /\ dbRead # NoRow => db[fg] = dbRead.config
    /\ watching /\ switches = 0 /\ sync \notin Replacing \ {"writeSwitch"}
       /\ watch = "idle" /\ changes = <<>> /\ fg # NoUser
       => db[fg] = mem \/ fg \in unsaved

QuietInv == Inv /\ OneSwitch /\ Following /\ Saved

\* A parameter that is told of ends in what was told, and one that is written with the
\* value it has is not told of.
LEMMA Told ==
    ASSUME NEW S, changes \in Seq(S), NEW key, NEW old, NEW new, NEW field,
           [key |-> key, value |-> new] \in S,
           Tell(key, old, new), watching, old = new => EndsIn(changes, key, field, new)
    PROVE  EndsIn(changes', key, field, new)
<1>1. CASE old = new BY <1>1 DEF Tell
<1>2. CASE old # new
  <2> DEFINE change == [key |-> key, value |-> new]
  <2>1. changes' = Append(changes, change) BY <1>2 DEF Tell
  <2>2. Len(changes') = Len(changes) + 1 /\ changes'[Len(changes) + 1] = change
    BY <2>1, AppendProperties
  <2>3. Len(changes) \in Nat BY LenProperties
  <2>4. \A j \in (Len(changes') + 1) .. Len(changes') : FALSE BY <2>2, <2>3
  <2> QED BY <2>2, <2>3, <2>4 DEF EndsIn
<1> QED BY <1>1, <1>2

\* Telling of one parameter says nothing of the other.
LEMMA ToldOther ==
    ASSUME NEW S, changes \in Seq(S), NEW key, NEW old, NEW new,
           [key |-> key, value |-> new] \in S, Tell(key, old, new),
           NEW other, other # key, NEW field, NEW value, EndsIn(changes, other, field, value)
    PROVE  EndsIn(changes', other, field, value)
<1>1. CASE changes' = changes BY <1>1
<1>2. CASE changes' = Append(changes, [key |-> key, value |-> new])
  <2>1. /\ Len(changes') = Len(changes) + 1
        /\ \A i \in 1 .. Len(changes) : changes'[i] = changes[i]
        /\ changes'[Len(changes) + 1].key = key
    BY <1>2, AppendProperties
  <2>2. Len(changes) \in Nat BY LenProperties
  <2> QED BY <2>1, <2>2 DEF EndsIn
<1> QED BY <1>1, <1>2 DEF Tell

\* Applying the first change gets nearer to the same end.
LEMMA Applied ==
    ASSUME NEW S, NEW seq \in Seq(S), seq # <<>>, NEW key, NEW old, NEW new,
           EndsIn(seq, key, old, new)
    PROVE  EndsIn(Tail(seq), key, IF Head(seq).key = key THEN Head(seq).value ELSE old, new)
<1>1. /\ Len(seq) \in Nat /\ Len(Tail(seq)) = Len(seq) - 1 /\ Head(seq) = seq[1]
      /\ \A i \in 1 .. Len(Tail(seq)) : Tail(seq)[i] = seq[i + 1]
  BY HeadTailProperties, LenProperties
<1>2. Len(seq) > 0 BY <1>1, EmptySeq
<1>3. \A j \in 1 .. Len(Tail(seq)) : j + 1 \in 2 .. Len(seq) /\ Tail(seq)[j] = seq[j + 1]
  BY <1>1
<1>4. CASE \A j \in 2 .. Len(seq) : seq[j].key # key
  <2>1. \A j \in 1 .. Len(Tail(seq)) : Tail(seq)[j].key # key BY <1>3, <1>4
  <2>2. (IF Head(seq).key = key THEN Head(seq).value ELSE old) = new
    BY <1>1, <1>2, <1>4 DEF EndsIn
  <2> QED BY <2>1, <2>2 DEF EndsIn
<1>5. CASE \E k \in 2 .. Len(seq) : seq[k].key = key
  <2>1. PICK i \in 1 .. Len(seq) : /\ seq[i].key = key /\ seq[i].value = new
                                   /\ \A j \in (i + 1) .. Len(seq) : seq[j].key # key
    BY <1>1, <1>5 DEF EndsIn
  <2>2. i # 1 BY <2>1, <1>5
  <2>3. i - 1 \in 1 .. Len(Tail(seq)) /\ Tail(seq)[i - 1] = seq[i] BY <2>1, <2>2, <1>1
  <2>4. \A j \in ((i - 1) + 1) .. Len(Tail(seq)) : Tail(seq)[j].key # key
    BY <2>1, <1>1
  <2> QED BY <2>1, <2>3, <2>4 DEF EndsIn
<1> QED BY <1>4, <1>5

LEMMA NothingLost ==
    ASSUME NEW S, changes \in Seq(S), NEW key, NEW old, NEW new,
           [key |-> key, value |-> new] \in S, Tell(key, old, new), changes' = <<>>
    PROVE  changes = <<>>
<1>1. Append(changes, [key |-> key, value |-> new]) # <<>> BY AppendProperties
<1> QED BY <1>1 DEF Tell

LEMMA NothingTold ==
    ASSUME NEW key, NEW old, NEW new
    PROVE  EndsIn(<<>>, key, old, new) <=> old = new
BY DEF EndsIn

\* A new watcher is told what the parameters are.
LEMMA FirstTold ==
    ASSUME NEW on, NEW app, NEW on0, NEW app0
    PROVE  LET seq == <<[key |-> "switch", value |-> on], [key |-> "app", value |-> app]>>
           IN  EndsIn(seq, "switch", on0, on) /\ EndsIn(seq, "app", app0, app)
<1> DEFINE seq == <<[key |-> "switch", value |-> on], [key |-> "app", value |-> app]>>
<1>1. Len(seq) = 2 /\ seq[1] = [key |-> "switch", value |-> on]
      /\ seq[2] = [key |-> "app", value |-> app]
  OBVIOUS
<1>2. 1 \in 1 .. Len(seq) /\ 2 \in 1 .. Len(seq) BY <1>1
<1>3. \A j \in (2 + 1) .. Len(seq) : FALSE BY <1>1
<1>4. \A j \in (1 + 1) .. Len(seq) : seq[j].key # "switch" BY <1>1
<1> HIDE DEF seq
<1> QED BY <1>1, <1>2, <1>3, <1>4 DEF EndsIn, seq

\* The changes on their way, and what is told next, are changes.
LEMMA ChangesAre ==
    ASSUME TypeOK
    PROVE  /\ changes \in Seq(ChangesTo(Apps))
           /\ \A b \in BOOLEAN : [key |-> "switch", value |-> b] \in ChangesTo(Apps)
           /\ \A a \in Apps : [key |-> "app", value |-> a] \in ChangesTo(Apps)
BY DEF TypeOK, ChangesTo

LEMMA SettingsAre ==
    ASSUME NEW c \in Config, NEW s \in Parameters, c.enable = s.enable, c.app = s.app
    PROVE  c = Settings(s)
BY DEF Config, Parameters, Settings

LEMMA OneSwitchStep == ASSUME QuietInv, Next, haste' = 0 PROVE OneSwitch'
<1> USE DEF QuietInv, OneSwitch, Replacing, Switching, Reading,
    userVars, samgrVars, eventVars, dbVars, watchVars, readVars, defaultVars, syncVars,
    lifeVars, serviceVars
<1>1. CASE SetSwitch
  BY <1>1, SetWhenOwn, SwitchWritten, ParametersFields
     DEF SetSwitch, SetEnabled, Inv, TypeOK
<1>2. CASE SetApp
  BY <1>2, SetWhenOwn, AppWritten, Constants DEF SetApp, SetApplicationInfo, Inv, TypeOK
<1>3. CASE SwitchUser
  BY <1>3, SwitchWhenIdle DEF SwitchUser, OwnSettings, Inv, Life, TypeOK, KnowsUser
<1>4. CASE Watch
  BY <1>4 DEF Watch
<1>5. CASE WatchCheckUserLoggedIn
  BY <1>5 DEF WatchCheckUserLoggedIn
<1>6. CASE WatchCopy
  BY <1>6 DEF WatchCopy
<1>7. CASE PersistSelectionConfig
  BY <1>7 DEF PersistSelectionConfig
<1>8. CASE InitDefault
  BY <1>8 DEF InitDefault
<1>9. CASE SaveDefault
  BY <1>9 DEF SaveDefault
<1>10. CASE HandleUserSwitched
  BY <1>10 DEF HandleUserSwitched, Inv, TypeOK
<1>11. CASE SyncCheckUserLoggedIn
  BY <1>11 DEF SyncCheckUserLoggedIn, LoadAccountLocalId, Inv, KnowsUser
<1>12. CASE GetSysParameters
  BY <1>12 DEF GetSysParameters
<1>13. CASE LoadDatabaseSelectionConfig
  BY <1>13 DEF LoadDatabaseSelectionConfig
<1>14. CASE Compare
  BY <1>14 DEF Compare, DoCompare
<1>15. CASE SyncConfigToDatabase
  BY <1>15 DEF SyncConfigToDatabase
<1>16. CASE WriteSwitch
  BY <1>16, SwitchWritten, ResultFields, ConfigFields
     DEF WriteSwitch, SetEnabled, Inv, TypeOK
<1>17. CASE WriteApp
  BY <1>17, AppWritten, ResultFields, ConfigFields
     DEF WriteApp, SetApplicationInfo, Inv, TypeOK
<1>18. CASE WriteUid
  BY <1>18 DEF WriteUid
<1>19. CASE ProcessSyncResult
  BY <1>19, SwitchWritten DEF ProcessSyncResult, Inv, TypeOK
<1>20. CASE EndSync
  BY <1>20 DEF EndSync, Inv, KnowsUser, TypeOK
<1>21. CASE Start
  BY <1>21 DEF Start, Inv, Life
<1>22. CASE Stop
  BY <1>22 DEF Stop, Lose
<1>23. CASE Crash
  BY <1>23 DEF Crash, Lose
<1>24. CASE Reboot
  BY <1>24 DEF Reboot, Lose
<1> QED
  BY <1>1, <1>2, <1>3, <1>4, <1>5, <1>6, <1>7, <1>8, <1>9, <1>10, <1>11, <1>12,
     <1>13, <1>14, <1>15, <1>16, <1>17, <1>18, <1>19, <1>20, <1>21, <1>22, <1>23, <1>24
  DEF Next, SystemStep, UserStep, WatchStep, SyncStep

\* Whoever writes the switch or the application tells the watchers.
LEMMA SwitchFollowed ==
    ASSUME Inv, watching, NEW on \in BOOLEAN, Tell("switch", sys.enable, on), NEW app,
           EndsIn(changes, "switch", mem.enable, sys.enable), EndsIn(changes, "app", mem.app, app)
    PROVE  EndsIn(changes', "switch", mem.enable, on) /\ EndsIn(changes', "app", mem.app, app)
<1>1. changes \in Seq(ChangesTo(Apps)) /\ [key |-> "switch", value |-> on] \in ChangesTo(Apps)
  BY ChangesAre DEF Inv
<1>2. EndsIn(changes', "switch", mem.enable, on) BY <1>1, Told
<1>3. EndsIn(changes', "app", mem.app, app) BY <1>1, ToldOther
<1> QED BY <1>2, <1>3

LEMMA AppFollowed ==
    ASSUME Inv, watching, NEW app \in Apps, Tell("app", sys.app, app), NEW on,
           EndsIn(changes, "app", mem.app, sys.app), EndsIn(changes, "switch", mem.enable, on)
    PROVE  EndsIn(changes', "app", mem.app, app) /\ EndsIn(changes', "switch", mem.enable, on)
<1>1. changes \in Seq(ChangesTo(Apps)) /\ [key |-> "app", value |-> app] \in ChangesTo(Apps)
  BY ChangesAre DEF Inv
<1>2. EndsIn(changes', "app", mem.app, app) BY <1>1, Told
<1>3. EndsIn(changes', "switch", mem.enable, on) BY <1>1, ToldOther
<1> QED BY <1>2, <1>3

LEMMA WatchFollows ==
    ASSUME Inv, Watch, NEW on, NEW app,
           EndsIn(changes, "switch", mem.enable, on), EndsIn(changes, "app", mem.app, app)
    PROVE  EndsIn(changes', "switch", mem'.enable, on) /\ EndsIn(changes', "app", mem'.app, app)
<1> DEFINE change == Head(changes)
<1>1. changes \in Seq(ChangesTo(Apps)) /\ changes # <<>> /\ changes' = Tail(changes)
  BY ChangesAre DEF Inv, Watch
<1>2. change \in ChangesTo(Apps) BY <1>1, HeadTailProperties
<1>3. change.key = "switch" \/ change.key = "app" BY <1>2 DEF ChangesTo
<1>4. /\ mem'.enable = IF change.key = "switch" THEN change.value ELSE mem.enable
      /\ mem'.app = IF change.key = "app" THEN change.value ELSE mem.app
  BY <1>3 DEF Watch, Inv, TypeOK, Config
<1>5. EndsIn(Tail(changes), "switch", mem'.enable, on) BY <1>1, <1>4, Applied
<1>6. EndsIn(Tail(changes), "app", mem'.app, app) BY <1>1, <1>4, Applied
<1> QED BY <1>1, <1>5, <1>6

\* A synchronisation that watchers are told of is that of a switch: it does not keep
\* the parameters it read.
LEMMA SwitchReplaces ==
    ASSUME QuietInv, Compare, watching
    PROVE  /\ result'.direction \in {"create", "toSys"}
           /\ result'.direction = "toSys" => dbRead # NoRow /\ result'.config = dbRead.config
<1>1. sysRead.uid # userId_
  BY DEF QuietInv, Inv, KnowsUser, OneSwitch, Switching, Replacing, Reading, Compare
<1> QED BY <1>1 DEF Compare, DoCompare

LEMMA FollowingStep == ASSUME QuietInv, Next, haste' = 0 PROVE Following'
<1> USE DEF QuietInv, Following,
    userVars, samgrVars, eventVars, dbVars, watchVars, readVars, defaultVars, syncVars,
    lifeVars, serviceVars
<1>1. CASE SetSwitch
  <2>1. sys.uid = fg /\ SetEnabled(~sys.enable) /\ sys.enable \in BOOLEAN
        /\ UNCHANGED <<mem, watching, sync, result>>
    BY <1>1, SetWhenOwn, ParametersFields DEF SetSwitch, Inv, TypeOK
  <2>2. watching => sync \notin {"save", "writeSwitch", "writeApp"}
    BY <2>1 DEF OneSwitch, Switching, Replacing
  <2>3. sys'.enable = ~sys.enable /\ sys'.app = sys.app /\ Tell("switch", sys.enable, ~sys.enable)
    BY <2>1 DEF SetEnabled, Inv, TypeOK, Parameters
  <2> QED BY <2>1, <2>2, <2>3, SwitchFollowed
<1>2. CASE SetApp
  <2>1. sys.uid = fg /\ SetApplicationInfo(fg) /\ fg \in Apps
        /\ UNCHANGED <<mem, watching, sync, result>>
    BY <1>2, SetWhenOwn, Constants DEF SetApp, Inv, TypeOK
  <2>2. watching => sync \notin {"save", "writeSwitch", "writeApp"}
    BY <2>1 DEF OneSwitch, Switching, Replacing
  <2>3. sys'.enable = sys.enable /\ sys'.app = fg /\ Tell("app", sys.app, fg)
    BY <2>1 DEF SetApplicationInfo, Inv, TypeOK, Parameters
  <2> QED BY <2>1, <2>2, <2>3, AppFollowed
<1>3. CASE SwitchUser
  BY <1>3 DEF SwitchUser
<1>4. CASE Watch
  <2>1. watching /\ changes # <<>> /\ UNCHANGED <<sys, watching, sync, result>>
    BY <1>4 DEF Watch
  <2>2. sync \notin {"save", "writeSwitch"} BY <2>1 DEF OneSwitch, Replacing
  <2> QED BY <1>4, <2>1, <2>2, WatchFollows
<1>5. CASE WatchCheckUserLoggedIn
  BY <1>5 DEF WatchCheckUserLoggedIn
<1>6. CASE WatchCopy
  BY <1>6 DEF WatchCopy
<1>7. CASE PersistSelectionConfig
  BY <1>7 DEF PersistSelectionConfig
<1>8. CASE InitDefault
  BY <1>8 DEF InitDefault, OneSwitch
<1>9. CASE SaveDefault
  BY <1>9 DEF SaveDefault, OneSwitch
<1>10. CASE HandleUserSwitched
  BY <1>10 DEF HandleUserSwitched
<1>11. CASE SyncCheckUserLoggedIn
  BY <1>11 DEF SyncCheckUserLoggedIn
<1>12. CASE GetSysParameters
  BY <1>12 DEF GetSysParameters
<1>13. CASE LoadDatabaseSelectionConfig
  BY <1>13 DEF LoadDatabaseSelectionConfig
<1>14. CASE Compare
  BY <1>14, SwitchReplaces DEF Compare
<1>15. CASE SyncConfigToDatabase
  <2>1. watching => result.direction = "create"
    BY <1>15 DEF SyncConfigToDatabase, OneSwitch, Switching, Replacing, Inv, KnowsUser
  <2> QED BY <1>15, <2>1 DEF SyncConfigToDatabase
<1>16. CASE WriteSwitch
  <2>1. /\ sync = "writeSwitch" /\ sync' = "writeApp" /\ SetEnabled(result.config.enable)
        /\ result.config \in Config /\ result.config.enable \in BOOLEAN
        /\ UNCHANGED <<mem, watching, result>>
    BY <1>16, ResultFields, ConfigFields DEF WriteSwitch, Inv, TypeOK
  <2> SUFFICES ASSUME watching
               PROVE  /\ EndsIn(changes', "switch", mem.enable, sys'.enable)
                      /\ EndsIn(changes', "app", mem.app, result.config.app)
    BY <2>1
  <2>2. mem = result.config /\ changes = <<>> BY <2>1 DEF OneSwitch, Replacing
  <2>3. /\ sys'.enable = result.config.enable
        /\ Tell("switch", sys.enable, result.config.enable)
    BY <2>1 DEF SetEnabled, Inv, TypeOK, Parameters
  <2>4. EndsIn(changes', "app", mem.app, result.config.app)
    BY <2>1, <2>2, <2>3, ToldOther, NothingTold, ChangesAre DEF Inv
  <2>5. EndsIn(changes', "switch", mem.enable, result.config.enable)
    <3>1. EndsIn(changes, "switch", mem.enable, result.config.enable)
      BY <2>2, NothingTold
    <3>2. /\ changes \in Seq(ChangesTo(Apps))
          /\ [key |-> "switch", value |-> result.config.enable] \in ChangesTo(Apps)
      BY <2>1, ChangesAre DEF Inv
    <3> QED BY <2>3, <3>1, <3>2, Told
  <2> QED BY <2>3, <2>4, <2>5
<1>17. CASE WriteApp
  <2>1. /\ sync = "writeApp" /\ sync' = "writeUid" /\ SetApplicationInfo(result.config.app)
        /\ result.config.app \in Apps
        /\ UNCHANGED <<mem, watching, result>>
    BY <1>17, ResultFields, ConfigFields DEF WriteApp, Inv, TypeOK
  <2> SUFFICES ASSUME watching
               PROVE  /\ EndsIn(changes', "switch", mem.enable, sys'.enable)
                      /\ EndsIn(changes', "app", mem.app, sys'.app)
    BY <2>1
  <2>2. /\ EndsIn(changes, "switch", mem.enable, sys.enable)
        /\ EndsIn(changes, "app", mem.app, result.config.app)
    BY <2>1
  <2>3. /\ sys'.enable = sys.enable /\ sys'.app = result.config.app
        /\ Tell("app", sys.app, result.config.app)
    BY <2>1 DEF SetApplicationInfo, Inv, TypeOK, Parameters
  <2>4. EndsIn(changes', "switch", mem.enable, sys.enable)
    BY <2>1, <2>2, <2>3, ToldOther, ChangesAre DEF Inv
  <2>5. EndsIn(changes', "app", mem.app, result.config.app)
    BY <2>1, <2>2, <2>3, Told, ChangesAre DEF Inv
  <2> QED BY <2>3, <2>4, <2>5
<1>18. CASE WriteUid
  BY <1>18, UidWritten, ResultFields DEF WriteUid, Inv, TypeOK, Parameters
<1>19. CASE ProcessSyncResult
  <2>1. /\ sync = "finish" /\ sync' = "done" /\ UNCHANGED <<mem, watching>>
        /\ sys.enable \in BOOLEAN
    BY <1>19, ParametersFields DEF ProcessSyncResult, Inv, TypeOK
  <2>2. CASE result.stop
    <3>1. /\ sys'.enable = FALSE /\ sys'.app = sys.app /\ Tell("switch", sys.enable, FALSE)
      BY <1>19, <2>2 DEF ProcessSyncResult, Inv, TypeOK, Parameters
    <3> QED BY <2>1, <3>1, SwitchFollowed
  <2>3. CASE ~result.stop
    BY <1>19, <2>1, <2>3 DEF ProcessSyncResult
  <2> QED BY <2>2, <2>3
<1>20. CASE EndSync
  BY <1>20, FirstTold DEF EndSync
<1>21. CASE Start
  BY <1>21 DEF Start, Inv, Life
<1>22. CASE Stop
  BY <1>22 DEF Stop, Lose
<1>23. CASE Crash
  BY <1>23 DEF Crash, Lose
<1>24. CASE Reboot
  BY <1>24 DEF Reboot, Lose
<1> QED
  BY <1>1, <1>2, <1>3, <1>4, <1>5, <1>6, <1>7, <1>8, <1>9, <1>10, <1>11, <1>12,
     <1>13, <1>14, <1>15, <1>16, <1>17, <1>18, <1>19, <1>20, <1>21, <1>22, <1>23, <1>24
  DEF Next, SystemStep, UserStep, WatchStep, SyncStep

LEMMA SavedStep == ASSUME QuietInv, Next, haste' = 0 PROVE Saved'
<1> USE DEF QuietInv, Saved, Replacing, Reading,
    userVars, samgrVars, eventVars, dbVars, watchVars, readVars, defaultVars, syncVars,
    lifeVars, serviceVars
<1>1. CASE SetSwitch
  BY <1>1, SetWhenOwn DEF SetSwitch, SetEnabled, Tell, OneSwitch, Switching, Inv, TypeOK
<1>2. CASE SetApp
  BY <1>2, SetWhenOwn DEF SetApp, SetApplicationInfo, Tell, OneSwitch, Switching, Inv, TypeOK
<1>3. CASE SwitchUser
  BY <1>3, SwitchWhenIdle DEF SwitchUser, Inv, TypeOK
<1>4. CASE Watch
  BY <1>4 DEF Watch
<1>5. CASE WatchCheckUserLoggedIn
  BY <1>5 DEF WatchCheckUserLoggedIn, LoadAccountLocalId
<1>6. CASE WatchCopy
  BY <1>6 DEF WatchCopy
<1>7. CASE PersistSelectionConfig
  BY <1>7, Constants
     DEF PersistSelectionConfig, Save, Fail, OneSwitch, Inv, KnowsUser, TypeOK
<1>8. CASE InitDefault
  BY <1>8 DEF InitDefault, OneSwitch
<1>9. CASE SaveDefault
  BY <1>9 DEF SaveDefault, OneSwitch, Inv, Life
<1>10. CASE HandleUserSwitched
  BY <1>10 DEF HandleUserSwitched
<1>11. CASE SyncCheckUserLoggedIn
  BY <1>11 DEF SyncCheckUserLoggedIn, LoadAccountLocalId
<1>12. CASE GetSysParameters
  BY <1>12 DEF GetSysParameters
<1>13. CASE LoadDatabaseSelectionConfig
  BY <1>13 DEF LoadDatabaseSelectionConfig, GetOneByUserId, Inv, KnowsUser
<1>14. CASE Compare
  BY <1>14, SwitchReplaces DEF Compare, OneSwitch, Inv, Life
<1>15. CASE SyncConfigToDatabase
  BY <1>15, Constants
     DEF SyncConfigToDatabase, Save, Fail, OneSwitch, Following, Switching, Inv,
         KnowsUser, Applying, TypeOK
<1>16. CASE WriteSwitch
  BY <1>16 DEF WriteSwitch, SetEnabled, Tell, OneSwitch
<1>17. CASE WriteApp
  BY <1>17 DEF WriteApp, SetApplicationInfo, Tell, OneSwitch
<1>18. CASE WriteUid
  BY <1>18 DEF WriteUid
<1>19. CASE ProcessSyncResult
  <2>1. /\ sync = "finish" /\ sync' = "done" /\ (changes' = <<>> => changes = <<>>)
        /\ UNCHANGED <<fg, db, unsaved, switches, mem, watch, copied, watching>>
    <3>1. CASE result.stop
      <4>1. /\ changes \in Seq(ChangesTo(Apps))
            /\ [key |-> "switch", value |-> FALSE] \in ChangesTo(Apps)
        BY ChangesAre DEF Inv
      <4>2. Tell("switch", sys.enable, FALSE) BY <1>19, <3>1 DEF ProcessSyncResult
      <4>3. changes' = <<>> => changes = <<>> BY <4>1, <4>2, NothingLost
      <4> QED BY <1>19, <4>3 DEF ProcessSyncResult
    <3>2. CASE ~result.stop BY <1>19, <3>2 DEF ProcessSyncResult
    <3> QED BY <3>1, <3>2
  <2> QED BY <2>1
<1>20. CASE EndSync
  BY <1>20 DEF EndSync
<1>21. CASE Start
  BY <1>21 DEF Start, Inv, Life
<1>22. CASE Stop
  BY <1>22 DEF Stop, Lose
<1>23. CASE Crash
  BY <1>23 DEF Crash, Lose
<1>24. CASE Reboot
  BY <1>24 DEF Reboot, Lose
<1> QED
  BY <1>1, <1>2, <1>3, <1>4, <1>5, <1>6, <1>7, <1>8, <1>9, <1>10, <1>11, <1>12,
     <1>13, <1>14, <1>15, <1>16, <1>17, <1>18, <1>19, <1>20, <1>21, <1>22, <1>23, <1>24
  DEF Next, SystemStep, UserStep, WatchStep, SyncStep

LEMMA InitQuiet == Init => QuietInv
<1> SUFFICES ASSUME Init PROVE QuietInv OBVIOUS
<1>1. OneSwitch /\ Following /\ Saved
  BY DEF Init, OneSwitch, Following, Saved, Replacing, Switching, Reading
<1> QED BY <1>1, InitInv DEF QuietInv

LEMMA StutterKeepsQuiet == ASSUME QuietInv, UNCHANGED vars PROVE QuietInv'
<1>1. Inv' BY StutterKeepsInv DEF QuietInv
<1>2. OneSwitch' /\ Following' /\ Saved'
  BY DEF QuietInv, OneSwitch, Following, Saved, Replacing, Switching, vars,
    userVars, samgrVars, eventVars, dbVars, watchVars, readVars, defaultVars, syncVars,
    lifeVars, serviceVars
<1> QED BY <1>1, <1>2 DEF QuietInv

LEMMA StepKeepsQuiet == ASSUME QuietInv, Next, haste' = 0 PROVE QuietInv'
BY StepKeepsInv, OneSwitchStep, FollowingStep, SavedStep DEF QuietInv

\* As long as the users take their time: when all is quiet the service works with the
\* parameters, and they are the foreground user's, however the watchers and a
\* synchronisation interleave.
THEOREM ConfigSettingsEffective == Spec => []SettingsAreEffective
<1> DEFINE HInv == TypeOK /\ (haste = 0 => QuietInv)
<1>0. Init => HInv BY InitType, InitQuiet
<1>1. HInv /\ [Next]_vars => HInv'
  BY TypeStep, TypeStutter, HasteStays, StepKeepsQuiet, StutterKeepsQuiet
<1>2. ASSUME QuietInv, AtRest PROVE OwnSettings /\ mem = Settings(sys)
  <2>1. watching /\ sync = "idle" /\ changes = <<>> /\ switches = 0
    BY <1>2 DEF AtRest, Occupied
  <2>2. OwnSettings BY <1>2, <2>1 DEF QuietInv, OneSwitch, OwnSettings
  <2>3. mem.enable = sys.enable /\ mem.app = sys.app
    BY <1>2, <2>1, NothingTold DEF QuietInv, Following
  <2>4. mem = Settings(sys) BY <1>2, <2>3, SettingsAre DEF QuietInv, Inv, TypeOK
  <2> QED BY <2>2, <2>4
<1>3. HInv => SettingsAreEffective BY <1>2 DEF SettingsAreEffective
<1> QED BY <1>0, <1>1, <1>3, PTL DEF Spec

\* As long as the users take their time: when all is quiet the foreground user's row is
\* what the service works with, unless the latest save of it failed.
THEOREM ConfigSettingsPersistent == Spec => []SettingsArePersistent
<1> DEFINE HInv == TypeOK /\ (haste = 0 => QuietInv)
<1>0. Init => HInv BY InitType, InitQuiet
<1>1. HInv /\ [Next]_vars => HInv'
  BY TypeStep, TypeStutter, HasteStays, StepKeepsQuiet, StutterKeepsQuiet
<1>2. ASSUME QuietInv, AtRest PROVE db[fg] = mem \/ fg \in unsaved
  <2>1. /\ watching /\ sync = "idle" /\ watch = "idle" /\ changes = <<>>
        /\ switches = 0 /\ fg # NoUser
    BY <1>2 DEF AtRest, Occupied
  <2> QED BY <1>2, <2>1 DEF QuietInv, Saved, Replacing, Reading
<1>3. HInv => SettingsArePersistent BY <1>2 DEF SettingsArePersistent
<1> QED BY <1>0, <1>1, <1>3, PTL DEF Spec
=============================================================================
