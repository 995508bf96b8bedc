----------------------------- MODULE PluginModules -----------------------------
(***************************************************************************)
(* What happens inside the plugin library: plugin_exports.cpp creates a    *)
(* module (database, pasteboard, ability manager) when it is first used    *)
(* and PluginCleanupAll drops them all before the library is unloaded; the *)
(* database module keeps one row per user in a relational store.           *)
(*                                                                         *)
(* A call into the library loads it, takes pluginMutex_ shared and keeps   *)
(* it until the end; loading and unloading take it alone.  Each module has *)
(* a mutex for its creation, the database module another, databaseMutex_,  *)
(* for a whole transaction.  The timer that unloads is in PluginTimer,     *)
(* what the service does with a row in ConfigSync.                         *)
(***************************************************************************)
EXTENDS Naturals

CONSTANTS
  PluginCallers,   \* threads of the service that use the plugin
  RowUids,         \* users
  RowValues        \* configurations

\* The service saves rows of users only.
ASSUME ModulesAssumption == RowUids # {}

VARIABLES
  libraryLoaded,   \* pluginSo_
  readyModules,    \* g_databaseInitialized, g_pasteboardInitialized, g_abilityManagerInitialized
  storeOpen,       \* selectionDatabase_ and its store_
  tableVersion,    \* of the database file: 0 for no file
  rows,            \* the committed rows
  transaction,     \* the rows as the open transaction would leave them, or NoTransaction
  using,           \* what each caller is doing: pc, op, uid, value
  contentFlag,     \* canGetSelectionContentFlag_
  stuck,           \* a roll-back failed and the transaction is still open
  acknowledged     \* the last configuration of each user that Save said it has stored
moduleVars == <<libraryLoaded, readyModules, storeOpen, tableVersion, rows, transaction, using,
                contentFlag, stuck, acknowledged>>

NoRow == "no row"
NoTransaction == <<>>
Resting == [pc |-> "idle"]
DatabaseOps == {"save", "get"}
PasteboardOps == {"allow", "content"}
ModuleOf(op) == IF op \in DatabaseOps THEN "database"
                ELSE IF op \in PasteboardOps THEN "pasteboard" ELSE "ability"

OpenSteps == {"update", "insert", "query", "commit", "rollback"}   \* a transaction is open
TransactionSteps == OpenSteps \cup {"read"}       \* holding databaseMutex_
InModule == {"enter"} \cup TransactionSteps       \* in a module that was created
Sharing == {"ensure"} \cup InModule               \* holding pluginMutex_ shared
In(c, steps) == using[c].pc \in steps
NowAt(c, label) == using' = [using EXCEPT ![c].pc = label]
Done(c) == using' = [using EXCEPT ![c] = Resting]
NoneIn(steps) == \A c \in PluginCallers : ~In(c, steps)

ModulesInit ==
  /\ libraryLoaded = FALSE /\ readyModules = {} /\ storeOpen = FALSE
  /\ tableVersion \in 0 .. 2
  /\ rows = [u \in RowUids |-> NoRow] /\ acknowledged = rows
  /\ transaction = NoTransaction /\ stuck = FALSE
  /\ using = [c \in PluginCallers |-> Resting] /\ contentFlag = FALSE

-----------------------------------------------------------------------------
(* Into the library                                                        *)

SaveDatabaseConfig == [pc : {"load"}, op : {"save"}, uid : RowUids, value : RowValues]
GetDatabaseConfig == [pc : {"load"}, op : {"get"}, uid : RowUids, value : {NoRow}]
SetPasteboardFlag == [pc : {"load"}, op : {"allow"}]
GetPasteboardContent == [pc : {"load"}, op : {"content"}]
UseExtAbility == [pc : {"load"}, op : {"connect"}]

Request(c) ==
  /\ In(c, {"idle"})
  /\ \E request \in SaveDatabaseConfig \cup GetDatabaseConfig \cup SetPasteboardFlag
                      \cup GetPasteboardContent \cup UseExtAbility :
       using' = [using EXCEPT ![c] = request]
  /\ UNCHANGED <<libraryLoaded, readyModules, storeOpen, tableVersion, rows, transaction,
                 contentFlag, stuck, acknowledged>>

\* The library or one of its functions may be missing.
LoadPluginSo(c) ==
  /\ In(c, {"load"}) /\ NoneIn(Sharing)
  /\ libraryLoaded' \in {TRUE, libraryLoaded}
  /\ IF libraryLoaded' THEN NowAt(c, "share") ELSE Done(c)
  /\ UNCHANGED <<readyModules, storeOpen, tableVersion, rows, transaction, contentFlag, stuck,
                 acknowledged>>

\* The library may have been unloaded since.
Share(c) ==
  /\ In(c, {"share"})
  /\ IF libraryLoaded THEN NowAt(c, "ensure") ELSE Done(c)
  /\ UNCHANGED <<libraryLoaded, readyModules, storeOpen, tableVersion, rows, transaction,
                 contentFlag, stuck, acknowledged>>

\* CreateStore: a file of an older version, or none, is brought to version 2 first.
OpenStore == storeOpen' = TRUE /\ tableVersion' = 2

\* A module that could not be initialised is created anew by the next call.
Ensure(c) ==
  LET module == ModuleOf(using[c].op) IN
  /\ In(c, {"ensure"})
  /\ \/ /\ NowAt(c, "enter") /\ readyModules' = readyModules \cup {module}
        /\ IF module = "database" /\ ~storeOpen THEN OpenStore
                                                ELSE UNCHANGED <<storeOpen, tableVersion>>
     \/ /\ module \notin readyModules \cup {"ability"} /\ Done(c)
        /\ UNCHANGED <<readyModules, storeOpen, tableVersion>>
  /\ UNCHANGED <<libraryLoaded, rows, transaction, contentFlag, stuck, acknowledged>>

SetCanGetSelectionContentFlag(c) ==
  /\ In(c, {"enter"}) /\ using[c].op = "allow"
  /\ contentFlag' = TRUE /\ Done(c)
  /\ UNCHANGED <<libraryLoaded, readyModules, storeOpen, tableVersion, rows, transaction, stuck,
                 acknowledged>>

\* What these do is in Pasteboard and in ExtConnection: nothing of it stays in the library.
GetSelectionContent(c) == using[c].op = "content"
ConnectAbility(c) == using[c].op = "connect"
CallThrough(c) ==
  /\ In(c, {"enter"}) /\ (GetSelectionContent(c) \/ ConnectAbility(c))
  /\ Done(c)
  /\ UNCHANGED <<libraryLoaded, readyModules, storeOpen, tableVersion, rows, transaction,
                 contentFlag, stuck, acknowledged>>

-----------------------------------------------------------------------------
(* Save and GetOneByUserId: transactions, under databaseMutex_.  Each call   *)
(* of the store may fail.                                                    *)

\* The store begins no transaction while one is open.
BeginTransaction(c) ==
  /\ In(c, {"enter"}) /\ using[c].op \in DatabaseOps /\ NoneIn(TransactionSteps)
  /\ \/ /\ transaction = NoTransaction /\ transaction' = rows
        /\ NowAt(c, IF using[c].op = "save" THEN "update" ELSE "query")
     \/ Done(c) /\ UNCHANGED transaction
  /\ UNCHANGED <<libraryLoaded, readyModules, storeOpen, tableVersion, rows, contentFlag, stuck,
                 acknowledged>>

Written(c) == [transaction EXCEPT ![using[c].uid] = using[c].value]

\* changedRows is 0 when the user has no row yet.
Update(c) ==
  /\ In(c, {"update"})
  /\ \/ /\ transaction[using[c].uid] = NoRow
        /\ NowAt(c, "insert") /\ UNCHANGED transaction
     \/ /\ transaction[using[c].uid] # NoRow
        /\ NowAt(c, "commit") /\ transaction' = Written(c)
     \/ NowAt(c, "rollback") /\ UNCHANGED transaction
  /\ UNCHANGED <<libraryLoaded, readyModules, storeOpen, tableVersion, rows, contentFlag, stuck,
                 acknowledged>>

\* Mutation for NoHalfSavedRow: an insertion that failed returns at once.
InsertFailingOpen(c) ==
  /\ In(c, {"insert"})
  /\ \/ NowAt(c, "commit") /\ transaction' = Written(c)
     \/ Done(c) /\ UNCHANGED transaction
  /\ UNCHANGED <<libraryLoaded, readyModules, storeOpen, tableVersion, rows, contentFlag, stuck,
                 acknowledged>>

Insert(c) ==
  /\ In(c, {"insert"})
  /\ \/ NowAt(c, "commit") /\ transaction' = Written(c)
     \/ NowAt(c, "rollback") /\ UNCHANGED transaction
  /\ UNCHANGED <<libraryLoaded, readyModules, storeOpen, tableVersion, rows, contentFlag, stuck,
                 acknowledged>>

Query(c) ==
  /\ In(c, {"query"})
  /\ \/ using' = [using EXCEPT ![c].pc = "commit", ![c].value = transaction[using[c].uid]]
     \/ NowAt(c, "rollback")
  /\ UNCHANGED <<libraryLoaded, readyModules, storeOpen, tableVersion, rows, transaction,
                 contentFlag, stuck, acknowledged>>

Commit(c) ==
  /\ In(c, {"commit"})
  /\ \/ /\ rows' = transaction /\ transaction' = NoTransaction
        /\ IF using[c].op = "get" THEN NowAt(c, "read") ELSE Done(c)
        /\ acknowledged' = IF using[c].op = "save"
                           THEN [acknowledged EXCEPT ![using[c].uid] = using[c].value]
                           ELSE acknowledged
     \/ NowAt(c, "rollback") /\ UNCHANGED <<rows, transaction, acknowledged>>
  /\ UNCHANGED <<libraryLoaded, readyModules, storeOpen, tableVersion, contentFlag, stuck>>

\* The fields are read after the transaction; one that cannot be read keeps its default.
ProcessQueryResult(c) ==
  /\ In(c, {"read"}) /\ Done(c)
  /\ UNCHANGED <<libraryLoaded, readyModules, storeOpen, tableVersion, rows, transaction,
                 contentFlag, stuck, acknowledged>>

\* What comes of it is ignored.
RollBack(c) ==
  /\ In(c, {"rollback"}) /\ Done(c)
  /\ \/ transaction' = NoTransaction /\ UNCHANGED stuck
     \/ stuck' = TRUE /\ UNCHANGED transaction
  /\ UNCHANGED <<libraryLoaded, readyModules, storeOpen, tableVersion, rows, contentFlag,
                 acknowledged>>

Save(c) ==
  /\ ~In(c, {"idle"}) /\ using[c].op = "save"
  /\ \/ BeginTransaction(c) \/ Update(c) \/ Insert(c) \/ Commit(c) \/ RollBack(c)

GetOneByUserId(c) ==
  /\ ~In(c, {"idle"}) /\ using[c].op = "get"
  /\ \/ BeginTransaction(c) \/ Query(c) \/ Commit(c) \/ ProcessQueryResult(c) \/ RollBack(c)

-----------------------------------------------------------------------------
\* PluginCleanupAll and dlclose: what the modules kept in memory is gone, the store drops
\* the transaction that was open.
Forget ==
  /\ libraryLoaded' = FALSE /\ readyModules' = {} /\ storeOpen' = FALSE
  /\ transaction' = NoTransaction /\ stuck' = FALSE /\ contentFlag' = FALSE
  /\ UNCHANGED <<tableVersion, rows, acknowledged>>

UnloadPluginSo == libraryLoaded /\ NoneIn(Sharing) /\ Forget /\ UNCHANGED using

ProcessDies == libraryLoaded /\ Forget /\ using' = [c \in PluginCallers |-> Resting]

ModulesNext ==
  \/ \E c \in PluginCallers :
       \/ Request(c) \/ LoadPluginSo(c) \/ Share(c) \/ Ensure(c)
       \/ SetCanGetSelectionContentFlag(c) \/ CallThrough(c) \/ Save(c) \/ GetOneByUserId(c)
  \/ UnloadPluginSo \/ ProcessDies

ModulesSpec == ModulesInit /\ [][ModulesNext]_moduleVars

-----------------------------------------------------------------------------
\* Whatever fails, whenever the library is unloaded or the process dies: the row of a user
\* is the one Save last said it has stored; a transaction is left open only when it could
\* not be rolled back; the row a caller reads is the stored one; and no caller is in a module
\* that was dropped, or in a database module that has no store.
NoHalfSavedRow ==
  /\ rows = acknowledged
  /\ (transaction = NoTransaction) = NoneIn(OpenSteps) \/ stuck
  /\ \A c \in PluginCallers :
       /\ In(c, {"commit", "read"}) /\ using[c].op = "get" => using[c].value = rows[using[c].uid]
       /\ In(c, InModule) => libraryLoaded /\ ModuleOf(using[c].op) \in readyModules
  /\ "database" \in readyModules => storeOpen /\ tableVersion = 2
  /\ contentFlag => "pasteboard" \in readyModules
===============================================================================
