------------------------- MODULE ExtConnectionProofs -------------------------
(***************************************************************************)
(* The safety of the extension's connection, for any number of connection  *)
(* objects and of threads that disconnect.                                 *)
(***************************************************************************)
EXTENDS ExtConnection, TLAPS

\* The steps a thread takes while it holds connectMutex_.
InConnect == {"load", "share_plugin", "call_connect", "promise", "await_connect"}
InDisconnect == {"share_plugin", "call_disconnect", "await_disconnect"}
Critical(t) == IF t = "input" THEN connPc[t] \in InConnect ELSE connPc[t] \in InDisconnect

\* connectMutex_ excludes, and the object its holder works on stays.
MutexExcludes ==
    \A t \in Threads : Critical(t) => connectMutex_ = t /\ connectInner_ # None

\* pluginMutex_ is shared by those that call the plugin, and keeps it loaded.
PluginIsShared ==
    /\ \A t \in Threads :
          connPc[t] \in {"call_connect", "promise", "await_connect", "call_disconnect"}
                 => t \in pluginReaders
    /\ pluginReaders # {} => pluginSo_

\* The promise of a disconnect is made before AMS is asked, and kept only by an
\* extension that is gone.
PromiseIsMade ==
    \A t \in Threads \ {"input"} :
        connPc[t] \in {"share_plugin", "call_disconnect"} =>
                \/ disconnectPromise_[connectInner_] = "pending"
                \/ disconnectPromise_[connectInner_] = "kept" /\ ams[connectInner_] = "none"

\* An object is not known to AMS before it is connected.
ConnectIsNew ==
    connPc["input"] \in {"load", "share_plugin", "call_connect"} => ams[connectInner_] = "none"

\* What the service knows of an extension AMS is connecting or has connected.
ConnectedIsKnown == \A c \in Conns : ams[c] = "connected" => info[c]
ConnectingIsAwaited ==
    \A c \in Conns : ams[c] = "connecting" =>
        c \in late \/ (c = connectInner_ /\ connPc["input"] \in {"promise", "await_connect"})
ConnectedWithPlugin ==
    \A c \in Conns : ams[c] = "connected" /\ ~pluginSo_ => c \in late \cup stranded
ForgottenHasCause ==
    connPc["input"] = "lock_connect" /\ connectInner_ # None =>
            ~Live(connectInner_) \/ connectInner_ \in late \cup stranded

\* Who may do what, and what the disconnecting threads rely on.
Locks ==
    /\ ExtTypeOK
    /\ MutexExcludes /\ PluginIsShared /\ PromiseIsMade
    /\ DisconnectAnswerIsNotLost

\* What becomes of the extensions.
Knowledge ==
    /\ ConnectIsNew /\ ConnectedIsKnown /\ ConnectingIsAwaited /\ ConnectedWithPlugin
    /\ ForgottenHasCause /\ OrphanHasCause

Inv == Locks /\ Knowledge

-----------------------------------------------------------------------------

LEMMA ThreadsApart ==
    /\ {"input", "timer"} \subseteq Threads /\ Syncs \subseteq Threads
    /\ "input" \notin Syncs /\ "timer" \notin Syncs
    /\ \A t \in Threads : t = "input" \/ t = "timer" \/ t \in Syncs
    /\ None \notin Conns /\ None \notin Threads
BY ExtConnectionAssumption DEF Threads

LEMMA InitInv == ExtInit => Inv
<1> SUFFICES ASSUME ExtInit PROVE Inv
  OBVIOUS
<1> USE ThreadsApart DEF ExtInit
<1>1. ExtTypeOK
  BY DEF ExtTypeOK, PromiseStates
<1>2. Locks
  BY <1>1 DEF Locks, MutexExcludes, Critical, InConnect, InDisconnect, PluginIsShared,
      PromiseIsMade, DisconnectAnswerIsNotLost
<1>3. Knowledge
  BY DEF Knowledge, ConnectIsNew, ConnectedIsKnown, ConnectingIsAwaited, ConnectedWithPlugin,
      ForgottenHasCause, OrphanHasCause, Live
<1> QED BY <1>2, <1>3 DEF Inv

\* A connection that does not count as connected is not connected, or was given up.
LEMMA StartConnectKeepsInv ==
    ASSUME Inv, StartConnect
    PROVE  Inv'
<1> USE ThreadsApart DEF Inv, Locks, Knowledge, StartConnect, HasExtAbilityConnection,
     ExtGoto, connVars, lockVars, ghostVars
<1>1. ExtTypeOK'
  BY DEF ExtTypeOK, PromiseStates, ConnectSteps, DisconnectSteps
<1>2. MutexExcludes'
  BY <1>1 DEF MutexExcludes, Critical, InConnect, InDisconnect, ExtTypeOK, PromiseStates,
     ConnectSteps, DisconnectSteps
<1>3. ForgottenHasCause'
  BY DEF ForgottenHasCause, ConnectedIsKnown, ConnectingIsAwaited, Live, ExtTypeOK
<1>4. PluginIsShared' /\ PromiseIsMade' /\ DisconnectAnswerIsNotLost' /\ ConnectIsNew' /\
       ConnectedIsKnown' /\ ConnectingIsAwaited' /\ ConnectedWithPlugin' /\
       OrphanHasCause'
  BY DEF PluginIsShared, ExtTypeOK, PromiseIsMade, MutexExcludes, Critical, InConnect,
     InDisconnect, Live, DisconnectAnswerIsNotLost, PromiseStates, ConnectSteps,
     DisconnectSteps, ConnectIsNew, ConnectedIsKnown, ConnectingIsAwaited,
     ConnectedWithPlugin, OrphanHasCause, ForgottenHasCause
<1> QED BY <1>1, <1>2, <1>3, <1>4

\* The object before is forgotten.
LEMMA NewConnectionKeepsInv ==
    ASSUME Inv, NewConnection
    PROVE  Inv'
<1> USE ThreadsApart DEF Inv, Locks, Knowledge, NewConnection, Free, ExtGoto
<1>1. ExtTypeOK'
  BY DEF ExtTypeOK, PromiseStates, ConnectSteps, DisconnectSteps
<1>2. MutexExcludes'
  BY <1>1 DEF MutexExcludes, Critical, InConnect, InDisconnect, ExtTypeOK, PromiseStates,
     ConnectSteps, DisconnectSteps
<1>3. PromiseIsMade'
  BY DEF PromiseIsMade, MutexExcludes, Critical, InConnect, InDisconnect, Live, ExtTypeOK
<1>4. DisconnectAnswerIsNotLost'
  BY DEF DisconnectAnswerIsNotLost, PromiseIsMade, MutexExcludes, Critical, InConnect,
     InDisconnect, Live, ExtTypeOK, PromiseStates, ConnectSteps, DisconnectSteps
<1>5. ConnectIsNew'
  BY DEF ConnectIsNew, MutexExcludes, Critical, InConnect, InDisconnect, ExtTypeOK
<1>6. ConnectedIsKnown'
  BY DEF ConnectedIsKnown, ExtTypeOK
<1>7. ConnectingIsAwaited'
  BY DEF ConnectingIsAwaited, ConnectIsNew, MutexExcludes, Critical, InConnect,
     InDisconnect, ExtTypeOK
<1>8. ConnectedWithPlugin'
  BY DEF ConnectedWithPlugin, ConnectingIsAwaited, PluginIsShared, ExtTypeOK
<1>9. OrphanHasCause'
  BY DEF OrphanHasCause, ForgottenHasCause, ConnectIsNew, ConnectedWithPlugin,
     ConnectingIsAwaited, DisconnectAnswerIsNotLost, MutexExcludes, Critical, InConnect,
     InDisconnect, Live, ExtTypeOK
<1>10. PluginIsShared' /\ ForgottenHasCause'
  BY DEF PluginIsShared, ExtTypeOK, ForgottenHasCause, ConnectedIsKnown,
     ConnectingIsAwaited, Live
<1> QED BY <1>1, <1>2, <1>3, <1>4, <1>5, <1>6, <1>7, <1>8, <1>9, <1>10

LEMMA LoadForConnectKeepsInv ==
    ASSUME Inv, LoadForConnect
    PROVE  Inv'
<1> USE ThreadsApart DEF Inv, Locks, Knowledge, LoadForConnect, GiveUpConnecting, Return,
     ExtGoto, connVars, lockVars, ghostVars
<1>1. ExtTypeOK'
  BY DEF ExtTypeOK, PromiseStates, ConnectSteps, DisconnectSteps
<1>2. MutexExcludes'
  BY <1>1 DEF MutexExcludes, Critical, InConnect, InDisconnect, ExtTypeOK, PromiseStates,
     ConnectSteps, DisconnectSteps
<1>3. PluginIsShared'
  BY DEF PluginIsShared, ExtTypeOK
<1>4. PromiseIsMade'
  BY DEF PromiseIsMade, MutexExcludes, Critical, InConnect, InDisconnect, Live, ExtTypeOK
<1>5. ConnectIsNew'
  BY DEF ConnectIsNew, MutexExcludes, Critical, InConnect, InDisconnect, ExtTypeOK
<1>6. ConnectedWithPlugin'
  BY DEF ConnectedWithPlugin, ConnectingIsAwaited, PluginIsShared, ExtTypeOK
<1>7. OrphanHasCause'
  BY DEF OrphanHasCause, ForgottenHasCause, ConnectIsNew, ConnectedWithPlugin,
     ConnectingIsAwaited, DisconnectAnswerIsNotLost, MutexExcludes, Critical, InConnect,
     InDisconnect, Live, ExtTypeOK
<1>8. DisconnectAnswerIsNotLost' /\ ConnectedIsKnown' /\ ConnectingIsAwaited' /\
       ForgottenHasCause'
  BY DEF DisconnectAnswerIsNotLost, PromiseIsMade, MutexExcludes, Critical, InConnect,
     InDisconnect, Live, ExtTypeOK, PromiseStates, ConnectSteps, DisconnectSteps,
     ConnectedIsKnown, ConnectingIsAwaited, ConnectIsNew, ForgottenHasCause
<1> QED BY <1>1, <1>2, <1>3, <1>4, <1>5, <1>6, <1>7, <1>8

LEMMA SharePluginKeepsInv ==
    ASSUME Inv, SharePlugin
    PROVE  Inv'
<1> USE ThreadsApart DEF Inv, Locks, Knowledge, SharePlugin, GiveUpConnecting, Return,
     ExtGoto, connVars, lockVars, ghostVars
<1>1. ExtTypeOK'
  BY DEF ExtTypeOK, PromiseStates, ConnectSteps, DisconnectSteps
<1>2. MutexExcludes'
  BY <1>1 DEF MutexExcludes, Critical, InConnect, InDisconnect, ExtTypeOK, PromiseStates,
     ConnectSteps, DisconnectSteps
<1>3. PluginIsShared'
  BY DEF PluginIsShared, ExtTypeOK
<1>4. PromiseIsMade'
  BY DEF PromiseIsMade, MutexExcludes, Critical, InConnect, InDisconnect, Live, ExtTypeOK
<1>5. ConnectIsNew'
  BY DEF ConnectIsNew, MutexExcludes, Critical, InConnect, InDisconnect, ExtTypeOK
<1>6. OrphanHasCause'
  BY DEF OrphanHasCause, ForgottenHasCause, ConnectIsNew, ConnectedWithPlugin,
     ConnectingIsAwaited, DisconnectAnswerIsNotLost, MutexExcludes, Critical, InConnect,
     InDisconnect, Live, ExtTypeOK
<1>7. DisconnectAnswerIsNotLost' /\ ConnectedIsKnown' /\ ConnectingIsAwaited' /\
       ConnectedWithPlugin' /\ ForgottenHasCause'
  BY DEF DisconnectAnswerIsNotLost, PromiseIsMade, MutexExcludes, Critical, InConnect,
     InDisconnect, Live, ExtTypeOK, PromiseStates, ConnectSteps, DisconnectSteps,
     ConnectedIsKnown, ConnectingIsAwaited, ConnectIsNew, ConnectedWithPlugin,
     PluginIsShared, ForgottenHasCause
<1> QED BY <1>1, <1>2, <1>3, <1>4, <1>5, <1>6, <1>7

LEMMA CallConnectKeepsInv ==
    ASSUME Inv, CallConnect
    PROVE  Inv'
<1> USE ThreadsApart DEF Inv, Locks, Knowledge, CallConnect, GiveUpConnecting, Return,
     ExtGoto, connVars, lockVars, ghostVars
<1>1. ExtTypeOK'
  BY DEF ExtTypeOK, PromiseStates, ConnectSteps, DisconnectSteps
<1>2. MutexExcludes'
  BY <1>1 DEF MutexExcludes, Critical, InConnect, InDisconnect, ExtTypeOK, PromiseStates,
     ConnectSteps, DisconnectSteps
<1>3. PluginIsShared'
  BY DEF PluginIsShared, ExtTypeOK
<1>4. PromiseIsMade'
  BY DEF PromiseIsMade, MutexExcludes, Critical, InConnect, InDisconnect, Live, ExtTypeOK
<1>5. DisconnectAnswerIsNotLost'
  BY DEF DisconnectAnswerIsNotLost, PromiseIsMade, MutexExcludes, Critical, InConnect,
     InDisconnect, Live, ExtTypeOK, PromiseStates, ConnectSteps, DisconnectSteps
<1>6. ConnectIsNew'
  BY DEF ConnectIsNew, MutexExcludes, Critical, InConnect, InDisconnect, ExtTypeOK
<1>7. ConnectingIsAwaited'
  BY DEF ConnectingIsAwaited, ConnectIsNew, MutexExcludes, Critical, InConnect,
     InDisconnect, ExtTypeOK
<1>8. ConnectedWithPlugin'
  BY DEF ConnectedWithPlugin, ConnectingIsAwaited, PluginIsShared, ExtTypeOK
<1>9. ForgottenHasCause'
  BY DEF ForgottenHasCause, ConnectedIsKnown, ConnectingIsAwaited, Live, ExtTypeOK
<1>10. OrphanHasCause'
  BY DEF OrphanHasCause, ForgottenHasCause, ConnectIsNew, ConnectedWithPlugin,
     ConnectingIsAwaited, DisconnectAnswerIsNotLost, MutexExcludes, Critical, InConnect,
     InDisconnect, Live, ExtTypeOK
<1>11. ConnectedIsKnown'
  BY DEF ConnectedIsKnown, ExtTypeOK
<1> QED BY <1>1, <1>2, <1>3, <1>4, <1>5, <1>6, <1>7, <1>8, <1>9, <1>10, <1>11

LEMMA MakeConnectPromiseKeepsInv ==
    ASSUME Inv, MakeConnectPromise
    PROVE  Inv'
<1> USE ThreadsApart DEF Inv, Locks, Knowledge, MakeConnectPromise, ExtGoto, connVars,
     lockVars, ghostVars
<1>1. ExtTypeOK'
  BY DEF ExtTypeOK, PromiseStates, ConnectSteps, DisconnectSteps
<1>2. MutexExcludes'
  BY <1>1 DEF MutexExcludes, Critical, InConnect, InDisconnect, ExtTypeOK, PromiseStates,
     ConnectSteps, DisconnectSteps
<1>3. PluginIsShared'
  BY DEF PluginIsShared, ExtTypeOK
<1>4. ConnectingIsAwaited'
  BY DEF ConnectingIsAwaited, ConnectIsNew, MutexExcludes, Critical, InConnect,
     InDisconnect, ExtTypeOK
<1>5. PromiseIsMade' /\ DisconnectAnswerIsNotLost' /\ ConnectIsNew' /\ ConnectedIsKnown'
       /\ ConnectedWithPlugin' /\ ForgottenHasCause' /\ OrphanHasCause'
  BY DEF PromiseIsMade, MutexExcludes, Critical, InConnect, InDisconnect, Live, ExtTypeOK,
     DisconnectAnswerIsNotLost, PromiseStates, ConnectSteps, DisconnectSteps, ConnectIsNew,
     ConnectedIsKnown, ConnectedWithPlugin, ConnectingIsAwaited, PluginIsShared,
     ForgottenHasCause, OrphanHasCause
<1> QED BY <1>1, <1>2, <1>3, <1>4, <1>5

\* A connection that is given up is recorded in late.
LEMMA EndWaitForConnectKeepsInv ==
    ASSUME Inv, EndWaitForConnect
    PROVE  Inv'
<1> USE ThreadsApart DEF Inv, Locks, Knowledge, EndWaitForConnect, Return, ExtGoto, connVars,
     lockVars, ghostVars
<1>1. ExtTypeOK'
  BY DEF MutexExcludes, Critical, InConnect, InDisconnect, ExtTypeOK, PromiseStates,
     ConnectSteps, DisconnectSteps
<1>2. MutexExcludes'
  BY <1>1 DEF MutexExcludes, Critical, InConnect, InDisconnect, ExtTypeOK, PromiseStates,
     ConnectSteps, DisconnectSteps
<1>3. PluginIsShared'
  BY DEF PluginIsShared, ExtTypeOK
<1>4. ConnectingIsAwaited'
  BY DEF ConnectingIsAwaited, ConnectIsNew, MutexExcludes, Critical, InConnect,
     InDisconnect, ExtTypeOK
<1>5. ConnectedWithPlugin'
  BY DEF ConnectedWithPlugin, ConnectingIsAwaited, PluginIsShared, ExtTypeOK
<1>6. ForgottenHasCause'
  BY DEF ForgottenHasCause, ConnectedIsKnown, ConnectingIsAwaited, Live, ExtTypeOK
<1>7. OrphanHasCause'
  BY DEF OrphanHasCause, ForgottenHasCause, ConnectIsNew, ConnectedWithPlugin,
     ConnectingIsAwaited, DisconnectAnswerIsNotLost, MutexExcludes, Critical, InConnect,
     InDisconnect, Live, ExtTypeOK
<1>8. PromiseIsMade' /\ DisconnectAnswerIsNotLost' /\ ConnectIsNew' /\ ConnectedIsKnown'
  BY DEF PromiseIsMade, MutexExcludes, Critical, InConnect, InDisconnect, Live, ExtTypeOK,
     DisconnectAnswerIsNotLost, PromiseStates, ConnectSteps, DisconnectSteps, ConnectIsNew,
     ConnectedIsKnown
<1> QED BY <1>1, <1>2, <1>3, <1>4, <1>5, <1>6, <1>7, <1>8

LEMMA StartDisconnectKeepsInv ==
    ASSUME Inv, FireTimer \/ \E t \in Syncs : StartSync(t) \/ AlreadyConnected(t)
    PROVE  Inv'
<1> USE ThreadsApart DEF Inv, Locks, Knowledge, FireTimer, StartSync, AlreadyConnected,
     ExtGoto, connVars, lockVars, ghostVars
<1>1. ExtTypeOK'
  BY DEF ExtTypeOK, PromiseStates, ConnectSteps, DisconnectSteps
<1>2. MutexExcludes'
  BY <1>1 DEF MutexExcludes, Critical, InConnect, InDisconnect, ExtTypeOK, PromiseStates,
     ConnectSteps, DisconnectSteps
<1>3. PluginIsShared' /\ PromiseIsMade' /\ DisconnectAnswerIsNotLost' /\ ConnectIsNew' /\
       ConnectedIsKnown' /\ ConnectingIsAwaited' /\ ConnectedWithPlugin' /\
       ForgottenHasCause' /\ OrphanHasCause'
  BY DEF PluginIsShared, ExtTypeOK, PromiseIsMade, MutexExcludes, Critical, InConnect,
     InDisconnect, Live, DisconnectAnswerIsNotLost, PromiseStates, ConnectSteps,
     DisconnectSteps, ConnectIsNew, ConnectedIsKnown, ConnectingIsAwaited,
     ConnectedWithPlugin, ForgottenHasCause, OrphanHasCause
<1> QED BY <1>1, <1>2, <1>3

\* The promise is made before AMS is called.
LEMMA BeginDisconnectKeepsInv ==
    ASSUME NEW t \in Threads \ {"input"}, Inv, BeginDisconnect(t)
    PROVE  Inv'
<1> USE ThreadsApart DEF Inv, Locks, Knowledge, BeginDisconnect, Return, ExtGoto, connVars,
     lockVars, ghostVars
<1>1. ExtTypeOK'
  BY DEF ExtTypeOK, PromiseStates, ConnectSteps, DisconnectSteps
<1>2. MutexExcludes'
  BY <1>1 DEF MutexExcludes, Critical, InConnect, InDisconnect, ExtTypeOK, PromiseStates,
     ConnectSteps, DisconnectSteps
<1>3. PromiseIsMade'
  BY DEF PromiseIsMade, MutexExcludes, Critical, InConnect, InDisconnect, Live, ExtTypeOK
<1>4. DisconnectAnswerIsNotLost'
  BY DEF DisconnectAnswerIsNotLost, PromiseIsMade, MutexExcludes, Critical, InConnect,
     InDisconnect, Live, ExtTypeOK, PromiseStates, ConnectSteps, DisconnectSteps
<1>5. PluginIsShared' /\ ConnectIsNew' /\ ConnectedIsKnown' /\ ConnectingIsAwaited' /\
       ConnectedWithPlugin' /\ ForgottenHasCause' /\ OrphanHasCause'
  BY DEF PluginIsShared, ExtTypeOK, ConnectIsNew, MutexExcludes, Critical, InConnect,
     InDisconnect, ConnectedIsKnown, ConnectingIsAwaited, ConnectedWithPlugin,
     ForgottenHasCause, Live, OrphanHasCause, DisconnectAnswerIsNotLost
<1> QED BY <1>1, <1>2, <1>3, <1>4, <1>5

\* The object is dropped without the plugin: the extension was stranded before.
LEMMA SharePluginToDisconnectKeepsInv ==
    ASSUME NEW t \in Threads \ {"input"}, Inv, SharePluginToDisconnect(t)
    PROVE  Inv'
<1> USE ThreadsApart DEF Inv, Locks, Knowledge, SharePluginToDisconnect,
     DestroyDisconnectPromise, Return, ExtGoto, connVars, lockVars, ghostVars
<1>1. ExtTypeOK'
  BY DEF ExtTypeOK, PromiseStates, ConnectSteps, DisconnectSteps
<1>2. MutexExcludes'
  BY <1>1 DEF MutexExcludes, Critical, InConnect, InDisconnect, ExtTypeOK, PromiseStates,
     ConnectSteps, DisconnectSteps
<1>3. PluginIsShared'
  BY DEF PluginIsShared, ExtTypeOK
<1>4. PromiseIsMade'
  BY DEF PromiseIsMade, MutexExcludes, Critical, InConnect, InDisconnect, Live, ExtTypeOK
<1>5. DisconnectAnswerIsNotLost'
  BY DEF DisconnectAnswerIsNotLost, PromiseIsMade, MutexExcludes, Critical, InConnect,
     InDisconnect, Live, ExtTypeOK, PromiseStates, ConnectSteps, DisconnectSteps
<1>6. ConnectIsNew'
  BY DEF ConnectIsNew, MutexExcludes, Critical, InConnect, InDisconnect, ExtTypeOK
<1>7. ConnectingIsAwaited'
  BY DEF ConnectingIsAwaited, ConnectIsNew, MutexExcludes, Critical, InConnect,
     InDisconnect, ExtTypeOK
<1>8. ConnectedWithPlugin'
  BY DEF ConnectedWithPlugin, ConnectingIsAwaited, PluginIsShared, ExtTypeOK
<1>9. ForgottenHasCause'
  BY DEF ForgottenHasCause, ConnectedIsKnown, ConnectingIsAwaited, Live, ExtTypeOK
<1>10. OrphanHasCause'
  BY DEF OrphanHasCause, ForgottenHasCause, ConnectIsNew, ConnectedWithPlugin,
     ConnectingIsAwaited, DisconnectAnswerIsNotLost, MutexExcludes, Critical, InConnect,
     InDisconnect, Live, ExtTypeOK
<1>11. ConnectedIsKnown'
  BY DEF ConnectedIsKnown, ExtTypeOK
<1> QED BY <1>1, <1>2, <1>3, <1>4, <1>5, <1>6, <1>7, <1>8, <1>9, <1>10, <1>11

LEMMA CallDisconnectKeepsInv ==
    ASSUME NEW t \in Threads \ {"input"}, Inv, CallDisconnect(t)
    PROVE  Inv'
<1> USE ThreadsApart DEF Inv, Locks, Knowledge, CallDisconnect, DestroyDisconnectPromise,
     Return, ExtGoto, connVars, lockVars, ghostVars
<1>1. ExtTypeOK'
  BY DEF ExtTypeOK, PromiseStates, ConnectSteps, DisconnectSteps
<1>2. MutexExcludes'
  BY <1>1 DEF MutexExcludes, Critical, InConnect, InDisconnect, ExtTypeOK, PromiseStates,
     ConnectSteps, DisconnectSteps
<1>3. PluginIsShared'
  BY DEF PluginIsShared, ExtTypeOK
<1>4. PromiseIsMade'
  BY DEF PromiseIsMade, MutexExcludes, Critical, InConnect, InDisconnect, Live, ExtTypeOK
<1>5. DisconnectAnswerIsNotLost'
  BY DEF DisconnectAnswerIsNotLost, PromiseIsMade, MutexExcludes, Critical, InConnect,
     InDisconnect, Live, ExtTypeOK, PromiseStates, ConnectSteps, DisconnectSteps
<1>6. ConnectIsNew'
  BY DEF ConnectIsNew, MutexExcludes, Critical, InConnect, InDisconnect, ExtTypeOK
<1>7. ConnectedIsKnown'
  BY DEF ConnectedIsKnown, ExtTypeOK
<1>8. ConnectingIsAwaited'
  BY DEF ConnectingIsAwaited, ConnectIsNew, MutexExcludes, Critical, InConnect,
     InDisconnect, ExtTypeOK
<1>9. ConnectedWithPlugin'
  BY DEF ConnectedWithPlugin, ConnectingIsAwaited, PluginIsShared, ExtTypeOK
<1>10. ForgottenHasCause'
  BY DEF ForgottenHasCause, ConnectedIsKnown, ConnectingIsAwaited, Live, ExtTypeOK
<1>11. OrphanHasCause'
  BY DEF OrphanHasCause, ForgottenHasCause, ConnectIsNew, ConnectedWithPlugin,
     ConnectingIsAwaited, DisconnectAnswerIsNotLost, MutexExcludes, Critical, InConnect,
     InDisconnect, Live, ExtTypeOK
<1> QED BY <1>1, <1>2, <1>3, <1>4, <1>5, <1>6, <1>7, <1>8, <1>9, <1>10, <1>11

\* AMS is disconnecting the object that is dropped.
LEMMA EndWaitForDisconnectKeepsInv ==
    ASSUME NEW t \in Threads \ {"input"}, Inv, EndWaitForDisconnect(t)
    PROVE  Inv'
<1> USE ThreadsApart DEF Inv, Locks, Knowledge, EndWaitForDisconnect,
     DestroyDisconnectPromise, Return, ExtGoto, connVars, lockVars, ghostVars
<1>1. ExtTypeOK'
  BY DEF ExtTypeOK, PromiseStates, ConnectSteps, DisconnectSteps
<1>2. MutexExcludes'
  BY <1>1 DEF MutexExcludes, Critical, InConnect, InDisconnect, ExtTypeOK, PromiseStates,
     ConnectSteps, DisconnectSteps
<1>3. PluginIsShared'
  BY DEF PluginIsShared, ExtTypeOK
<1>4. PromiseIsMade'
  BY DEF PromiseIsMade, MutexExcludes, Critical, InConnect, InDisconnect, Live, ExtTypeOK
<1>5. DisconnectAnswerIsNotLost'
  BY DEF DisconnectAnswerIsNotLost, PromiseIsMade, MutexExcludes, Critical, InConnect,
     InDisconnect, Live, ExtTypeOK, PromiseStates, ConnectSteps, DisconnectSteps
<1>6. ConnectIsNew'
  BY DEF ConnectIsNew, MutexExcludes, Critical, InConnect, InDisconnect, ExtTypeOK
<1>7. ConnectingIsAwaited'
  BY DEF ConnectingIsAwaited, ConnectIsNew, MutexExcludes, Critical, InConnect,
     InDisconnect, ExtTypeOK
<1>8. ConnectedWithPlugin'
  BY DEF ConnectedWithPlugin, ConnectingIsAwaited, PluginIsShared, ExtTypeOK
<1>9. ForgottenHasCause'
  BY DEF ForgottenHasCause, ConnectedIsKnown, ConnectingIsAwaited, Live, ExtTypeOK
<1>10. OrphanHasCause'
  BY DEF OrphanHasCause, ForgottenHasCause, ConnectIsNew, ConnectedWithPlugin,
     ConnectingIsAwaited, DisconnectAnswerIsNotLost, MutexExcludes, Critical, InConnect,
     InDisconnect, Live, ExtTypeOK
<1>11. ConnectedIsKnown'
  BY DEF ConnectedIsKnown, ExtTypeOK
<1> QED BY <1>1, <1>2, <1>3, <1>4, <1>5, <1>6, <1>7, <1>8, <1>9, <1>10, <1>11

\* Connected extensions are recorded in stranded.
LEMMA UnloadPluginSoKeepsInv ==
    ASSUME Inv, UnloadPluginSo
    PROVE  Inv'
<1> USE ThreadsApart DEF Inv, Locks, Knowledge, UnloadPluginSo, ExtGoto, connVars, lockVars,
     ghostVars
<1>1. ExtTypeOK'
  BY DEF ExtTypeOK, PromiseStates, ConnectSteps, DisconnectSteps
<1>2. MutexExcludes'
  BY <1>1 DEF MutexExcludes, Critical, InConnect, InDisconnect, ExtTypeOK, PromiseStates,
     ConnectSteps, DisconnectSteps
<1>3. PluginIsShared'
  BY DEF PluginIsShared, ExtTypeOK
<1>4. ConnectedWithPlugin'
  BY DEF ConnectedWithPlugin, ConnectingIsAwaited, PluginIsShared, ExtTypeOK
<1>5. PromiseIsMade' /\ DisconnectAnswerIsNotLost' /\ ConnectIsNew' /\ ConnectedIsKnown'
       /\ ConnectingIsAwaited' /\ ForgottenHasCause' /\ OrphanHasCause'
  BY DEF PromiseIsMade, MutexExcludes, Critical, InConnect, InDisconnect, Live, ExtTypeOK,
     DisconnectAnswerIsNotLost, PromiseStates, ConnectSteps, DisconnectSteps, ConnectIsNew,
     ConnectedIsKnown, ConnectingIsAwaited, ForgottenHasCause, OrphanHasCause,
     ConnectedWithPlugin
<1> QED BY <1>1, <1>2, <1>3, <1>4, <1>5

LEMMA LoadForOthersKeepsInv ==
    ASSUME Inv, LoadForOthers
    PROVE  Inv'
<1> USE ThreadsApart DEF Inv, Locks, Knowledge, LoadForOthers, connVars, lockVars,
     ghostVars
<1>1. ExtTypeOK'
  BY DEF ExtTypeOK, PromiseStates, ConnectSteps, DisconnectSteps
<1>2. PluginIsShared'
  BY DEF PluginIsShared, ExtTypeOK
<1>3. ConnectedWithPlugin'
  BY DEF ConnectedWithPlugin, ConnectingIsAwaited, PluginIsShared, ExtTypeOK
<1>4. MutexExcludes' /\ PromiseIsMade' /\ DisconnectAnswerIsNotLost' /\ ConnectIsNew' /\
       ConnectedIsKnown' /\ ConnectingIsAwaited' /\ ForgottenHasCause' /\ OrphanHasCause'
  BY DEF MutexExcludes, Critical, InConnect, InDisconnect, ExtTypeOK, PromiseStates,
     ConnectSteps, DisconnectSteps, PromiseIsMade, Live, DisconnectAnswerIsNotLost,
     ConnectIsNew, ConnectedIsKnown, ConnectingIsAwaited, ForgottenHasCause,
     OrphanHasCause, ConnectedWithPlugin
<1> QED BY <1>1, <1>2, <1>3, <1>4

LEMMA OnAbilityConnectDoneKeepsInv ==
    ASSUME NEW c \in Conns, Inv, OnAbilityConnectDone(c)
    PROVE  Inv'
<1> USE ThreadsApart DEF Inv, Locks, Knowledge, OnAbilityConnectDone, connVars, lockVars,
     ghostVars
<1>1. ExtTypeOK'
  BY DEF ExtTypeOK, PromiseStates, ConnectSteps, DisconnectSteps
<1>2. PromiseIsMade'
  BY DEF PromiseIsMade, MutexExcludes, Critical, InConnect, InDisconnect, Live, ExtTypeOK
<1>3. DisconnectAnswerIsNotLost'
  BY DEF DisconnectAnswerIsNotLost, PromiseIsMade, MutexExcludes, Critical, InConnect,
     InDisconnect, Live, ExtTypeOK, PromiseStates, ConnectSteps, DisconnectSteps
<1>4. ConnectIsNew'
  BY DEF ConnectIsNew, MutexExcludes, Critical, InConnect, InDisconnect, ExtTypeOK
<1>5. ConnectedIsKnown'
  BY DEF ConnectedIsKnown, ExtTypeOK
<1>6. ConnectingIsAwaited'
  BY DEF ConnectingIsAwaited, ConnectIsNew, MutexExcludes, Critical, InConnect,
     InDisconnect, ExtTypeOK
<1>7. ConnectedWithPlugin'
  BY DEF ConnectedWithPlugin, ConnectingIsAwaited, PluginIsShared, ExtTypeOK
<1>8. ForgottenHasCause'
  BY DEF ForgottenHasCause, ConnectedIsKnown, ConnectingIsAwaited, Live, ExtTypeOK
<1>9. OrphanHasCause'
  BY DEF OrphanHasCause, ForgottenHasCause, ConnectIsNew, ConnectedWithPlugin,
     ConnectingIsAwaited, DisconnectAnswerIsNotLost, MutexExcludes, Critical, InConnect,
     InDisconnect, Live, ExtTypeOK
<1>10. MutexExcludes' /\ PluginIsShared'
  BY DEF MutexExcludes, Critical, InConnect, InDisconnect, ExtTypeOK, PromiseStates,
     ConnectSteps, DisconnectSteps, PluginIsShared
<1> QED BY <1>1, <1>2, <1>3, <1>4, <1>5, <1>6, <1>7, <1>8, <1>9, <1>10

\* An answer keeps the promise of the disconnect that waits for it.
LEMMA OnAbilityDisconnectDoneKeepsInv ==
    ASSUME NEW c \in Conns, Inv, OnAbilityDisconnectDone(c)
    PROVE  Inv'
<1> USE ThreadsApart DEF Inv, Locks, Knowledge, OnAbilityDisconnectDone, connVars,
     lockVars, ghostVars
<1>1. ExtTypeOK'
  BY DEF ExtTypeOK, PromiseStates, ConnectSteps, DisconnectSteps
<1>2. PromiseIsMade'
  BY DEF PromiseIsMade, MutexExcludes, Critical, InConnect, InDisconnect, Live, ExtTypeOK
<1>3. DisconnectAnswerIsNotLost'
  BY DEF DisconnectAnswerIsNotLost, PromiseIsMade, MutexExcludes, Critical, InConnect,
     InDisconnect, Live, ExtTypeOK, PromiseStates, ConnectSteps, DisconnectSteps
<1>4. ConnectIsNew'
  BY DEF ConnectIsNew, MutexExcludes, Critical, InConnect, InDisconnect, ExtTypeOK
<1>5. ConnectedIsKnown'
  BY DEF ConnectedIsKnown, ExtTypeOK
<1>6. ConnectingIsAwaited'
  BY DEF ConnectingIsAwaited, ConnectIsNew, MutexExcludes, Critical, InConnect,
     InDisconnect, ExtTypeOK
<1>7. ConnectedWithPlugin'
  BY DEF ConnectedWithPlugin, ConnectingIsAwaited, PluginIsShared, ExtTypeOK
<1>8. ForgottenHasCause'
  BY DEF ForgottenHasCause, ConnectedIsKnown, ConnectingIsAwaited, Live, ExtTypeOK
<1>9. OrphanHasCause'
  BY DEF OrphanHasCause, ForgottenHasCause, ConnectIsNew, ConnectedWithPlugin,
     ConnectingIsAwaited, DisconnectAnswerIsNotLost, MutexExcludes, Critical, InConnect,
     InDisconnect, Live, ExtTypeOK
<1>10. MutexExcludes' /\ PluginIsShared'
  BY DEF MutexExcludes, Critical, InConnect, InDisconnect, ExtTypeOK, PromiseStates,
     ConnectSteps, DisconnectSteps, PluginIsShared
<1> QED BY <1>1, <1>2, <1>3, <1>4, <1>5, <1>6, <1>7, <1>8, <1>9, <1>10

LEMMA StutterKeepsInv == ASSUME Inv, UNCHANGED extVars PROVE Inv'
<1> USE DEF Inv, extVars, connVars, lockVars, ghostVars
<1>1. Locks'
  BY DEF Locks, ExtTypeOK, MutexExcludes, Critical, PluginIsShared, PromiseIsMade,
     DisconnectAnswerIsNotLost
<1>2. Knowledge'
  BY DEF Knowledge, ConnectIsNew, ConnectedIsKnown, ConnectingIsAwaited, ConnectedWithPlugin,
     ForgottenHasCause, OrphanHasCause, Live
<1> QED BY <1>1, <1>2

LEMMA ConnectKeepsInv == ASSUME Inv, Connect PROVE Inv'
BY NewConnectionKeepsInv, LoadForConnectKeepsInv, SharePluginKeepsInv, CallConnectKeepsInv,
   MakeConnectPromiseKeepsInv, EndWaitForConnectKeepsInv DEF Connect

LEMMA DisconnectKeepsInv ==
    ASSUME NEW t \in Threads \ {"input"}, Inv, Disconnect(t) PROVE Inv'
<1>1. CASE AlreadyConnected(t)
  BY <1>1, StartDisconnectKeepsInv DEF AlreadyConnected
<1> QED
  BY <1>1, BeginDisconnectKeepsInv, SharePluginToDisconnectKeepsInv, CallDisconnectKeepsInv,
     EndWaitForDisconnectKeepsInv DEF Disconnect

LEMMA ConnectionInvariant == ExtSpec => []Inv
<1>1. Inv /\ [ExtNext]_extVars => Inv'
  <2> SUFFICES ASSUME Inv, [ExtNext]_extVars PROVE Inv'
    OBVIOUS
  <2>1. CASE StartConnect \/ Connect
    BY <2>1, StartConnectKeepsInv, ConnectKeepsInv
  <2>2. CASE FireTimer \/ \E t \in Syncs : StartSync(t)
    BY <2>2, StartDisconnectKeepsInv
  <2>3. CASE \E t \in Threads \ {"input"} : Disconnect(t)
    BY <2>3, DisconnectKeepsInv
  <2>4. CASE UnloadPluginSo \/ LoadForOthers
    BY <2>4, UnloadPluginSoKeepsInv, LoadForOthersKeepsInv
  <2>5. CASE \E c \in Conns : OnAbilityConnectDone(c) \/ OnAbilityDisconnectDone(c)
    BY <2>5, OnAbilityConnectDoneKeepsInv, OnAbilityDisconnectDoneKeepsInv
  <2>6. CASE UNCHANGED extVars
    BY <2>6, StutterKeepsInv
  <2> QED BY <2>1, <2>2, <2>3, <2>4, <2>5, <2>6 DEF ExtNext
<1> QED BY InitInv, <1>1, PTL DEF ExtSpec

LEMMA InvImplies ==
    Inv => ExtTypeOK /\ PluginStaysWhileUsed /\ DisconnectAnswerIsNotLost /\ OrphanHasCause
BY DEF Inv, Locks, Knowledge, PluginIsShared, MutexExcludes, Critical, InConnect, InDisconnect,
       PluginStaysWhileUsed, ExtTypeOK, ConnectSteps, DisconnectSteps, Threads

-----------------------------------------------------------------------------

\* Every variable of the connection keeps its type; in particular each thread
\* only takes steps of its own kind, and only the timer unloads.
THEOREM ConnectionTypeCorrect == ExtSpec => []ExtTypeOK
BY ConnectionInvariant, InvImplies, PTL

\* No thread uses the plugin, or the connection object it works on, after it is
\* gone (pluginMutex_ and connectMutex_ in DoConnectNewExtAbility,
\* DoDisconnectCurrentExtAbility and UnloadPluginSo).
THEOREM ConnectionPluginStaysWhileUsed == ExtSpec => []PluginStaysWhileUsed
BY ConnectionInvariant, InvImplies, PTL

\* The answer of AMS to a disconnect reaches the promise that waits for it
\* (InitDisconnectPromise before the call).
THEOREM ConnectionDisconnectAnswerIsNotLost == ExtSpec => []DisconnectAnswerIsNotLost
BY ConnectionInvariant, InvImplies, PTL

\* An extension the service has lost sight of was connected after the timeout or
\* had the plugin unloaded under it, for any number of connections and threads.
THEOREM ConnectionOrphanHasCause == ExtSpec => []OrphanHasCause
BY ConnectionInvariant, InvImplies, PTL
=============================================================================
