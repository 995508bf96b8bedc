---------------------------- MODULE ClientListeners ----------------------------
(***************************************************************************)
(* Who hears of a selection.  A client process loads the API module, which *)
(* registers a listener with the service; its script subscribes and        *)
(* unsubscribes callbacks; the service keeps one listener and the process  *)
(* id of whoever registered last.  Both the JavaScript and the ETS client  *)
(* are modelled: they differ in what `off' does and in what makes a client *)
(* valid.  The calls on the service run on the threads of its IPC pool.    *)
(***************************************************************************)
EXTENDS Naturals, FiniteSets, Sequences, SequencesExt

CONSTANTS
  Clients,    \* client processes
  JsClients,  \* those with the JavaScript API, the others have the ETS API
  BundleOf,   \* [Clients -> bundle of the process]
  Bundles,    \* what sys.selection.app may name
  ScriptCbs,  \* callbacks of a script
  MaxPosted   \* bound on the entries that wait for the script's thread

NoClient == "none"
Gone == "gone"
ASSUME ClientsAssumption ==
  /\ JsClients \subseteq Clients /\ BundleOf \in [Clients -> Bundles]
  /\ {NoClient, Gone} \cap Clients = {}
  /\ MaxPosted \in Nat

VARIABLES
  app,         \* the bundle sys.selection.app names
  listener,    \* listener_ of the service; Gone when its process has exited
  pid,         \* pid_ of the service
  registering, \* the registrations between the store of pid_ and that of listener_
  mixed,       \* the last registration to end was not alone
  phase,       \* [Clients -> "unloaded", "loading" or "loaded"]
  stub,        \* the clients with listenerStub_
  valid,       \* the clients with isValid_ of SelectionAppValidator
  cbs,         \* [Clients -> jsCbMap_ or EtsCbMap_ for selectionCompleted]
  posted,      \* [Clients -> the entries posted to the script's event handler]
  registered,  \* the clients whose registration the service took
  withdrawn,   \* those that have withdrawn a callback since
  displaced    \* those whose listener another client replaced or removed since

serviceVars == <<listener, pid, registering, mixed, displaced>>
scriptVars == <<cbs, posted, withdrawn>>
listenerVars == <<app, serviceVars, phase, stub, valid, registered, scriptVars>>

ListenersTypeOK ==
  /\ app \in Bundles
  /\ {listener, pid} \subseteq Clients \cup {NoClient, Gone}
  /\ registering \subseteq [client : Clients, alone : BOOLEAN] /\ mixed \in BOOLEAN
  /\ phase \in [Clients -> {"unloaded", "loading", "loaded"}]
  /\ stub \cup valid \cup registered \cup withdrawn \cup displaced \subseteq Clients
  /\ cbs \in [Clients -> SUBSET ScriptCbs]
  /\ posted \in [Clients -> Seq(SUBSET ScriptCbs)]

ListenersInit ==
  /\ app \in Bundles /\ listener = NoClient /\ pid = NoClient
  /\ registering = {} /\ mixed = FALSE
  /\ phase = [c \in Clients |-> "unloaded"]
  /\ stub = {} /\ valid = {} /\ registered = {} /\ withdrawn = {} /\ displaced = {}
  /\ cbs = [c \in Clients |-> {}] /\ posted = [c \in Clients |-> <<>>]

Authentic(c) == BundleOf[c] = app
Entering(c, to) == phase' = [phase EXCEPT ![c] = to]

-----------------------------------------------------------------------------
(* Loading the module: Init of the JavaScript client, ANI_Constructor       *)

\* Mutation for SubscriberIsHeard: pid_ is stored before the caller is validated.
LoadUnregisteredStoringPid(c, found) ==
  /\ phase[c] = "unloaded" /\ (found => ~Authentic(c))
  /\ Entering(c, "loaded")
  /\ stub' = IF found THEN stub \cup {c} ELSE stub
  /\ valid' = IF c \in JsClients THEN valid ELSE valid \cup {c}
  /\ pid' = IF found THEN c ELSE pid
  /\ UNCHANGED <<app, listener, registering, mixed, displaced, registered, scriptVars>>

\* The service is missing or refuses the client.  The JavaScript client stays
\* invalid; the ETS client calls itself valid all the same.
LoadUnregistered(c, found) ==
  /\ phase[c] = "unloaded" /\ (found => ~Authentic(c))
  /\ Entering(c, "loaded")
  /\ stub' = IF found THEN stub \cup {c} ELSE stub
  /\ valid' = IF c \in JsClients THEN valid ELSE valid \cup {c}
  /\ UNCHANGED <<app, serviceVars, registered, scriptVars>>

\* RegisterListener of the service first stores the caller's process id ...
RegisterListener(c) ==
  /\ phase[c] = "unloaded" /\ Authentic(c)
  /\ Entering(c, "loading")
  /\ stub' = stub \cup {c}
  /\ pid' = c
  /\ registering' = {[r EXCEPT !.alone = FALSE] : r \in registering}
                      \cup {[client |-> c, alone |-> registering = {}]}
  /\ UNCHANGED <<app, listener, mixed, displaced, valid, registered, scriptVars>>

\* ... and then, under the lock, the listener.
StoreListener(r) ==
  LET c == r.client IN
  /\ r \in registering
  /\ registering' = registering \ {r} /\ mixed' = ~r.alone
  /\ listener' = c
  /\ displaced' = (displaced \cup ({listener} \cap Clients)) \ {c}
  /\ Entering(c, "loaded")
  /\ valid' = valid \cup {c} /\ registered' = registered \cup {c}
  /\ UNCHANGED <<app, pid, stub, scriptVars>>

-----------------------------------------------------------------------------
(* on and off of the script                                                *)

\* The JavaScript client throws when it is not valid, the ETS client does not ask.
SubscribeScript(c, cb) ==
  /\ phase[c] = "loaded" /\ (c \in JsClients => c \in valid)
  /\ cbs' = [cbs EXCEPT ![c] = @ \cup {cb}]
  /\ UNCHANGED <<app, serviceVars, phase, stub, valid, registered, posted, withdrawn>>

\* UnregisterListener of the service removes the listener it has, whoever
\* asks and whichever listener is passed.
UnregisterListener(c) ==
  IF Authentic(c)
  THEN /\ listener' = NoClient
       /\ displaced' = displaced \cup ({listener} \cap (Clients \ {c}))
  ELSE UNCHANGED <<listener, displaced>>

\* off with a callback, ETS: the client unregisters with the service whatever
\* callbacks remain, and whether or not it had this one.  Nothing registers it
\* again.  (off of the JavaScript client finds no native object behind the
\* module's exports and returns.)
UnsubscribeOne(c, cb) ==
  /\ phase[c] = "loaded" /\ c \notin JsClients /\ cbs[c] # {}
  /\ cbs' = [cbs EXCEPT ![c] = @ \ {cb}]
  /\ IF c \in stub THEN UnregisterListener(c) ELSE UNCHANGED <<listener, displaced>>
  /\ stub' = stub \ {c} /\ withdrawn' = withdrawn \cup {c}
  /\ UNCHANGED <<app, pid, registering, mixed, phase, valid, registered, posted>>

\* off without a callback, ETS: the service is not told.
UnsubscribeAll(c) ==
  /\ phase[c] = "loaded" /\ c \notin JsClients /\ cbs[c] # {}
  /\ cbs' = [cbs EXCEPT ![c] = {}]
  /\ UNCHANGED <<app, serviceVars, phase, stub, valid, registered, posted, withdrawn>>

-----------------------------------------------------------------------------
(* A selection, the exit of a process, another application                 *)

\* OnSelectionEvent: the JavaScript client copies the callbacks into an entry
\* that its thread takes up later; the ETS client calls them at once.
OnSelectionEvent(c) ==
  /\ listener = c /\ c \in JsClients /\ cbs[c] # {} /\ Len(posted[c]) < MaxPosted
  /\ posted' = [posted EXCEPT ![c] = Append(@, cbs[c])]
  /\ UNCHANGED <<app, serviceVars, phase, stub, valid, registered, cbs, withdrawn>>

Traverse(c) ==
  /\ posted[c] # <<>>
  /\ posted' = [posted EXCEPT ![c] = Tail(@)]
  /\ UNCHANGED <<app, serviceVars, phase, stub, valid, registered, cbs, withdrawn>>

\* Nobody tells the service: listener_ and pid_ keep what they have.
Exit(c) ==
  /\ phase[c] = "loaded" /\ Entering(c, "unloaded")
  /\ listener' = IF listener = c THEN Gone ELSE listener
  /\ pid' = IF pid = c THEN Gone ELSE pid
  /\ stub' = stub \ {c} /\ valid' = valid \ {c} /\ registered' = registered \ {c}
  /\ withdrawn' = withdrawn \ {c} /\ displaced' = displaced \ {c}
  /\ cbs' = [cbs EXCEPT ![c] = {}] /\ posted' = [posted EXCEPT ![c] = <<>>]
  /\ UNCHANGED <<app, registering, mixed>>

SwitchApp(b) ==
  /\ b # app /\ app' = b
  /\ UNCHANGED <<serviceVars, phase, stub, valid, registered, scriptVars>>

ListenersNext ==
  \/ \E c \in Clients :
       \/ \E found \in BOOLEAN : LoadUnregistered(c, found)
       \/ RegisterListener(c)
       \/ \E cb \in ScriptCbs : SubscribeScript(c, cb) \/ UnsubscribeOne(c, cb)
       \/ UnsubscribeAll(c) \/ OnSelectionEvent(c) \/ Traverse(c) \/ Exit(c)
  \/ \E r \in registering : StoreListener(r)
  \/ \E b \in Bundles : SwitchApp(b)

ListenersSpec == ListenersInit /\ [][ListenersNext]_listenerVars

-----------------------------------------------------------------------------
\* IsCurrentSelectionApp
IsCurrentSelectionApp(c) == pid = c

\* A script that subscribed is heard: the service still has its client's
\* listener, unless the registration had failed, the script withdrew some
\* callback, or another client took the listener away.  And the process the
\* service calls the selection application is the one that listens, unless two
\* registrations overlapped between the two stores of RegisterListener.
SubscriberIsHeard ==
  /\ \A c \in registered : /\ cbs[c] # {} /\ c \notin withdrawn \cup displaced => listener = c
                           /\ ToSet(posted[c]) \subseteq SUBSET cbs[c]
  /\ valid \cap JsClients \subseteq registered
  /\ ~mixed /\ registering = {} =>
       \A c \in Clients : listener = c => IsCurrentSelectionApp(c)
================================================================================
