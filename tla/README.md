# A verification project for the selection framework

TLA+ models, TLC runs and TLAPS proofs for the OpenHarmony selection framework
(`systemabilitymgr_selectionfwk`): the service that recognises that the user
has selected some text with the mouse, connects the selection extension of an
application, tells it, and lets it read the text.

Paths below are relative to the repository. "SS" stands for
`service/src/selection_service.cpp`, "IM" for
`service/src/selection_input_monitor.cpp` and "PB" for
`service/plugins/src/pasteboard/selection_pasteboard_manager.cpp`.

## 1. The system

```
 multimodal input --events--> SelectionInputMonitor (input thread)
                                |  BaseSelectionInputMonitor recognises a gesture
                                v
                 HandleWordSelected --connect--> SelectionService --plugin--> ability manager
                                |                       ^   ^   \
                 OnSelectionChange                      |   |    plugin (dlopen), unloaded
                                v                       |   |    by a timer after 5 minutes
                     listener (extension app)           |   |
                                |                       |   +-- parameter watchers, common events
                 GetSelectionContent (binder) ----------+
                                |
                                v
               plugin: SelectionPasteboardManager -- injects Ctrl+C --> pasteboard service
                                ^---------------- OnTextReceived -----------------/
```

| Component | State it keeps | Operations | What is hard about it |
|---|---|---|---|
| Recogniser (`BaseSelectionInputMonitor`, IM) | `curSelectState`, `subSelectState`, `lastClickTime`, `selectionInfo_` | key and pointer events | long event sequences, two state variables, the trigger mode changes at any time |
| Reporting (`SelectionInputMonitor`, IM 511-642) | none of its own; reads the lock, the switch, the listener, sets the content flag | `FinishedWordSelection`, `GetSelectionContent` | checks before and after a wait of seconds; flag checked and cleared in separate steps |
| Extension connection (SS 60-141, 389-572) | `connectInner_`, two promises, `connectedAbilityInfo`, `connectMutex_` | connect, disconnect, callbacks of the ability manager | early, late, missing and failed answers; timeouts; the plugin may go |
| Plugin (SS 984-1091) | `pluginSo_`, function pointers, `pluginMutex_`, `pluginUnloadTimerId_` | load, unload, reset of the timer | unload while used; reset with and without the mutex |
| Pasteboard plugin (PB) | flag, `g_selectionContent`, `g_pasteBoardErrorCode`, `injectCtrlCFuture_` | `GetSelectionContent`, `OnTextReceived` | three threads per request; answers after the timeout; two callers |
| Configuration synchronisation (SS 272-353, 614-739) | system parameters, `MemSelectionConfig`, database, `userId_` | user switch, watchers | steps of several threads on three copies; crash in between |
| Database plugin (`service/plugins/src/database`) | one table | save, get by user | transactions that fail |
| Modules of the plugin, database (`service/plugins/src`) | three module objects, one store, one open transaction | creation on first use, cleanup, save, get by user | unloading and crashes between steps; every call of the store may fail, the roll-back too |
| Service life cycle (SS 374-387, 772-971) and focus monitor (`service/focus_monitor`) | initialised flags, the handles of a monitor, a focus listener and a receiver | boot events, starts and ends of three system abilities, stop | repeated and reordered notifications on threads of their own; check-then-act without locks |
| Panels (`frameworks/native/selection_ability`) | the queue of shown panels, the state of each window, status callbacks | create, show, hide, dispose on a change of focus | every call is several steps on several threads |
| JavaScript and ETS clients (`frameworks/js/napi`, `frameworks/ets`) | listener stub, validity, callbacks | load, on, off, exit | one listener in the service for all clients |
| Asynchronous calls (`async_call.cpp`, `ffrt_block_queue.h`) | a queue of turns, a serial queue | call, post | a wait that gives up, work that is refused |
| Rate limiter, event bus, geometry, validators, converters (`utils`, `common/data_converter`) | windows, caches, registries | algorithms; no build file names them | boundaries, eviction, re-entrance, times read before a lock |
| Extension runtime, client proxy, event reporting | none that anything depends on | forwarders | |

What makes each part correct:

- the recogniser reports exactly the gestures the user made, and its two state
  variables never disagree;
- a recognised gesture is reported once, if and only if the conditions hold
  after the wait for the extension, and its content is read once;
- the plugin is never unloaded under a thread that uses it, an extension is
  never lost without a cause outside the service, and no call hangs;
- a loaded plugin is always going to be unloaded;
- a reader gets the answer to its own request;
- the settings of one user never reach another's, and the three copies of them
  agree when all is quiet;
- a row of the database is the one that was last acknowledged as saved;
- the service watches every system ability that runs, once, and nothing when it
  has stopped;
- a script that subscribed is heard, its calls are answered and keep their
  order, and a panel on the screen can be put away;
- a limiter lets through what its limits say, a bus delivers once and in order, a
  container agrees with what was put into it, text is cut between characters,
  and rectangles are the cells they cover.

`PROJECT.json` lists every component and, under "hazards", what in this code a
test would hardly reach, with the properties that cover it.

## 2. The modules

| Module | Models | Source |
|---|---|---|
| `Gesture` | abstract: presses counted up to three, drags, a selection that is confirmed or lapses | (specification) |
| `InputMonitor` | the recogniser, every handler | IM 65-499, `selection_input_monitor.h` |
| `GestureHistory` | what the user really did, recorded beside the recogniser | (specification) |
| `SelectionMonitor` | composes the recogniser with reporting and reading, on two threads and their surroundings | IM 511-642, SS 219-237, 1171-1193 |
| `MonitorProofs` | theorems on these four (the recogniser, that it implements `Gesture`, what the user really did, reports) and on `PluginModules` | |
| `ExtConnection`, `ExtConnectionProofs` | connecting, disconnecting, loading and unloading | SS 63-141, 389-572, 984-1091 |
| `PluginTimer` | the unload timer, one step per atomic access | SS 984-1091, `selection_timer.cpp` |
| `Pasteboard`, `PasteboardProofs` | the flag, the injection and the answer | PB, SS 219-237, IM 628-642 |
| `PluginModules` | the module objects and the transactions of the database | `plugin_exports.cpp`, `database_plugin.cpp`, `selection_config_database.cpp`, `pasteboard_plugin.cpp` |
| `Lifecycle` | what the service watches from start to stop | SS 374-387, 772-971, `focus_monitor_manager.cpp` |
| `ServiceProofs` | theorems on `PluginTimer` and `Lifecycle` | |
| `Panels` | showing, hiding, destroying panels; their status callbacks | `selection_ability.cpp`, `selection_panel.cpp`, `panel_listener_impl.cpp`, `js_panel.cpp` |
| `ClientListeners` | who hears of a selection | `js_selection_engine_setting.cpp`, `ets_selection_engine_setting.cpp`, SS 185-217 |
| `AsyncCalls` | the queue of turns and the serial queue of the script's calls | `async_call.cpp`, `ffrt_block_queue.h` |
| `ClientProofs` | theorems on `Panels`, `ClientListeners` and `AsyncCalls` | |
| `RateLimiter` | the limiter of all keys | `selection_rate_limiter.cpp` |
| `EventBus`, `CircuitBreaker`, `Containers`, `Meters` | the classes of the event bus file | `selection_event_bus.cpp` |
| `UtilsProofs` | theorems on `Containers`, `EventBus`, `RateLimiter`, `Meters` and `Content` | |
| `Geometry`, `RectCombiner` | operations on rectangles; the object that merges them, and what the operations promise | `selection_geometry_utils.cpp` |
| `GeometryProofs` | theorems on these two | |
| `Content` | bytes and characters: cutting, cleaning, validating | `selection_content_validator.cpp`, the trimmer of the bus, parts of `selection_string_converter.cpp` |
| `Texts`, `Numerals`, `Encodings` | text utilities, numbers and bytes as text, JSON, XML, CSV | `selection_util.cpp`, `common/data_converter` |
| `ConfigSync`, `ConfigSyncProofs` | the settings of the users: parameters, memory and rows | SS 272-380, 574-739, 1093-1132, `selection_config_comparator.cpp`, `sys_selection_config_repository.cpp`, `database_plugin.cpp` |

Each `MC*` module gives values to constants or declares a symmetry; every
`MC*.cfg` belongs to one run. Names of variables, states and operations are the
source's. Operators preceded by a comment "Mutation for P" are deliberately
wrong forms of the definition that follows: replacing the definition by one of
them must make TLC find P violated, which shows that P depends on that line of
the code. They take no part in any specification.

How the state corresponds to the code:

- `InputMonitor`: `curSelectState` and `subSelectState` are the enumerations of
  `selection_input_monitor.h` without their prefixes. `sinceClick` is the age of
  `lastClickTime`, saturated above `DOUBLE_CLICK_TIME`, because no comparison
  tells larger ages apart; the code starts with `lastClickTime = 0`, an old
  time. A position is one coordinate. `selectionInfo_` keeps the fields the code
  decides on or that are told to the listener. `leftButton` is the user's, not
  the program's: it restricts the events to those one mouse can produce. The
  functions of the code are operators of the same name; an early return is a
  disjunct.
- `SelectionMonitor`: `pc` is the position of the input thread in
  `FinishedWordSelection`. Each check is a step, since binder threads, common
  events and the timer change the values between them (`Surroundings`).
- `ExtConnection`: `connPc[t]` is the position of each thread. A connection object
  is a value of `Conns`, used again when neither the service nor the ability
  manager refers to it. `lock_guard` and `shared_lock` are `connectMutex_` and
  `pluginReaders`. `ams` is external. The two waits may end at any step: a
  timeout needs no clock.
- `PluginTimer`: `ResetPluginUnloadTimer` is six steps, one per access to the
  atomic identifier or call of the timer.
- `Pasteboard`: a text and an error code are known by the request they answer,
  so that a stale answer can be told from a fresh one.
- `ConfigSync`: `sys`, `mem` and `db` are the three copies: the four parameters
  but the trigger (written, watched and saved exactly like the application),
  `MemSelectionConfig`, and one row per user, the default among them. An
  application is known by the user who chose it. `sync` and `watch` are the
  positions of the two threads, and `sysRead`, `dbRead`, `result`, `copied`
  their locals. Each parameter is written in a step of its own, so that a
  watcher, a switch or a crash finds what lies in between; reading them
  (`GetSysParameters`) is one step. The changes that wait for the watchers and
  the user switches that wait for the service are queues outside the process.
  Starting and stopping follow `sa_profile/8500.json`. A switch that is turned
  off stops the service, and it is the first parameter that is written: a
  synchronisation may be cut off after it. A user switch while the service is
  starting reaches no one, for it has not subscribed yet (`switch_while_starting`);
  `haste` counts what users do without taking their time (section 3). The service starts
  (`PerformParamBootCompleted`) because a new watcher is told the present value;
  the same goes for the watchers of `WatchParams`.

- `PluginModules`: `using[c]` takes a caller through loading and sharing the plugin,
  making the module under its mutex, and one step per call of the relational store,
  which is external; each of them may fail. Unloading drops the modules under
  `pluginMutex_` alone, as `PluginCleanupAll` does, without their mutexes. A row
  is a user and one value.
- `Lifecycle`: a notification is a pair of steps, the check of a flag or handle
  and what follows from it, since only the focus handler holds a lock between
  them. Init may run again, for nothing prevents a second end of the boot. When an
  ability goes away the service does nothing, and when it comes again the handlers
  find their flags still set (SS 841, 885) and do not register anew. Whether the
  client library of the input, window or event service does so on its own is not in
  this repository; `OnRemoveSystemAbility` lets the registration survive the crash or
  not.
- `Panels`: `show`, `hide`, `destroy` are their steps on worker threads or on the
  script's thread: the window is shown first and queued afterwards. `Dispose`
  pops the oldest panel, whatever window has lost the focus. The window manager
  is external; an attempt may fail.
- `ClientListeners`: `RegisterListener` is two steps, the store of `pid_` and that
  of `listener_`. `off` of the JavaScript client is no action, for it returns
  without effect; the one of the ETS client unregisters with the service whatever
  callbacks remain.
- `AsyncCalls`: `stage` follows a call through input, wait, exec and output.
  Entries of `jsQueue` are the calls themselves; time-outs may come at any step.
- `RateLimiter`: the clock is an unsigned number that wraps; each call reads it in
  one step and enters the lock in another. Tokens are counted in the refill of one
  tick.
- `EventBus`: `frames` is the stack of publications, since callbacks may use the
  bus again under its recursive mutex. Changing the list that is walked through is
  undefined behaviour in C++: it is recorded, and nothing is modelled after it.
  The stable sort is specified by its result, the one arrangement of the list that
  is in order, and not by a way to compute it.
- `CircuitBreaker`, `Containers`, `Meters`: a method is an action, because it
  holds its object's lock throughout. The cache has its list and its index: an item
  carries the node it is in (`at`), `indexMap_` leads from keys to nodes, every method
  finds its way by the index and changes both as the code does, and a node that was
  given free may be taken again. The breaker's `config_` is chosen at the start.
- `Geometry`: operators with the names of the functions; the limits of 32 bits are
  constants, so that saturation and wrapping occur with small numbers. A `double`
  is a fraction. `RectCombiner` keeps the list of merged rectangles, and states
  the promises over unit cells.
- `Content`, `Texts`, `Numerals`, `Encodings`: text is a sequence of bytes or of
  characters of a small alphabet; a loop is a fold, or, in `Content`, a walk: the
  positions it comes to (`Walk`), of which some are counted or taken. An operation
  that may throw or find nothing returns a set, empty in that case.

Ghost variables (recorded for properties, never read by an action of the code)
are named as such where they are declared: `reported`, `crossing`, `seen`,
`unread` in `SelectionMonitor`, `late`, `stranded` in `ExtConnection`,
`cameLate`, `shared` in `Pasteboard`, `haste` (which only limits the users),
`unsaved`, `defaults` in `ConfigSync`, `added` in
`RectCombiner`, `admitted`, `overtaken` in `RateLimiter`, `subscribed` in
`EventBus`, `mixed`, `withdrawn`, `displaced` in `ClientListeners`, those so marked
in `Containers`, `Meters`, `Lifecycle`, `Panels`, `AsyncCalls` and
`PluginModules`, and all of `GestureHistory`'s own. A default row that cannot be read is made anew
from the parameters, so that one user's application may become the default;
`defaults` records that, and `RowsAreOwn` allows it.

## 3. What the runs check

| Run | Checks | Bounds |
|---|---|---|
| `recogniser` | `StatesBelongTogether`, `PressAwaitedWithButtonUp`, `ImplementsGesture` (of `InputMonitor`); `ReportedGestureIsReal`, `CtrlClickDecides`, `HeldButtonIsFollowed` (of `GestureHistory`) | times 2 and 1, tolerance 1, positions 0..2, one window |
| `input_thread` | `ChecksFollowTheWait`, `NoReadWithoutReport`, `OneReportPerGesture`, `GestureIsReported` (reports); `LoadedPluginIsTimed`, `PluginIsUnloaded` (unload timer) | times 1 and 0, one position; all events with one reader, those of the mouse with two; two binder threads, four timers |
| `plugin_calls` | `PluginStaysWhileUsed`, `DisconnectAnswerIsNotLost`, `OrphanHasCause`, `CallsReturn` (connection); `OneInjectionUnlessShared`, `OwnAnswerUnlessLateOrShared`, `RequestsReturn` (pasteboard) | two connection objects, one configuration thread; two readers |
| `config_sync` | `PatientRowsAreOwn`, `SettingsAreEffective`, `SettingsArePersistent`, `UserGetsOwnSettings` | two users, two changes and one user switch on their way, one failing transaction, one thing done in haste |
| `conversions` | `RectsAreTheirCells`, `TransformsUndo`, `MeasuresFitTheCells` (geometry); `CutsBetweenCharacters`, `CleanedOnceIsEnough` (content); `EncodingsUndo` (texts, numbers, encodings); `BreakerDecides` (circuit breaker); `CallsKeepOrder`, `CallsAreAnswered` (asynchronous calls) | 10 rectangles in lists of up to 3, integers of 6 bits; texts of up to 3 of 13 pieces or 17 letters, 4 bytes, all numbers of 6 bits; six calls; four configurations of the breaker, the default one among them |
| `parts` | `AdmittedWithinLimit`, `DeliveredByPriority`, `ContainersAgree`, `MetersAreRight`, `WatchesWhatRuns`, `NoShownPanelIsForgotten`, `SubscriberIsHeard`, `NoHalfSavedRow` | two keys, threads, panels, three clients, two priorities, one row; the clock and the number of calls, handles and registrations are bounded |
| `disconnected_before_unload` | violated: see findings | `ExtConnection` as in `plugin_calls` |
| `old_timer_is_cancelled` | violated | `PluginTimer` as in `input_thread` |
| `pasteboard_overlap` | violated | `Pasteboard` as in `plugin_calls` |
| `user_switch_overtakes` | violated | as `config_sync` |
| `switch_while_starting` | violated | as `config_sync`, one change on its way and no failing transaction |
| `breaker_defaults` | violated | the default configuration only |

Why the bounds are enough. The recogniser compares the age of a click with two
limits and a distance with one: with the limits 1 and 2 an age below, at and
above each of them occurs, and positions 0, 1, 2 are at, within and beyond the
tolerance. A second window changes nothing but the value that is stored. In
`ExtConnection` two objects allow one the service forgot beside a current one,
and the selection, the configuration change and the timer are the three kinds of
thread that meet; that more objects and more configuration threads change
nothing is what the theorems of section 4 say. `Conns` and `Timers` bound only
what exists at once: both are used again, so the runs have no bound on their
length. In `PluginTimer` a timer can be forgotten while each of three threads
sets one. Two readers are the fewest that can meet in `Pasteboard` or at the flag, and either
of them finds, in its next request, what the meeting left behind. In
`ConfigSync` the settings of a third user could not get anywhere those of the
second cannot, as `ConfigRowsAreOwn` proves; the longest run of steps between
two settings that meet has a watcher, a synchronisation and one crash, and
crashes, reboots and switches are not bounded over time. One failing transaction
at any point shows each branch for a missing row. Of what users do in haste one
thing is enough to switch at any step of a synchronisation or of a start, which
`UserGetsOwnSettings` is about; without haste the three invariants must hold. No run uses
symmetry: most check liveness, and the others name their values in definitions.

`input_thread`, `plugin_calls`, `conversions` and `parts` put parts side by side that
share no state, or are too large to follow together: a behaviour
chooses one `subject` at its start and is one of that part, while the variables of
the others keep their initial values. This is the union of the separate state
spaces, not a composition. In `conversions` the behaviours of the pure parts build
up an input step by step, and the invariants compare what the operators return for
it with a reference definition: sets of cells for rectangles, characters for
bytes, the input itself for what must be undone. The lists of rectangles have
disjoint, touching, overlapping, contained, empty and negative ones and one that
reaches beyond the last edge, which only `RectsAreTheirCells` is about; three of them
are the fewest for which a merge makes a rectangle meet an earlier one it did not
meet before. Six bits hold every carry and sign of the conversions of 64, and the
integers of the geometry are narrow enough for unions that do not fit. The pieces
of text contain every length of a character, a byte that begins nothing and one
that ends too early. In `parts` the database has one user's row and two callers,
because transactions follow one another under `databaseMutex_`: the theorem of
section 4 covers any number. Three clients are one of each kind and a second
application. A full cache of two and a third key are the
fewest that make one give way, and three nodes (`Nodes`) are one more than a list of
two can have, so that a new node may be where an old one was or not. Two registrations
are the fewest that can overlap, and one crash shows both what a client library may
do of it. The bounds `MaxTime`, `MaxCalls`, `MaxHandles`, `MaxInits`,
`MaxRegistrations`, `MaxPosted`, `MaxQueued` and the like end a behaviour after every branch has
been taken, and `MaxCalls` is larger than the limits that are exceeded.

Fairness. `FairOuterSpec`: the input thread is never stopped, and its wait ends
after five seconds. `ExtConnection!FairSpec`: a thread inside a connect or a
disconnect goes on (both waits have timeouts, and nothing is assumed of the
ability manager); strong fairness stands for a mutex that is obtained at last by
a thread that finds it free again and again. `PluginTimer!FairSpec`: threads go
on and timers are periodic. `Pasteboard!FairSpec`: an injection ends (its sleeps
add up to 62 ms) and the 110 ms wait ends; strong fairness stands for a caller
that waits for the injection it finds, not for every later one.
`ConfigSync!FairSpec`: the watchers' thread and the synchronisation go on for as
long as the process exists; no one has to start it, and it may crash at any
step. In every case no one has to start anything. `BreakerFairness`: the clients of a
half-open breaker keep asking, and answer for what they were let do; without
either the breaker, which has no timer for this state, stays half open. Nothing is
assumed of its configuration but its types. Half open, the breaker lets through
`halfOpenMaxRequests` and the request that found the time over; where
`successThreshold` is more than these, as by default (1 and 3), `BreakerDecides` allows
it to have used them up, and `breaker_defaults` shows that it then stays so.
`CallsFairness`: workers take what was queued, the wait for a turn times out, and
the script's thread returns to its event loop.

What `ConfigSync` says of the users. A user takes his time if, once logged in, he
does not change the settings nor switch to another user before the settings are his
own, and does not switch while the service is occupied. Nothing makes him: whatever
is done without taking one's time is counted in the ghost `haste`, up to `MaxHaste`.
`UserGetsOwnSettings` holds of hasty users, too: a switch at any step of a
synchronisation, or of a start that has not asked yet who is in the foreground, is
followed. The other three are about `haste = 0`. The code needs each of the
conditions; without any one of them TLC finds `RowsAreOwn` violated. A user who
changes a setting before the synchronisation saves it beside the previous user's; one
who is switched away while a watcher or a synchronisation is under way has his
settings saved under the next user (`user_switch_overtakes`); and one who is switched
away after a crash between the parameters, with `sys.selection.uid` still another's,
leaves a mixture that his next login takes for his own. What the run then shows
is that nothing else can go wrong: no crash, stop, reboot or failing
transaction, at any step.

Deadlock is checked in all runs but `conversions` and `parts`: there an input or a
bounded number of calls is complete at some time.

### Findings

- `disconnected_before_unload`: SS 1084 says that the extension is disconnected
  before the plugin is unloaded. The test at SS 1085 does not hold the mutex; a
  selection may connect between it and the unload.
- `old_timer_is_cancelled`: SS 1062 says that the old timer is cancelled. IM 525
  resets the timer without the mutex that `LoadPluginSo` holds; one of two new
  periodic timers may be forgotten.
- `pasteboard_overlap`: PB 320 says that the previous injection is complete
  before a new one starts. Two callers that pass the flag together both find
  none.
- `user_switch_overtakes`: the autotest `selectionfwk_user_switch_0100.py` (line
  40) has users keep their settings when they switch back and forth, and
  README.en.md says that the settings are bound to users. `PersistSelectionConfig`
  asks who the user is when it saves, not when the setting changed: the row of
  the user switched to gets the application of the one before.
- `switch_while_starting`: the same autotest, and README.en.md:13. `Init` asks who is
  in the foreground and synchronises (SS 377) before it subscribes to anything (SS
  378): who logs in or is switched to in between is left with the parameters that were
  set before, and nothing synchronises until the next switch or start.
- `breaker_defaults`: the circuit breaker is announced as one that prevents cascading
  failures (`selection_event_bus.cpp` 548), and three successes are to close it (559).
  Half open it lets two requests through with its default values (558), so that it
  never has three successes of its own; once the two have succeeded it refuses every
  request and waits for nothing.

One more disagreement has no run of its own. The declaration of
`AlignToCharBoundary` (`selection_content_validator.cpp` 237) says that an offset is
aligned to the nearest first byte of a character *after* it; the code (739-743) goes
back to the one before, so that offset 1 in a character of two bytes becomes 0 and not
2. The model does what the code does, and `CutsBetweenCharacters` asks only that the
result lies between characters and that an offset which does is left alone.

Two log messages say something else than the code does, which the models follow:
IM 466 logs "this branch may not be entered" in a branch that a double click, a
tiny movement and a third press enter; IM 603 logs that a selection without a
bundle name is skipped, and the function goes on to tell the listener.

What else the source does that a reader might not expect, found while modelling it
and followed by the models:

- *Geometry.* A union wider than the largest integer wraps to a negative size, and
  is then empty (`ClampRect`, 131-133); tolerances equal to the least integer stay
  negative; distances and interpolation of far points subtract in 32 bits.
- *Content.* `Validate` reports `INVALID_DATA` for text that is valid but was
  changed; joining blanks may lose a line break; `RemoveDiacritics` works byte by
  byte and ruins what it changes.
- *Encodings.* The base64 of `selection_format_converter.cpp` decodes padded input
  wrongly; hexadecimal and octal numbers lose their sign; `StrToUint64` takes "-1"
  for the largest number; `UnescapeXML` replaces `&amp;` before `&apos;` and
  `&quot;`; `UnescapeJSON` drops the value of `\u`; CSV loses quotes and empty
  lines; laying out a JSON text that closes more than it opens throws.
- *Limiter and bus.* A debounced call with an old time underflows; warming up and
  debouncing exceed `MAX_CONTEXT_COUNT`; several sliding windows share one list of
  times; a token bucket asked more than once per millisecond never refills; a uid
  given to a second user stays in the first one's set.
- *Plugin.* A roll-back that fails leaves its transaction open until the library
  is unloaded, and every later one fails to begin.
- *Panels.* A change of focus disposes of the oldest panel, whichever window it
  names; destroyed panels stay queued; two hides at once notify twice.
- *Calls.* A work item that could not be queued keeps its place in the queue for
  ever; a call that gave up waiting later removes another's entry.
- *Clients.* `off` of the JavaScript client has no effect; `off` with a callback of
  the ETS client silences the remaining callbacks, and without one it leaves the
  listener registered; the exit of a client is not noticed.
- *Life cycle.* The input monitor and the receiver are created by an unlocked
  check and act, and flags are not reset on stop, nor when an ability goes away.

## 4. What is proved

All theorems hold for every value of the constants that satisfies the named
assumptions of the modules.

- `MonitorTypeCorrect`, `MonitorStatesBelongTogether`,
  `MonitorAwaitsPressWithButtonUp` (`MonitorProofs`; assumptions
  `ClickTimeAssumption`, `PositionAssumption`, `WindowAssumption`). The inductive
  invariant is the conjunction of the three: that a press is awaited with the
  button up needs the states to belong together (only then is it known which
  branch handles a release), which in turn needs the types. One lemma per
  handler shows that it keeps the states together; a separate group of lemmas
  shows that no handler starts waiting for a press except at a release.
- `MonitorImplementsGesture` (`MonitorProofs`). The refinement mapping reads
  the phase and the number of clicks off the two states and the selection type.
  One lemma per handler maps it to a step of `Gesture` or to a stutter, using
  `StatesBelongTogether`.
- `HistoryReportedGestureIsReal`, `HistoryCtrlClickDecides`,
  `HistoryHeldButtonIsFollowed` (`MonitorProofs`; the same assumptions). A
  lemma per event first says which steps the recogniser can take in the states the
  event can find it in (`DownStep`: a press is the first, the second or the third
  of a gesture). The invariant then says what each state remembers: the
  recogniser's clock is the user's (`PressIsSeen`), how the button is held
  (`ButtonOfState`), whether the pointer moved and which gaps were short enough
  (`ClicksInTime`, `CompleteIsReal`), and how far the Ctrl key is (`CtrlIsSeen`).
- `ConnectionTypeCorrect`, `ConnectionPluginStaysWhileUsed`,
  `ConnectionDisconnectAnswerIsNotLost`, `ConnectionOrphanHasCause`
  (`ExtConnectionProofs`; assumption `ExtConnectionAssumption`). None is
  inductive. The invariant adds: `MutexExcludes` (a thread inside a connect or a
  disconnect holds `connectMutex_`, and its object exists), `PluginIsShared`
  (who calls the plugin shares `pluginMutex_`, and a shared plugin is loaded),
  `PromiseIsMade`, and what the service knows of each object: a connected one has
  its `connectedAbilityInfo` (`ConnectedIsKnown`), a connecting one is awaited or
  late (`ConnectingIsAwaited`), a connected one without a plugin is late or
  stranded, and an object about to be replaced is not live without a cause.
- `TimerTypeCorrect`, `TimerLoadedPluginIsTimed` (`ServiceProofs`;
  assumption `PluginTimerAssumption`). The invariant adds that a timer just
  registered is known to one thread only, so no other can cancel it before its
  identifier is stored, and that a loaded plugin has a timer, or a thread that
  will register one, or is about to be unloaded.
- `ConfigTypeCorrect`, and `ConfigRowsAreOwn` as long as no one was hasty
  (`ConfigSyncProofs`; assumption `ConfigSyncAssumption`). That rows are their
  users' own needs to be known of everything on its way to a row: the invariant
  adds what a process without a synchronisation looks like (`Life`), whom each
  step of a synchronisation works for (`KnowsUser`), that parameters, what was
  read and the result are the foreground user's once their uid says so
  (`OwnOnTheWay`), and so are the memory, the watcher's copy and the changes on
  their way (`OwnWatched`). `MineGrows` is the fact behind every step: what is a
  user's own stays so until the next switch.
- `ConfigSettingsEffective`, `ConfigSettingsPersistent`, with the same condition. The
  invariant adds that a switch is synchronised before the next one, without a
  change on its way until the new settings are in memory (`OneSwitch`); that the
  memory, once the changes on their way are applied to it, is what the parameters
  are or are about to be set to (`Following`, stated with `EndsIn`); and that the
  row is the memory unless something is yet to be saved (`Saved`). That a
  synchronisation which keeps the parameters it read never runs beside the watchers
  (`SwitchReplaces`) is why it cannot undo a change made meanwhile.
- `PasteboardTypeCorrect`, `PasteboardOneInjection`, `PasteboardOwnAnswer`
  (`PasteboardProofs`; assumption `CallersAssumption`), for any number of readers.
  The invariant adds that a running injection is the one whose future is held or
  about to be stored (`InjectionIsHeld`), so that a caller which waited for the
  future has none (`InjectorWaited`); that without sharing one caller is inside
  (`AloneInside`); that an answer is fresh only while its request waits
  (`FreshIsAwaited`) and stale only if it came late (`StaleCameLate`); and that the
  observer leaves a text or an error, never both (`TextOrError`), without which
  taking the text would leave an old error behind.
- `ReportTypeCorrect`, `ReportChecksFollowTheWait`, `ReportOncePerGesture`,
  `ReportReadOnce` (`MonitorProofs`), the last for any number of readers that test and
  clear the flag in two steps each. Steps around the recogniser are
  steps of `InputMonitor` or none (`OuterStepIsMonitorStep`), so its invariant
  holds here, too. What is added: the input thread is busy only with a gesture that
  is done (`BusyWithDoneGesture`), what holds has been seen since the wait
  (`SeenSinceTheWait`), and a gesture that was told is over or waits for a third
  press (`ToldGestureIsOver`), from where only a press leads to another report.
- `ModulesStoreWholeRows` (`MonitorProofs`; assumption
  `ModulesAssumption`), for any callers, users and values. The invariant adds that
  one caller at most is in a transaction (`OneTransaction`), that it is open in the
  store only while someone is inside or a roll-back failed (`OpenWhileInside`), that
  it holds the rows with what its caller has done to them so far
  (`TransactionIsOurs`), that a caller inside a module keeps the library loaded
  (`InsideIsLoaded`), and that the committed rows are the acknowledged ones
  (`RowsAreAcknowledged`).

- `LifeTypeCorrect`, `LifeWatchesWhatRuns` (`ServiceProofs`; assumption
  `LifecycleAssumption`). That what runs is watched is not inductive: an ability
  that runs is watched, or a crash took that along, or its start has yet to be told,
  or a handler or `Init` is between its check and what follows from it
  (`InitIsFollowed`); flags and handles say what is watched (`FlagsAreTrue`) only
  because a process begins with none (`NewDidNothing`); and what is watched is
  bounded together with the handlers that are past the check and will still register
  (`HandlersAreCounted`), each of which makes one more (`OneMore`, `OneLess`).
- `PanelsTypeCorrect`, `PanelsNoShownPanelIsForgotten` (`ClientProofs`; assumption
  `PanelsAssumption`). A panel on the screen is queued or in the hands of a thread
  (`ShownIsKept`), a subscriber is served (`SubscribersAreServed`), and a
  destruction is told only after it happened (`DestroyedIsTrue`), without which the
  order in which two threads tell of one panel would not be known.
- `ListenersTypeCorrect`, `ListenersSubscriberIsHeard` (`ClientProofs`; assumption
  `ClientsAssumption`). A client that is registered and neither withdrew nor was
  displaced is the listener (`RegisteredIsListener`), only the subscribed JavaScript
  client posts (`PostedIsSubscribed`), validity follows from registration
  (`ValidIsRegistered`), and a registration that is alone stored `pid_` last
  (`PidFollowsListener`).
- `CallsTypeCorrect`, `CallsAreServedInOrder` (`ClientProofs`; assumption
  `CallsAssumption`). The queue holds an entry for every call under way
  (`QueueCountsCalls`), whoever removes it; it is an end of the order in which calls
  were made (`QueueEndsOrder`); until a wait times out, those before it ran, in turn
  (`ServedInTurn`); and the serial queue runs its front (`SerialInTurn`).
- `ContainersTypeCorrect`, `ContainersAgreeAlways` (`UtilsProofs`; assumption
  `ContainersAssumption`). The cache must hold every key used so recently that fewer
  others than its capacity were used since. The index leads to the nodes of the list
  (`IndexAgrees`), which lie in different places (`NodesDiffer`), so that what a
  method finds by the index is where the key is. The invariant is about all keys
  ever used, cached or not: cached ones stand in the list in the order of their last
  use (`UsedInOrder`), and the latest as many as fit are cached unless erased
  (`CachedIsLatest`). That a key which gives way is none of them is a count: the
  keys used after it are at least the others in a full cache (`Crowded`). The parts
  on the pool, the state machine and the mapper are inductive with their types; that
  of the mapper because the ghosts tell whose each uid is (`owner`), from whom it
  was taken (`former`), and which mappings went with a former user (`lost`).
- `BusTypeCorrect`, `BusDeliversByPriority` (`UtilsProofs`; assumption
  `EventBusAssumption`). A list is sorted by priority and age (`ListsAreSorted`),
  holds exactly what is subscribed (`ListsAreSubscribed`) and gets numbers it does
  not have (`HandlesAreNew`): from these, inserting into a sorted list has one
  result (`NewHandlerIsSorted`). However deep publications nest, each has called a
  beginning of the list it was published to (`FramesWalk`) as long as no callback
  changed that list.

- `LimiterTypeCorrect`, `LimiterAdmitsWithinLimit` (`UtilsProofs`; assumption
  `RateLimiterAssumption`, hypothesis `LevelsAreOrdered`). What was let through is
  compared with what the context remembers. A sliding window remembers every time
  after its beginning, and a level with a longer window that expires the same list
  forgets none of them (`SlidingHeld`); a fixed window counts this window and knows
  that the one before was not exceeded, so that two of them bound any window
  (`FixedHeld`); the tokens of a bucket and those paid since any time are at most
  its capacity and what was refilled (`BucketHeld`). Each is kept by every level
  that may use the context in between (`Acquires`, `Asks`), and gives the bound at
  present (`BoundNow`); bounds at earlier times stay (`BoundBefore`). The
  hypothesis says that one level of every list has the shortest window, and no other
  bucket beside it if it is a bucket: two buckets draw on the same tokens, and
  of two equal sliding windows each expires what the other counts. A list of one
  level always satisfies it, and so do the lists of the run.

- `MetersTypeCorrect`, `MetersAreAlwaysRight` (`UtilsProofs`; assumption
  `MetersAssumption`). What the sliding window remembers is in order, no more
  than its limit, and as many of every stretch of time that is not over as were
  granted in it (`WindowHeld`), so that it counts what it must. The bucket is a sum
  over time: what was taken since a grant, with what is left, is no more than its
  capacity and what the time since refilled (`TokensHeld`); that time is rounded
  down to milliseconds at every request is why this is an inequality. A histogram is
  the end of its record, cut only at its limit (`Latest`). Two definitions compute
  over data of any length, and both had to be shown to exist before anything could
  be said of their values: the delay of an attempt is a recursive function (`Recursion`, a general lemma: for every first
  value and every step there is a sequence of their iterations), and sorting is the
  choice of a rearrangement in order, of which there is one for every list
  (`OrderExists`, by inserting the last sample, `SortedOneMore`). Percentiles then
  grow with the percentage, since each lies between its two neighbours in the sorted
  list (`PercentileLies`) and the share of the upper one grows (`PercentilesGrow`).

- `CutsAreBetweenCharacters` (`UtilsProofs`; assumption `ContentAssumption`: pieces
  are sequences of bytes, limits are numbers), for text of any length. That the
  positions a loop comes to are what its recursion says is an induction from the end
  of the text (`WalkComes`); two walks with the same steps are the same (`OneWalk`),
  and every byte belongs to one step (`WalkCovers`). In well-formed text the steps
  begin exactly where a byte continues no character (`CharactersBegin`), so that
  going back over continuing bytes comes to the beginning of the character
  (`BackIs`). Text that ends there is well-formed with the characters before
  (`FirstCharacters`), and text that ends within the character is not
  (`CutWithin`): it begins one that is incomplete. The converter, which looks at
  first bytes only, makes the same steps (`ConverterAgrees`). An accent that is
  taken off leaves a byte that ends its step before one that continues nothing
  (`AccentsRuin`).

- `RectsCoverTheirCells` (`GeometryProofs`; assumptions `GeometryAssumption`,
  `RectsAssumption`), for any limits of the integers and all rectangles with fields
  within them. The operations compute with edges, the promises speak of cells: a
  rectangle that is not empty is clamped to one with the same left and upper edge
  whose width does not wrap (`NormalIs`), and covers those of its cells that lie
  before the last edge (`NormalCells`). Each way, what two rectangles have in common
  lies between the greater of the first and the lesser of the second edges
  (`OneAxis`), a rectangle contains another when no edge of it comes before the
  other's (`CoversByEdges`), and the strips around a part cover the rest, each cell
  once (`AroundCells`, with `BothLists` for lists one after the other). A rectangle
  that begins at the last edge covers no cell, and whether another contains it goes
  by its edges, which is why containment is stated for those that cover one; a union
  whose sides are too long for the integers wraps (section 3), and is excepted.
- `TransformsAreUndone` (`GeometryProofs`, the same assumptions), for all rectangles
  and points. What is normalised to something that covers cells is `Proper`: it needs
  no clamping any more (`NormalIsProper`), and an operation whose exact result stays
  within the integers gives that result (`Exactly`). As long as the edges and the
  point are at most a quarter of the greatest integer, every intermediate result
  does: a rectangle that is turned keeps its distance to the pivot (`TurnedOnce`, four
  times in `RotatesBack`), one that is mirrored can be mirrored again (`Mirrored`), and
  so for moving, scaling, centering, widening, narrowing and shrinking to a ratio. A
  corner goes where the operation on points takes it (`CornersAre`, `CornerTurned`). A
  grid needs no such distance: its parts follow one another along each side
  (`PartsFollow`), the first of them longer by one, and every place of the side lies in
  one that is computed from it (`PartOf`), so that the cells of the parts are those of
  the rectangle, each once (`SplitsIt`).

The type theorems are proved for every value of the constants and not repeated by
a run, except that TLC checked them while the proofs were written.

Only model-checked:

- everything under fairness (`GestureIsReported`, `CallsReturn`,
  `PluginIsUnloaded`, `RequestsReturn`, `UserGetsOwnSettings`, `BreakerDecides`,
  `CallsAreAnswered`), for the prover has no rule for it;
- `MeasuresFitTheCells`, `CleanedOnceIsEnough`, `EncodingsUndo`: what folds and
  recursive functions compute for texts and lists of every length. The library's
  induction theorems take an operator as their parameter, which the installed
  provers cannot instantiate. Where induction over numbers was needed, in the count
  of the cache, for the meters and for the cuts of a text, it is done with sets in
  place of predicates (`LeastElement`, `CountingUp`, from the well-foundedness of
  the order on numbers), and a function defined by recursion is shown to exist first
  (`Recursion`, `WalkComes`); the folds, `SelectSeq`, `FlattenSeq` and powers that the
  other definitions are built from are opaque to the provers.

## 5. What is not modelled

Components left out: the extension runtime (it loads a script object and calls its
life cycle functions), the client proxy (it looks the service up and forwards) and
event reporting (counters that nothing reads).

Left out of modelled components on purpose: logging; focus events in the service,
where they change nothing; the empty block list; `ConnectNewExtAbility` and
`BlockData`, which have no caller; a virtual keyboard that fails while it is open;
the trigger mode in `ConfigSync`, which is written, watched and saved like the
application; parameters that cannot be written or are no valid value; moving and
resizing panels; the conversions between script and native values. Of the reserved
utilities: the scoped timer, the deferred executor and the two registries of the
bus file, which are plain maps; regular expressions, hashes, dates, sizes and XML
elements of the converters (`GetElementsByTagName` need not end on an element that
is not closed), and `ClampInt`. The header that holds the defaults of the numeric
conversions is not in the repository; every combination of them is an input.

Hazards of the code that no property covers, and why:

- the wall clock may be set back between clicks (IM 228): the age of a click only
  grows in the model;
- the bundle name of the selection before stays when a window is unknown or
  missing (IM 264), and an empty name is only logged (IM 602): the model follows
  both, and nothing says what would be right;
- the window and the bundle are copied after the flag was cleared, while a newer
  press may write them (IM 638): a data race on strings, whose outcomes the model
  would have to enumerate;
- a second answer to a disconnect for the same promise throws (SS 86): the ability
  manager of the model answers once;
- when a function of the plugin is missing, the pointers found before stay (SS
  1012): a library either has them all or is not built;
- a row that cannot be read counts as missing (SS 683), and a default row is made
  from parameters that may be a user's by then (`selection_config_comparator.cpp`
  60): `ConfigSync` does so, and `RowsAreOwn` allows it;
- the binary form of the least number is made of its negation, which the type cannot
  hold (undefined behaviour): `EncodingsUndo` asks nothing of it there.

What would come next: the distances and the lists of rectangles for all of them, and
the extension runtime, once the script runtime it drives has a model.
