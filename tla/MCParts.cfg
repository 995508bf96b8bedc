INIT Init
NEXT Next
CONSTANTS
    Keys = {k1, k2}
    Threads = {t1, t2}
    Levels <- MCLevels
    MAX_CONTEXT_COUNT = 1
    TokenUnits = 2
    Period = 16
    MaxTime = 3
    MaxCalls = 3
    EventTypes = {e1, e2}
    Priorities = {0, 1}
    MaxHandles = 3
    MaxDepth = 2
    CacheKeys = {k1, k2, k3}
    Nodes = {node1, node2, node3}
    CacheValues = {v1, v2}
    Capacity = 2
    Objects = {o1, o2, o3}
    MaxIdleSize = 2
    PreAllocSize = 1
    Transitions <- MCTransitions
    MaxHistorySize = 3
    Uids = {u1, u2}
    UserIds = {n1, n2}
    MaxRequests = 2
    WindowMs = 2
    RefillMs = 2
    TicksPerMs = 2
    MaxTicks = 6
    MetricNames = {m1}
    Samples = {0, 1, 5}
    MaxHistogramSamples = 3
    MaxRecorded = 5
    RetryConfig <- MCRetry
    MaxAttempt = 5
    MaxInits = 2
    MaxRemovals = 1
    MaxRegistrations = 2
    MaxTroubled = 1
    Panels = {menu, main}
    MenuPanels = {menu}
    WatchedPanels = {main}
    Callers = {t1, t2}
    Callbacks = {c1}
    MaxQueued = 2
    Clients = {jsApp, etsApp, otherApp}
    JsClients = {jsApp}
    BundleOf <- MCBundleOf
    Bundles = {bundle1, bundle2}
    ScriptCbs = {c1, c2}
    MaxPosted = 1
    PluginCallers = {t1, t2}
    RowUids = {u1}
    RowValues = {v1, v2}
    t1 = t1
    jsApp = jsApp
    etsApp = etsApp
    otherApp = otherApp
    bundle1 = bundle1
    bundle2 = bundle2
INVARIANTS AdmittedWithinLimit DeliveredByPriority ContainersAgree MetersAreRight WatchesWhatRuns NoShownPanelIsForgotten SubscriberIsHeard NoHalfSavedRow
CHECK_DEADLOCK FALSE
