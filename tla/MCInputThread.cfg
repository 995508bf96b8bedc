SPECIFICATION InputThreadSpec
CONSTANTS
    DOUBLE_CLICK_TIME = 1
    TRIPLE_CLICK_TIME = 0
    MAX_POSITION_CHANGE_OFFSET = 0
    Positions <- MCPositions
    Windows = {}
    NoWindow = NoWindow
    NoBundle = NoBundle
    Readers = {r1, r2}
    r1 = r1
    Binders = {b1, b2}
    Timers = {n1, n2, n3, n4}
    Unset = Unset
INVARIANTS ChecksFollowTheWait LoadedPluginIsTimed
PROPERTIES  OneReportPerGesture GestureIsReported PluginIsUnloaded
