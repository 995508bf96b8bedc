SPECIFICATION HistorySpec
CONSTANTS
    DOUBLE_CLICK_TIME = 2
    TRIPLE_CLICK_TIME = 1
    MAX_POSITION_CHANGE_OFFSET = 1
    Positions <- MCPositions
    Windows = {w1}
    NoWindow = NoWindow
    NoBundle = NoBundle
INVARIANTS StatesBelongTogether PressAwaitedWithButtonUp ReportedGestureIsReal CtrlClickDecides HeldButtonIsFollowed
PROPERTIES ImplementsGesture
