SPECIFICATION TimerSpec
CONSTANTS
    Binders = {b1}
    Timers = {n1, n2, n3}
    Unset = Unset
INVARIANTS OldTimerIsCancelled
