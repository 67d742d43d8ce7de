\* Two of three listeners leave.
INIT WatchInit
NEXT WatchNext
SYMMETRY Symmetric
CHECK_DEADLOCK FALSE
CONSTANTS
    NoWatcher = NoWatcher
    Listeners = {l1, l2, l3}
    Watchers = {w1, w2}
    MaxChanges = 1
    MaxFaults = 0
INVARIANT
    ListenedWatcherRuns
