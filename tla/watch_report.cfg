SPECIFICATION WatchSpec
CONSTANTS
    Watchers = {w1}
    MaxFileEvents = 2
CHECK_DEADLOCK FALSE
PROPERTY WatchedIsReported
