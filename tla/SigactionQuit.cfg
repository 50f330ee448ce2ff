\* One SIGQUIT at the wrong time is enough.
SPECIFICATION MCFairSpec
CONSTANT MaxSignals = 5
INVARIANT QuitSeen
CHECK_DEADLOCK FALSE
