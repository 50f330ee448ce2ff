\* A signal more than the handler's variable and the pending set can tell.
SPECIFICATION MCFairSpec
CONSTANT MaxSignals = 5
PROPERTY QuitEnds
CHECK_DEADLOCK FALSE
