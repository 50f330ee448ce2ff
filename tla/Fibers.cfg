\* The smallest stack that holds the calls.  Registers that all differ, anew
\* in each turn, so that to mix up any two shows.
SPECIFICATION FairSpec
CONSTANTS
    FiberWords = 16
    Contents <- MCContents
INVARIANT EntryAsCalled
PROPERTIES
    SwitchBack
    Ends
CHECK_DEADLOCK FALSE
