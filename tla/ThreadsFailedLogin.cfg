\* The login of a thread other than the first may fail; nothing else does.
CONSTANTS
    MaxFolders = 2
    MaxSignals = 0
    Faults <- LoginOfThread
SPECIFICATION Spec
INVARIANTS
    NoPanic
CHECK_DEADLOCK FALSE
