\* A folder and one below it, one thread each.
SPECIFICATION Spec
CONSTANTS
    Folder <- Nested
    Validity <- SameValidity
    MaxUid = 1
    MaxRuns = 2
    Selections <- EverySelection
INVARIANTS NoFolderRefused
\* The number of runs is bounded.
CHECK_DEADLOCK FALSE
