\* Three folders below shared directories, one thread each, any selection in each run.
SPECIFICATION Spec
CONSTANTS
    Folder <- Siblings
    Validity <- SameValidity
    MaxUid = 1
    MaxRuns = 2
    Selections <- AnySelection
INVARIANTS RememberedInOwnMaildir StoredOnce NoFolderRefused
\* The number of runs is bounded.
CHECK_DEADLOCK FALSE
