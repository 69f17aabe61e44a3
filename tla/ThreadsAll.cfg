\* Up to three folders, every number of threads, every fault, two interrupts.
CONSTANTS
    MaxFolders = 3
    MaxSignals = 2
    Faults <- AllFaults
SPECIFICATION FairSpec
INVARIANTS
    TypeOK
    SuccessIsComplete
    OnePipelinePerFolder
    DownloadsHaveSession
    SessionsClosed
    FirstInterruptIsGraceful
PROPERTIES
    NoFolderAfterInterrupt
    Termination
\* DownloadFolder stops when it has returned.
CHECK_DEADLOCK FALSE
