\* Two messages in one folder, two starts.
SPECIFICATION FairSpec
CONSTANTS
    Folder = {A}
    Nested = {}
    File = {m1, m2}
    Home <- AllInOne
    MaxStarts = 2
    MaxClock = 1
    NoFolder = NoFolder
INVARIANTS TypeOK EveryMessageServed CopyRight SyncComplete ReturnIsFinal
PROPERTIES InterruptEnds
\* The number of starts is bounded.
CHECK_DEADLOCK FALSE
