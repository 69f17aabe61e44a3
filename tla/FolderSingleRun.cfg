SPECIFICATION FairSpec
CONSTANTS
    MaxUid = 3
    MaxValidity = 1
    MaxRuns = 1
    messageRetrievalBuffer = 1
    messageDeliveryBuffer = 1
    Faults <- SingleRunFaults
CHECK_DEADLOCK FALSE
INVARIANTS TypeOK InterruptReported InterruptHeeded
PROPERTIES QuietAfterReturn Termination
