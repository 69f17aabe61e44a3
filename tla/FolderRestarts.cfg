SPECIFICATION Spec
CONSTANTS
    MaxUid = 2
    MaxValidity = 2
    MaxRuns = 3
    messageRetrievalBuffer = 1
    messageDeliveryBuffer = 1
    Faults <- RestartFaults
CHECK_DEADLOCK FALSE
INVARIANTS RememberedStored DuplicatesPaidFor OneValidity SuccessIsComplete NeverSpoiledSilently
PROPERTIES ImplementsBackup
