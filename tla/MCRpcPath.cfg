SPECIFICATION FairSpec
CONSTANTS
  RetryCount = 2
  Handlers = 2
  FaultCounts <- UpTo2
  ToggleCounts <- UpTo2
INVARIANTS TypeOK RepeatedOnlyByFaults
PROPERTIES ImplementsRemoteCall CallReturns ComesToRest
CHECK_DEADLOCK FALSE
