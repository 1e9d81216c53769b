SPECIFICATION FairSpec
CONSTANTS
  Pixels = 2
  Color <- Colors
  Black = "black"
  Length = 2
  Logs <- StartingRed
  RetryCount = 2
  Faults <- UpTo2
  Crashes <- UpTo1
INVARIANT MatrixShowsLog
PROPERTIES ImplementsCanvas MatrixCatchesUp
CHECK_DEADLOCK FALSE
