SPECIFICATION FairSpec
CONSTANTS
  Pixels = 2
  Color <- Colors
  Black = "black"
  Length = 2
  Logs <- StartingRed
  RetryCount = 2
  Faults <- None
  Crashes <- None
INVARIANT PictureInOrder
CHECK_DEADLOCK FALSE
