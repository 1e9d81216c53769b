SPECIFICATION Spec
CONSTANTS
  s1 = s1
  s2 = s2
  s3 = s3
  s4 = s4
  s5 = s5
  x = x
  y = y
  z = z
  Server = {s1, s2, s3}
  Command = {x}
  Me <- LastInOwnList
  Campaigns <- TwoCandidates
  Heartbeats <- None
  Clients <- None
  LogLengths <- None
  VoteLinks <- All
  AppendLinks <- None
  Outstanding <- OneCall
  Crashes <- None
  Faults <- None
  TornWrites = FALSE
  SharedArrays = FALSE
  IdleTicks = {}
INVARIANT ElectionSafety
CHECK_DEADLOCK FALSE
