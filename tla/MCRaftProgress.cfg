SPECIFICATION FairSpec
CONSTANTS
  s1 = s1
  s2 = s2
  s3 = s3
  s4 = s4
  s5 = s5
  x = x
  y = y
  z = z
  Server = {s1, s2, s3}
  Command = {x, y}
  Me <- LastInOwnList
  Campaigns <- OneLeader
  Heartbeats <- OneLeader
  Clients <- OneClient
  LogLengths <- Lengths2
  VoteLinks <- All
  AppendLinks <- All
  Outstanding <- OneCall
  Crashes <- None
  Faults <- OneFault
  TornWrites = FALSE
  SharedArrays = FALSE
  IdleTicks = {}
PROPERTY EveryoneApplies
CHECK_DEADLOCK FALSE
