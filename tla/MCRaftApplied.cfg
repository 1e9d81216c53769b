SPECIFICATION Spec
CONSTANTS
  s1 = s1
  s2 = s2
  s3 = s3
  s4 = s4
  s5 = s5
  x = x
  y = y
  z = z
  Server = {s1, s2, s3}
  Command = {x, y}
  Me <- LastInOwnList
  Campaigns <- TwoLeaders
  Heartbeats <- TwoLeaders
  Clients <- ClientsS1S2
  LogLengths <- Lengths2
  VoteLinks <- Chain
  AppendLinks <- Chain
  Outstanding <- TwoCalls
  Crashes <- None
  Faults <- None
  TornWrites = FALSE
  SharedArrays = FALSE
  IdleTicks = {}
INVARIANT AppliedAgree
CHECK_DEADLOCK FALSE
