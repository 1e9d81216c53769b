SPECIFICATION Spec
CONSTANTS
  s1 = s1
  s2 = s2
  s3 = s3
  s4 = s4
  s5 = s5
  x = x
  y = y
  z = z
  Server = {s1, s2, s3}
  Command = {x, y}
  Me <- LastInOwnList
  Campaigns <- TwoLeaders
  Heartbeats <- None
  Clients <- ClientsS1S2
  LogLengths <- Length1
  VoteLinks <- Chain
  AppendLinks <- Line
  Outstanding <- TwoCalls
  Crashes <- S2Once
  Faults <- OneFault
  TornWrites = TRUE
  SharedArrays = FALSE
  IdleTicks = {s1, s2}
INVARIANTS TypeOK DurableState TimersArmed
CHECK_DEADLOCK FALSE
