SPECIFICATION Spec
CONSTANTS
  s1 = s1
  s2 = s2
  s3 = s3
  s4 = s4
  s5 = s5
  x = x
  y = y
  z = z
  Server = {s1, s2, s3}
  Command = {x}
  Me <- SameOrder
  Campaigns <- TwoCandidates
  Heartbeats <- OneLeader
  Clients <- None
  LogLengths <- None
  VoteLinks <- All
  AppendLinks <- Line
  Outstanding <- OneCall
  Crashes <- AnyOnce
  Faults <- OneFault
  TornWrites = FALSE
  SharedArrays = FALSE
  IdleTicks = {}
INVARIANTS ElectionSafety VoteOnce CountedVotesAreVotes
PROPERTIES TermNeverRegresses ImplementsPeerStates
CHECK_DEADLOCK FALSE
