SPECIFICATION Spec
CONSTANTS
  s1 = s1
  s2 = s2
  s3 = s3
  s4 = s4
  s5 = s5
  x = x
  y = y
  z = z
  Server = {s1, s2, s3, s4, s5}
  Command = {x, z}
  Me <- LastInOwnList
  Campaigns <- Returning
  Heartbeats <- AfterReturn
  Clients <- ClientsReturning
  LogLengths <- Lengths2
  VoteLinks <- VotesReturning
  AppendLinks <- S1S2andS3S1
  Outstanding <- OneCall
  Crashes <- None
  Faults <- None
  TornWrites = FALSE
  SharedArrays = FALSE
  IdleTicks = {}
INVARIANT MatchedIsReplicated
CHECK_DEADLOCK FALSE
