SPECIFICATION Spec
CONSTANTS
  s1 = s1
  s2 = s2
  s3 = s3
  s4 = s4
  s5 = s5
  x = x
  y = y
  z = z
  Server = {s1, s2, s3}
  Command = {x, z}
  Me <- SameOrder
  Campaigns <- Rivals
  Heartbeats <- None
  Clients <- ClientsS1S3
  LogLengths <- Lengths2
  VoteLinks <- ToS2
  AppendLinks <- S1S2andS3S1
  Outstanding <- TwoCalls
  Crashes <- S2Once
  Faults <- None
  TornWrites = TRUE
  SharedArrays = FALSE
  IdleTicks = {}
PROPERTY TermNeverRegresses
CHECK_DEADLOCK FALSE
