------------------------------- MODULE MCRaft -------------------------------
(***************************************************************************)
(* The peers of raft/raft.go on small clusters: what the environment of     *)
(* each run may do.  Every run is one scenario, in which a few steps        *)
(* happen in every order.                                                   *)
(***************************************************************************)
EXTENDS RaftProperties, TLC

CONSTANTS s1, s2, s3, s4, s5, x, y, z

None == {}

-----------------------------------------------------------------------------
(* The number of a server in the list of peers it was started with *)

\* as doRaft has it: each server comes last in its own list
LastInOwnList == [s \in Server |-> Cardinality(Server) - 1]

\* as MakeRaft asks for: the lists are the same
SameOrder == [s \in Server |-> CASE s = s1 -> 0 [] s = s2 -> 1 [] OTHER -> 2]

-----------------------------------------------------------------------------
(* Who may campaign, in which term *)
OneLeader == {<<s1, 1>>}
TwoLeaders == {<<s1, 1>>, <<s2, 2>>}
TwoCandidates == {<<s1, 1>>, <<s2, 1>>, <<s1, 2>>}
Rivals == {<<s1, 1>>, <<s3, 1>>}

\* s1 leads, s3 takes over, s1 comes back
Returning == {<<s1, 1>>, <<s3, 2>>, <<s1, 3>>}
AfterReturn == {<<s1, 3>>}

-----------------------------------------------------------------------------
(* Which command is given to which leader *)
OneClient == {<<s1, 1, x>>}
ClientsS1S2 == {<<s1, 1, x>>, <<s2, 2, y>>}
ClientsS1S3 == {<<s1, 1, x>>, <<s3, 1, z>>}
ClientsReturning == {<<s1, 1, x>>, <<s3, 2, z>>}

-----------------------------------------------------------------------------
(* Who reaches whom *)
All == Server \X Server
Chain == {<<s1, s2>>, <<s2, s3>>}
Line == {<<s1, s2>>, <<s2, s1>>, <<s2, s3>>}
ToS2 == {<<s1, s2>>, <<s3, s2>>}
S1S2andS3S1 == {<<s1, s2>>, <<s3, s1>>}

\* s1 is elected by s2 and s3, s3 by s4 and s5
VotesReturning == {<<s1, s2>>, <<s1, s3>>, <<s3, s4>>, <<s3, s5>>}

-----------------------------------------------------------------------------
(* How much of the rest *)
Length1 == {1}
Lengths2 == {1, 2}
OneFault == {1}
AnyOnce == Server \X {1}
S2Once == {<<s2, 1>>}
OneCall == {0}
TwoCalls == {0, 1}

=============================================================================
