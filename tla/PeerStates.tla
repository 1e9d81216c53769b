----------------------------- MODULE PeerStates -----------------------------
(***************************************************************************)
(* What can be seen of a Raft peer from outside: its state and its term.    *)
(***************************************************************************)
EXTENDS Naturals

VARIABLES state, term

peer == <<state, term>>

PeerInit == state = "Follower" /\ term = 0

\* becomeCandidate
Campaign ==
  /\ state # "Leader"
  /\ state' = "Candidate" /\ term' = term + 1

\* becomeLeader
Win ==
  /\ state = "Candidate"
  /\ state' = "Leader" /\ UNCHANGED term

\* becomeFollower, also by a restart
Follow(t) ==
  /\ t >= term
  /\ state' = "Follower" /\ term' = t

PeerNext == Campaign \/ Win \/ Follow(term')

PeerStep == PeerNext \/ UNCHANGED peer

PeerSpec == PeerInit /\ [][PeerNext]_peer

=============================================================================
