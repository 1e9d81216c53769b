--------------------------- MODULE RaftProperties ---------------------------
(***************************************************************************)
(* What the Raft peers owe one another and the service above them.          *)
(***************************************************************************)
EXTENDS Raft

\* The variables have the types that struct Raft, the RPC arguments and the
\* persisted record of raft/raft.go give them.
TypeOK ==
  /\ currentTerm \in [Server -> Nat]
  /\ votedFor \in [Server -> Nat \cup {Nobody}]
  /\ log \in [Server -> Seq(Entry)]
  /\ commitIndex \in [Server -> Index] /\ lastApplied \in [Server -> Index]
  /\ nextIndex \in [Server -> [Server -> Nat]]
  /\ matchIndex \in [Server -> [Server -> Index]]
  /\ serverState \in [Server -> {"Follower", "Candidate", "Leader"}]
  /\ receivedVote \in [Server -> SUBSET Server]
  /\ electionTimer \in [Server -> BOOLEAN]
  /\ heartbeatTimer \in [Server -> BOOLEAN]
  /\ status \in [Server -> {"up", "killed", "panicked"}]
  /\ stateFile \in [Server -> RaftPersistentData]
  /\ requestVoteRequests \subseteq RequestVoteRequest
  /\ requestVoteResponses \subseteq RequestVoteResponse
  /\ appendEntriesRequests \subseteq AppendEntriesRequest
  /\ appendEntriesResponses \subseteq AppendEntriesResponse
  /\ mishaps \in Nat
  /\ votes \subseteq [voter : Server, Term : Nat, candidate : Server]
  /\ elected \subseteq Nat \X Server
  /\ applied \subseteq [Index : Nat, Command : Command]

-----------------------------------------------------------------------------
(***************************************************************************)
(* Elections                                                                *)
(***************************************************************************)

\* At most one server becomes leader in a term, over the whole life of the
\* cluster: restarts, late answers and repeated calls never let a second one
\* gather a majority (handleRequestVote, the vote count in Run, becomeLeader).
ElectionSafety ==
  \A e, f \in elected : e[1] = f[1] => e[2] = f[2]

\* A server that votes in a term, answers a repeated call, dies and comes back
\* still votes for one candidate only (handleRequestVote, restoreState).
VoteOnce ==
  \A v, w \in votes :
    v.voter = w.voter /\ v.Term = w.Term => v.candidate = w.candidate

\* The fields marked "must be saved to disk before rpc response" are the saved
\* ones whenever the loop of a living server is between two events, which is
\* when an answer can leave it.
DurableState ==
  \A s \in Server :
    status[s] = "up" =>
      stateFile[s] = [CurrentTerm |-> currentTerm[s], VotedFor |-> votedFor[s],
                      Log |-> log[s]]

\* What a candidate counts as votes are votes: each was saved by its voter for
\* this candidate in this very term, however late the answer came.
CountedVotesAreVotes ==
  \A s \in Server :
    status[s] = "up" /\ serverState[s] \in {"Candidate", "Leader"} =>
      \A v \in receivedVote[s] :
        [voter |-> v, Term |-> currentTerm[s], candidate |-> s] \in votes

\* A server never goes back to an earlier term, not even by a restart
\* (becomeFollower, becomeCandidate, restoreState).
TermNeverRegresses ==
  [][\A s \in Server : currentTerm'[s] >= currentTerm[s]]_vars

Seen(s) == INSTANCE PeerStates WITH state <- serverState[s],
                                    term <- currentTerm[s]

\* Seen from outside, each peer campaigns, wins and follows as the display of
\* its events takes it to: it leads only in the term it campaigned in last, and
\* gives up that term only to follow in another or start again (Run,
\* becomeCandidate, becomeLeader, becomeFollower, restoreState).
ImplementsPeerStates ==
  /\ \A s \in Server : Seen(s)!PeerInit
  /\ [][\A s \in Server : Seen(s)!PeerStep]_vars

-----------------------------------------------------------------------------
(***************************************************************************)
(* The log                                                                  *)
(***************************************************************************)

\* Two logs that hold an entry of the same term at the same index agree up to
\* that index, in memory and in the state files (handleAppendEntries, Start).
LogMatching ==
  \A s, t \in Server :
    \A i \in 1 .. MinInt(Len(log[s]), Len(stateFile[t].Log)) :
      log[s][i].Term = stateFile[t].Log[i].Term =>
        SubSeq(log[s], 1, i) = SubSeq(stateFile[t].Log, 1, i)

\* No two servers apply different commands at one index (applyLogs).
AppliedAgree ==
  \A a, b \in applied : a.Index = b.Index => a.Command = b.Command

\* What any server has applied is on the disks of a majority, and stays there:
\* "once committed" is for ever (handleAppendEntriesResponse, applyLogs).
AppliedOnMajority ==
  \A a \in applied :
    IsMajority({s \in Server :
                  /\ Len(stateFile[s].Log) >= a.Index
                  /\ stateFile[s].Log[a.Index].Command = a.Command})

\* What a leader counts towards a majority is there: the log of a peer that is
\* in the leader's term agrees with the leader's up to the peer's match index
\* (handleAppendEntriesResponse).
MatchedIsReplicated ==
  \A s \in Server :
    status[s] = "up" /\ serverState[s] = "Leader" =>
      \A p \in Server \ {s} :
        stateFile[p].CurrentTerm = currentTerm[s] =>
          LET n == matchIndex[s][p] + 1
          IN /\ n <= Len(log[s]) /\ n <= Len(stateFile[p].Log)
             /\ SubSeq(log[s], 1, n) = SubSeq(stateFile[p].Log, 1, n)

\* The service's view: lastApplied is how far along the agreed log a replica is.
AgreedLog ==
  [i \in 1 .. Cardinality({a.Index : a \in applied}) |->
     (CHOOSE a \in applied : a.Index = i).Command]

Service == INSTANCE ReplicatedLog
             WITH Replica <- Server, agreed <- AgreedLog,
                  done <- [s \in Server |-> lastApplied[s] + 1]

\* The peers implement the replicated log: every handler that applies entries
\* goes one step along it, and every other step leaves it alone (applyLogs).
ImplementsReplicatedLog == Service!Spec


\* A process that keeps running never takes back a commit: commitIndex never
\* decreases between MakeRaft and the end of the process.
CommitNeverRegresses ==
  [][\A s \in Server :
       status[s] = "up" => commitIndex'[s] >= commitIndex[s]]_vars

-----------------------------------------------------------------------------
(***************************************************************************)
(* Timers                                                                   *)
(***************************************************************************)

\* No living server is left without the timer it needs: a leader has its
\* heartbeat timer running and any other server its election timer, although
\* both run out unused on the servers they say nothing to and are only reset
\* on some of the ways from one state to another.
TimersArmed ==
  \A s \in Server :
    status[s] = "up" =>
      IF serverState[s] = "Leader" THEN heartbeatTimer[s] ELSE electionTimer[s]

-----------------------------------------------------------------------------
(***************************************************************************)
(* Progress                                                                 *)
(***************************************************************************)

\* Once a leader has taken a command in its term and nobody starts another
\* election, every peer that it reaches applies it: lost calls, refused calls
\* and the refusal of every call that starts at index 1 are made up for by
\* later heartbeats (sendAppendEntriesToAll, handleAppendEntriesResponse).
EveryoneApplies ==
  \A s \in Server :
    serverState[s] = "Leader" /\ log[s] # << >> ~>
      \A p \in Server : lastApplied[p] >= Len(log[s]) - 1

=============================================================================
