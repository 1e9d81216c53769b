------------------------- MODULE RaftElectionProofs -------------------------
(***************************************************************************)
(* Election safety of the Raft peers, for any number of servers, with calls *)
(* lost, repeated and answered late and processes killed and restarted, and *)
(* what holds of each peer by itself: its term, the states that the display *)
(* of its events expects, and the timer it always has running.              *)
(* Assumed where a theorem says so: a process is never killed inside        *)
(* ioutil.WriteFile, and the servers go by distinct numbers.                *)
(***************************************************************************)
EXTENDS RaftTypeProofs, FiniteSetTheorems

DistinctNumbers == \A s, t \in Server : Me[s] = Me[t] => s = t

\* A vote cannot be forgotten: the voter's state file is in a later term, or in
\* that term and names the candidate.
SavedVotes ==
  \A v \in votes :
    /\ v.Term <= stateFile[v.voter].CurrentTerm
    /\ v.Term = stateFile[v.voter].CurrentTerm =>
         stateFile[v.voter].VotedFor = Me[v.candidate]

\* A candidate asks for votes for its own number.
CandidatesNameThemselves ==
  \A r \in requestVoteRequests : r.args.CandidateId = Me[r.from]

\* Answers under way that grant a vote do so truthfully.
GrantsAreVotes ==
  \A r \in requestVoteResponses :
    r.reply.VoteGranted =>
      [voter |-> r.server, Term |-> r.reply.Term,
       candidate |-> r.to] \in votes

\* A majority voted for every leader in its term.
ElectedByMajority ==
  \A e \in elected :
    \E Q \in SUBSET Server :
      /\ IsMajority(Q)
      /\ \A q \in Q : [voter |-> q, Term |-> e[1], candidate |-> e[2]] \in votes

ElectionInv ==
  /\ DurableState
  /\ CandidatesNameThemselves
  /\ SavedVotes
  /\ VoteOnce
  /\ GrantsAreVotes
  /\ CountedVotesAreVotes
  /\ ElectedByMajority

\* How a state file may change: to a later term, or within its term from no
\* vote to a vote.
Advances(old, new) ==
  \/ new.CurrentTerm > old.CurrentTerm
  \/ /\ new.CurrentTerm = old.CurrentTerm
     /\ old.VotedFor \in {Nobody, new.VotedFor}

-----------------------------------------------------------------------------
(***************************************************************************)
(* What each step does to the state file and the memory of a living server  *)
(***************************************************************************)

\* The state file of a living server, field by field.
LEMMA DurableFields ==
  ASSUME DurableState, NEW s \in Server, status[s] = "up"
  PROVE  /\ stateFile[s].CurrentTerm = currentTerm[s]
         /\ stateFile[s].VotedFor = votedFor[s]
         /\ stateFile[s].Log = log[s]
<1>1. stateFile[s] = [CurrentTerm |-> currentTerm[s], VotedFor |-> votedFor[s],
                      Log |-> log[s]]
  BY DEF DurableState
<1> QED
  BY <1>1

\* A handler that changes the memory of s only and ends with persist() leaves
\* every server durable.
LEMMA PersistKeepsDurable ==
  ASSUME TypeOK, DurableState, NEW s \in Server, Persist(s),
         \A p \in Server \ {s} : /\ currentTerm'[p] = currentTerm[p]
                                 /\ votedFor'[p] = votedFor[p]
                                 /\ log'[p] = log[p],
         \A p \in Server : status'[p] = "up" => status[p] = "up"
  PROVE  /\ DurableState'
         /\ \A p \in Server \ {s} : stateFile'[p] = stateFile[p]
         /\ stateFile'[s].CurrentTerm = currentTerm'[s]
         /\ stateFile'[s].VotedFor = votedFor'[s]
<1>1. /\ stateFile'[s] = [CurrentTerm |-> currentTerm'[s],
                          VotedFor |-> votedFor'[s], Log |-> log'[s]]
      /\ \A p \in Server \ {s} : stateFile'[p] = stateFile[p]
  BY DEF TypeOK, Persist
<1>2. ASSUME NEW p \in Server \ {s}, status'[p] = "up"
      PROVE  stateFile'[p] = [CurrentTerm |-> currentTerm'[p],
                              VotedFor |-> votedFor'[p], Log |-> log'[p]]
  BY <1>1, <1>2 DEF DurableState
<1>3. DurableState'
  BY <1>1, <1>2 DEF DurableState
<1> QED
  BY <1>1, <1>3

\* becomeFollower with the persist() of its handler.
LEMMA BecomeFollowerAdvances ==
  ASSUME TypeOK, DurableState, NEW s \in Server, status[s] = "up",
         NEW term \in Nat, NEW keep \in BOOLEAN,
         keep => term = currentTerm[s], ~keep => term > currentTerm[s],
         BecomeFollower(s, term, keep),
         \A p \in Server \ {s} : log'[p] = log[p],
         Persist(s), \A p \in Server : status'[p] = "up" => status[p] = "up"
  PROVE  DurableState' /\ \A p \in Server : Advances(stateFile[p], stateFile'[p])
<1>1. /\ currentTerm'[s] = term
      /\ keep => votedFor'[s] = votedFor[s]
      /\ \A p \in Server \ {s} : /\ currentTerm'[p] = currentTerm[p]
                                 /\ votedFor'[p] = votedFor[p]
  BY DEF BecomeFollower, TypeOK
<1>2. /\ DurableState'
      /\ \A p \in Server \ {s} : stateFile'[p] = stateFile[p]
      /\ stateFile'[s].CurrentTerm = currentTerm'[s]
      /\ stateFile'[s].VotedFor = votedFor'[s]
  BY <1>1, PersistKeepsDurable
<1>3. Advances(stateFile[s], stateFile'[s])
  BY <1>1, <1>2, DurableFields DEF Advances
<1>4. \A p \in Server \ {s} : Advances(stateFile[p], stateFile'[p])
  BY <1>2 DEF Advances
<1> QED
  BY <1>2, <1>3, <1>4

\* A step that leaves memory, state files and who is up alone, but for
\* processes that end.
LEMMA NothingPersisted ==
  ASSUME DurableState, UNCHANGED <<memory, stateFile>>,
         \A p \in Server : status'[p] = "up" => status[p] = "up"
  PROVE  DurableState' /\ \A p \in Server : Advances(stateFile[p], stateFile'[p])
BY DEF DurableState, memory, Advances

LEMMA TerminateStatus ==
  ASSUME TypeOK, NEW s \in Server, NEW how \in {"killed", "panicked"},
         Terminate(s, how)
  PROVE  /\ status'[s] # "up"
         /\ \A p \in Server \ {s} : status'[p] = status[p]
BY DEF TypeOK, Terminate

LEMMA SendStatus ==
  ASSUME TypeOK, NEW s \in Server, NEW l, NEW requests,
         SendAppendEntriesToAll(s, l, requests)
  PROVE  \A p \in Server : status'[p] = "up" => status[p] = "up"
BY TerminateStatus DEF SendAppendEntriesToAll

\* The step lemma for DurableState; and no step makes a state file forget, but
\* for the kill inside ioutil.WriteFile.
LEMMA FilesAdvance ==
  ASSUME TypeInv, DurableState, Next
  PROVE  /\ DurableState'
         /\ TornWrites \/ \A p \in Server : Advances(stateFile[p], stateFile'[p])
<1> DEFINE Goal == /\ DurableState'
                   /\ \/ TornWrites
                      \/ \A p \in Server : Advances(stateFile[p], stateFile'[p])
<1> USE DEF TypeInv
<1>1. ASSUME NEW s \in Server, BecomeCandidate(s) PROVE Goal
  <2>1. /\ status[s] = "up" /\ Persist(s) /\ UNCHANGED <<log, status>>
        /\ currentTerm' = [currentTerm EXCEPT ![s] = currentTerm[s] + 1]
        /\ votedFor' = [votedFor EXCEPT ![s] = Me[s]]
    BY <1>1 DEF BecomeCandidate
  <2>2. /\ currentTerm'[s] = currentTerm[s] + 1 /\ currentTerm[s] \in Nat
        /\ \A p \in Server \ {s} : /\ currentTerm'[p] = currentTerm[p]
                                   /\ votedFor'[p] = votedFor[p]
                                   /\ log'[p] = log[p]
    BY <2>1 DEF TypeOK
  <2>3. /\ DurableState'
        /\ \A p \in Server \ {s} : stateFile'[p] = stateFile[p]
        /\ stateFile'[s].CurrentTerm = currentTerm'[s]
    BY <2>1, <2>2, PersistKeepsDurable
  <2>4. stateFile'[s].CurrentTerm > stateFile[s].CurrentTerm
    BY <2>1, <2>2, <2>3, DurableFields
  <2> QED
    BY <2>3, <2>4 DEF Advances
<1>2. ASSUME NEW s \in Server, Heartbeat(s) PROVE Goal
  <2>1. /\ SendAppendEntriesToAll(s, log[s], appendEntriesRequests)
        /\ UNCHANGED <<memory, stateFile>>
    BY <1>2 DEF Heartbeat
  <2> QED
    BY <2>1, SendStatus, NothingPersisted
<1>3. ASSUME NEW s \in Server, IdleTick(s) PROVE Goal
  <2>1. UNCHANGED <<memory, status, stateFile>>
    BY <1>3 DEF IdleTick
  <2> QED
    BY <2>1, NothingPersisted
<1>4. ASSUME NEW s \in Server, NEW c \in Command, Start(s, c) PROVE Goal
  <2> DEFINE newLog == Append(log[s], [Term |-> currentTerm[s], Command |-> c])
  <2>1. /\ status[s] = "up" /\ Persist(s) /\ UNCHANGED <<currentTerm, votedFor>>
        /\ log' = [log EXCEPT ![s] = newLog]
        /\ \E raced \in SUBSET Unencoded(s) :
             SendAppendEntriesToAll(s, newLog, AfterRace(raced, newLog))
    BY <1>4 DEF Start
  <2> HIDE DEF newLog
  <2>2. \A p \in Server : status'[p] = "up" => status[p] = "up"
    BY <2>1, SendStatus
  <2>3. \A p \in Server \ {s} : /\ currentTerm'[p] = currentTerm[p]
                               /\ votedFor'[p] = votedFor[p]
                               /\ log'[p] = log[p]
    BY <2>1 DEF TypeOK
  <2>4. /\ DurableState'
        /\ \A p \in Server \ {s} : stateFile'[p] = stateFile[p]
        /\ stateFile'[s].CurrentTerm = currentTerm'[s]
        /\ stateFile'[s].VotedFor = votedFor'[s]
    BY <2>1, <2>2, <2>3, PersistKeepsDurable
  <2>5. Advances(stateFile[s], stateFile'[s])
    BY <2>1, <2>4, DurableFields DEF Advances
  <2> QED
    BY <2>4, <2>5 DEF Advances
<1>5. ASSUME NEW s \in Server, Crash(s) PROVE Goal
  <2>1. Terminate(s, "killed") /\ UNCHANGED <<memory, stateFile>>
    BY <1>5 DEF Crash, Kill
  <2> QED
    BY <2>1, TerminateStatus, NothingPersisted
<1>6. ASSUME NEW s \in Server, CrashAfterBecomeFollower(s) PROVE Goal
  <2>1. /\ status[s] = "up" /\ Terminate(s, "killed") /\ UNCHANGED memory
    BY <1>6 DEF CrashAfterBecomeFollower, Kill
  <2>2. PICK r \in requestVoteRequests \cup appendEntriesRequests :
          /\ r.args.Term > currentTerm[s]
          /\ stateFile' = [stateFile EXCEPT ![s].CurrentTerm = r.args.Term,
                                            ![s].VotedFor = Nobody]
    BY <1>6 DEF CrashAfterBecomeFollower
  <2>3. stateFile[s].CurrentTerm = currentTerm[s] /\ stateFile[s] \in RaftPersistentData
    BY <2>1, DurableFields DEF TypeOK
  <2>4. /\ stateFile'[s].CurrentTerm = r.args.Term
        /\ \A p \in Server \ {s} : stateFile'[p] = stateFile[p]
    BY <2>2, <2>3 DEF TypeOK, RaftPersistentData
  <2>5. DurableState'
    BY <2>1, <2>4, TerminateStatus DEF DurableState, memory
  <2> QED
    BY <2>2, <2>3, <2>4, <2>5 DEF Advances
<1>7. ASSUME NEW s \in Server, Restart(s) PROVE Goal
  <2>1. /\ stateFile[s] = [CurrentTerm |-> stateFile[s].CurrentTerm,
                           VotedFor |-> stateFile[s].VotedFor,
                           Log |-> stateFile[s].Log]
    BY DEF TypeOK, RaftPersistentData
  <2>2. /\ currentTerm'[s] = stateFile[s].CurrentTerm
        /\ votedFor'[s] = stateFile[s].VotedFor
        /\ log'[s] = stateFile[s].Log
        /\ \A p \in Server \ {s} :
             /\ currentTerm'[p] = currentTerm[p] /\ votedFor'[p] = votedFor[p]
             /\ log'[p] = log[p] /\ status'[p] = status[p]
        /\ UNCHANGED stateFile
    BY <1>7 DEF Restart, TypeOK
  <2>3. DurableState'
    BY <2>1, <2>2 DEF DurableState
  <2> QED
    BY <2>2, <2>3 DEF Advances
<1>8. ASSUME NEW r \in requestVoteRequests, HandleRequestVote(r) PROVE Goal
  <2> DEFINE s == r.to
             newer == r.args.Term > currentTerm[s]
             term == IF newer THEN r.args.Term ELSE currentTerm[s]
             vote == IF newer THEN Nobody ELSE votedFor[s]
             granted == /\ ~MoreComplete(s, r.args)
                        /\ r.args.Term >= term
                        /\ MayVote(vote, r.args)
  <2>1. s \in Server /\ r.args.Term \in Nat /\ currentTerm[s] \in Nat
    BY DEF TypeOK, RequestVoteRequest, RequestVoteArgs
  <2>2. /\ status[s] = "up" /\ UNCHANGED <<log, status>>
        /\ currentTerm' = [currentTerm EXCEPT ![s] = term]
        /\ votedFor' = [votedFor EXCEPT ![s] = IF granted THEN r.args.CandidateId
                                                          ELSE vote]
        /\ IF newer \/ granted THEN Persist(s) ELSE UNCHANGED stateFile
    BY <1>8 DEF HandleRequestVote
  <2>3. /\ currentTerm'[s] = term
        /\ votedFor'[s] = IF granted THEN r.args.CandidateId ELSE vote
        /\ \A p \in Server \ {s} : /\ currentTerm'[p] = currentTerm[p]
                                   /\ votedFor'[p] = votedFor[p]
                                   /\ log'[p] = log[p]
    BY <2>1, <2>2 DEF TypeOK
  <2>4. granted => vote \in {Nobody, r.args.CandidateId}
    BY DEF MayVote
  <2> HIDE DEF s, granted
  <2>5. CASE newer \/ granted
    <3>1. /\ DurableState'
          /\ \A p \in Server \ {s} : stateFile'[p] = stateFile[p]
          /\ stateFile'[s].CurrentTerm = currentTerm'[s]
          /\ stateFile'[s].VotedFor = votedFor'[s]
      BY <2>1, <2>2, <2>3, <2>5, PersistKeepsDurable
    <3>2. Advances(stateFile[s], stateFile'[s])
      BY <2>1, <2>2, <2>3, <2>4, <2>5, <3>1, DurableFields DEF Advances
    <3> QED
      BY <3>1, <3>2 DEF Advances
  <2>6. CASE ~(newer \/ granted)
    <3>1. UNCHANGED <<memory, stateFile, status>>
      BY <2>1, <2>2, <2>6 DEF memory, TypeOK
    <3> QED
      BY <3>1, NothingPersisted
  <2> QED
    BY <2>5, <2>6
<1>9. ASSUME NEW r \in requestVoteResponses, HandleRequestVoteResponse(r) PROVE Goal
  <2> DEFINE s == r.to
  <2>1. s \in Server /\ r.reply.Term \in Nat
    BY DEF TypeOK, RequestVoteResponse
  <2>2. /\ status[s] = "up" /\ UNCHANGED status
        /\ \/ /\ r.reply.Term > currentTerm[s]
              /\ BecomeFollower(s, r.reply.Term, FALSE) /\ UNCHANGED log /\ Persist(s)
           \/ UNCHANGED <<memory, stateFile>>
    BY <1>9 DEF HandleRequestVoteResponse
  <2> HIDE DEF s
  <2>3. CASE UNCHANGED <<memory, stateFile>>
    BY <2>2, <2>3, NothingPersisted
  <2>4. CASE /\ r.reply.Term > currentTerm[s]
             /\ BecomeFollower(s, r.reply.Term, FALSE) /\ UNCHANGED log /\ Persist(s)
    BY <2>1, <2>2, <2>4, BecomeFollowerAdvances
  <2> QED
    BY <2>2, <2>3, <2>4
<1>10. ASSUME NEW r \in appendEntriesRequests, RejectOutdatedAppendEntries(r)
       PROVE  Goal
  <2>1. UNCHANGED <<memory, status, stateFile>>
    BY <1>10 DEF RejectOutdatedAppendEntries
  <2> QED
    BY <2>1, NothingPersisted
<1>11. ASSUME NEW r \in appendEntriesRequests, HandleAppendEntries(r) PROVE Goal
  <2> DEFINE s == r.to
             keep == r.args.Term = currentTerm[s]
  <2>1. s \in Server /\ r.args.Term \in Nat /\ currentTerm[s] \in Nat
    BY DEF TypeOK, AppendEntriesRequest, AppendEntriesArgs
  <2>2. /\ status[s] = "up" /\ UNCHANGED status
        /\ r.args.Term >= currentTerm[s]
        /\ BecomeFollower(s, r.args.Term, keep) /\ Persist(s)
    BY <1>11 DEF HandleAppendEntries
  <2>3. \A p \in Server \ {s} : log'[p] = log[p]
    BY <1>11 DEF HandleAppendEntries, TypeOK
  <2>4. /\ keep \in BOOLEAN
        /\ keep => r.args.Term = currentTerm[s]
        /\ ~keep => r.args.Term > currentTerm[s]
    BY <2>1, <2>2
  <2> HIDE DEF s, keep
  <2> QED
    BY <2>1, <2>2, <2>3, <2>4, BecomeFollowerAdvances
<1>12. ASSUME NEW r \in appendEntriesResponses, HandleAppendEntriesResponse(r)
       PROVE  Goal
  <2> DEFINE s == r.to
  <2>1. s \in Server /\ r.reply.Term \in Nat
    BY DEF TypeOK, AppendEntriesResponse
  <2>2. /\ status[s] = "up"
        /\ \/ /\ Terminate(s, "panicked") \/ UNCHANGED status
              /\ UNCHANGED <<memory, stateFile>>
           \/ /\ r.reply.Term > currentTerm[s] /\ UNCHANGED status
              /\ BecomeFollower(s, r.reply.Term, FALSE) /\ UNCHANGED log /\ Persist(s)
    BY <1>12 DEF HandleAppendEntriesResponse
  <2> HIDE DEF s
  <2>3. CASE /\ Terminate(s, "panicked") \/ UNCHANGED status
             /\ UNCHANGED <<memory, stateFile>>
    BY <2>1, <2>3, TerminateStatus, NothingPersisted
  <2>4. CASE /\ r.reply.Term > currentTerm[s] /\ UNCHANGED status
             /\ BecomeFollower(s, r.reply.Term, FALSE) /\ UNCHANGED log /\ Persist(s)
    BY <2>1, <2>2, <2>4, BecomeFollowerAdvances
  <2> QED
    BY <2>2, <2>3, <2>4
<1>13. ASSUME Retry \/ CallFails \/ EmptyAnswer PROVE Goal
  <2>1. UNCHANGED <<memory, status, stateFile>>
    BY <1>13 DEF Retry, CallFails, EmptyAnswer
  <2> QED
    BY <2>1, NothingPersisted
<1>14. ASSUME NEW s \in Server, CrashInWriteFile(s) PROVE Goal
  <2>1. TornWrites /\ Terminate(s, "killed") /\ UNCHANGED memory
    BY <1>14 DEF CrashInWriteFile, Kill
  <2>2. \A p \in Server \ {s} : stateFile'[p] = stateFile[p]
    BY <1>14 DEF CrashInWriteFile, TypeOK
  <2>3. DurableState'
    BY <2>1, <2>2, TerminateStatus DEF DurableState, memory
  <2> QED
    BY <2>1, <2>3
<1> HIDE DEF Goal
<1>15. Goal
  BY <1>1, <1>2, <1>3, <1>4, <1>5, <1>6, <1>7, <1>8, <1>9, <1>10, <1>11, <1>12,
     <1>13, <1>14 DEF Next, ServerStep, MessageStep
<1> QED
  BY <1>15 DEF Goal

-----------------------------------------------------------------------------
(***************************************************************************)
(* What each step does to votes, answers and counts                         *)
(***************************************************************************)

LEMMA VotesStay ==
  ASSUME Next
  PROVE  votes \subseteq votes'
BY DEF Next, ServerStep, MessageStep, BecomeCandidate, Heartbeat, IdleTick, Start,
       Crash, CrashAfterBecomeFollower, CrashInWriteFile, Kill, Restart,
       HandleRequestVote, HandleRequestVoteResponse, RejectOutdatedAppendEntries,
       HandleAppendEntries, HandleAppendEntriesResponse, Retry, CallFails,
       EmptyAnswer

\* Requests are made by candidates; everything else forwards, copies or drops.
LEMMA CandidatesNameThemselvesStep ==
  ASSUME TypeInv, CandidatesNameThemselves, Next
  PROVE  CandidatesNameThemselves'
<1> DEFINE Old(q) == \E r \in requestVoteRequests : q.from = r.from /\ q.args = r.args
           Goal == \A q \in requestVoteRequests' :
                     Old(q) \/ q.args.CandidateId = Me[q.from]
<1>0. \A r \in requestVoteRequests :
        Abandoned(r).from = r.from /\ Abandoned(r).args = r.args
  BY DEF Abandoned, RequestVoteRequest, TypeInv, TypeOK
<1>1. \A s, how : Terminate(s, how) => \A q \in requestVoteRequests' : Old(q)
  BY <1>0 DEF Terminate
<1>2. \A s, l, requests : SendAppendEntriesToAll(s, l, requests) =>
        \A q \in requestVoteRequests' : Old(q)
  BY <1>1 DEF SendAppendEntriesToAll, voteCalls
<1>3. ASSUME NEW s \in Server, ServerStep(s) PROVE Goal
  <2>1. CASE BecomeCandidate(s)
    BY <2>1 DEF BecomeCandidate
  <2>2. CASE Heartbeat(s)
    BY <1>2, <2>2 DEF Heartbeat
  <2>3. CASE IdleTick(s) \/ Restart(s)
    BY <2>3 DEF IdleTick, Restart, voteCalls
  <2>4. CASE \E c \in Command : Start(s, c)
    <3>1. \E l, requests : SendAppendEntriesToAll(s, l, requests)
      BY <2>4 DEF Start
    <3> QED
      BY <1>2, <3>1
  <2>5. CASE Crash(s) \/ CrashAfterBecomeFollower(s) \/ CrashInWriteFile(s)
    <3>1. Terminate(s, "killed")
      BY <2>5 DEF Crash, CrashAfterBecomeFollower, CrashInWriteFile, Kill
    <3> QED
      BY <1>1, <3>1
  <2> QED
    BY <1>3, <2>1, <2>2, <2>3, <2>4, <2>5 DEF ServerStep
<1>4. ASSUME NEW r \in appendEntriesResponses, HandleAppendEntriesResponse(r)
      PROVE  Goal
  <2>1. Terminate(r.to, "panicked") \/ UNCHANGED requestVoteRequests
    BY <1>4 DEF HandleAppendEntriesResponse, voteCalls
  <2> QED
    BY <1>1, <2>1
<1>5. ASSUME Retry \/ CallFails \/ EmptyAnswer PROVE Goal
  BY <1>0, <1>5 DEF Retry, CallFails, EmptyAnswer, voteCalls
<1>6. ASSUME \/ \E r \in requestVoteRequests : HandleRequestVote(r)
             \/ \E r \in requestVoteResponses : HandleRequestVoteResponse(r)
             \/ \E r \in appendEntriesRequests :
                  RejectOutdatedAppendEntries(r) \/ HandleAppendEntries(r)
      PROVE  Goal
  BY <1>6 DEF HandleRequestVote, HandleRequestVoteResponse,
              RejectOutdatedAppendEntries, HandleAppendEntries, voteCalls
<1> HIDE DEF Goal
<1>7. Goal
  BY <1>3, <1>4, <1>5, <1>6 DEF Next, MessageStep
<1> QED
  BY <1>7 DEF Goal, CandidatesNameThemselves

\* Votes are cast in two places, and are saved before the handler ends.
LEMMA NewVotesAreSaved ==
  ASSUME TypeInv, CandidatesNameThemselves, Next
  PROVE  \A v \in votes' \ votes :
           /\ v.Term = stateFile'[v.voter].CurrentTerm
           /\ Me[v.candidate] = stateFile'[v.voter].VotedFor
<1> DEFINE Saved(v) == /\ v.Term = stateFile'[v.voter].CurrentTerm
                       /\ Me[v.candidate] = stateFile'[v.voter].VotedFor
           Goal == \A v \in votes' \ votes : Saved(v)
<1> USE DEF TypeInv
<1>1. ASSUME NEW s \in Server, BecomeCandidate(s) PROVE Goal
  <2> DEFINE v == [voter |-> s, Term |-> currentTerm[s] + 1, candidate |-> s]
  <2>1. /\ Persist(s) /\ votes' = votes \cup {v}
        /\ currentTerm' = [currentTerm EXCEPT ![s] = currentTerm[s] + 1]
        /\ votedFor' = [votedFor EXCEPT ![s] = Me[s]]
    BY <1>1 DEF BecomeCandidate
  <2>2. currentTerm'[s] = currentTerm[s] + 1 /\ votedFor'[s] = Me[s]
    BY <2>1 DEF TypeOK
  <2>3. stateFile'[s].CurrentTerm = currentTerm'[s] /\ stateFile'[s].VotedFor = votedFor'[s]
    BY <2>1 DEF Persist, TypeOK
  <2> QED
    BY <2>1, <2>2, <2>3
<1>2. ASSUME NEW r \in requestVoteRequests, HandleRequestVote(r) PROVE Goal
  <2> DEFINE s == r.to
             newer == r.args.Term > currentTerm[s]
             term == IF newer THEN r.args.Term ELSE currentTerm[s]
             vote == IF newer THEN Nobody ELSE votedFor[s]
             granted == /\ ~MoreComplete(s, r.args)
                        /\ r.args.Term >= term
                        /\ MayVote(vote, r.args)
             v == [voter |-> s, Term |-> r.args.Term,
                   candidate |-> r.from]
  <2>1. /\ s \in Server /\ r.args.Term \in Nat /\ currentTerm[s] \in Nat
        /\ r.args.CandidateId = Me[r.from]
    BY DEF TypeOK, RequestVoteRequest, RequestVoteArgs, CandidatesNameThemselves
  <2>2. /\ currentTerm' = [currentTerm EXCEPT ![s] = term]
        /\ votedFor' = [votedFor EXCEPT ![s] = IF granted THEN r.args.CandidateId
                                                          ELSE vote]
        /\ IF newer \/ granted THEN Persist(s) ELSE UNCHANGED stateFile
        /\ votes' = IF granted THEN votes \cup {v} ELSE votes
    BY <1>2 DEF HandleRequestVote
  <2>3. granted => term = r.args.Term
    BY <2>1
  <2> HIDE DEF s, granted
  <2>4. CASE granted
    <3>1. currentTerm'[s] = r.args.Term /\ votedFor'[s] = r.args.CandidateId
      BY <2>1, <2>2, <2>3, <2>4 DEF TypeOK
    <3>2. stateFile'[s].CurrentTerm = currentTerm'[s] /\ stateFile'[s].VotedFor = votedFor'[s]
      BY <2>1, <2>2, <2>4 DEF Persist, TypeOK
    <3> QED
      BY <2>1, <2>2, <2>4, <3>1, <3>2
  <2>5. CASE ~granted
    BY <2>2, <2>5
  <2> QED
    BY <2>4, <2>5
<1>3. CASE UNCHANGED votes
  BY <1>3
<1>4. \/ \E s \in Server : BecomeCandidate(s)
      \/ \E r \in requestVoteRequests : HandleRequestVote(r)
      \/ UNCHANGED votes
  BY DEF Next, ServerStep, MessageStep, Heartbeat, IdleTick, Start, Crash,
         CrashAfterBecomeFollower, CrashInWriteFile, Kill, Restart,
         HandleRequestVoteResponse, RejectOutdatedAppendEntries,
         HandleAppendEntries, HandleAppendEntriesResponse, Retry, CallFails,
         EmptyAnswer
<1> QED
  BY <1>1, <1>2, <1>3, <1>4

LEMMA SavedVotesStep ==
  ASSUME TornWrites = FALSE, TypeInv, DurableState, CandidatesNameThemselves,
         SavedVotes, Next
  PROVE  SavedVotes'
<1> SUFFICES ASSUME NEW v \in votes'
             PROVE  /\ v.Term <= stateFile'[v.voter].CurrentTerm
                    /\ v.Term = stateFile'[v.voter].CurrentTerm =>
                         stateFile'[v.voter].VotedFor = Me[v.candidate]
  BY DEF SavedVotes
<1>1. TypeInv'
  BY TypeInvStep
<1>2. /\ v.voter \in Server /\ v.candidate \in Server /\ v.Term \in Nat
      /\ stateFile[v.voter].CurrentTerm \in Nat
      /\ stateFile'[v.voter].CurrentTerm \in Nat
  BY <1>1 DEF TypeInv, TypeOK, RaftPersistentData
<1>3. CASE v \in votes
  <2>1. /\ v.Term <= stateFile[v.voter].CurrentTerm
        /\ v.Term = stateFile[v.voter].CurrentTerm =>
             stateFile[v.voter].VotedFor = Me[v.candidate]
    BY <1>3 DEF SavedVotes
  <2>2. Advances(stateFile[v.voter], stateFile'[v.voter])
    BY <1>2, FilesAdvance
  <2>3. Me[v.candidate] # Nobody
    BY <1>2, ServerAssumption DEF Nobody
  <2> QED
    BY <1>2, <2>1, <2>2, <2>3 DEF Advances
<1>4. CASE v \notin votes
  BY <1>2, <1>4, NewVotesAreSaved
<1> QED
  BY <1>3, <1>4

LEMMA VoteOnceStep ==
  ASSUME DistinctNumbers, TypeInv, CandidatesNameThemselves, SavedVotes', VoteOnce,
         Next
  PROVE  VoteOnce'
<1> SUFFICES ASSUME NEW v \in votes', NEW w \in votes', v.voter = w.voter,
                    v.Term = w.Term
             PROVE  v.candidate = w.candidate
  BY DEF VoteOnce
<1>1. CASE v \in votes /\ w \in votes
  BY <1>1 DEF VoteOnce
<1>2. CASE v \notin votes \/ w \notin votes
  <2>1. v.Term = stateFile'[v.voter].CurrentTerm
    BY <1>2, NewVotesAreSaved
  <2>2. /\ Me[v.candidate] = stateFile'[v.voter].VotedFor
        /\ Me[w.candidate] = stateFile'[v.voter].VotedFor
    BY <2>1 DEF SavedVotes
  <2>3. v.candidate \in Server /\ w.candidate \in Server
    BY TypeInvStep DEF TypeInv, TypeOK
  <2> QED
    BY <2>2, <2>3 DEF DistinctNumbers
<1> QED
  BY <1>1, <1>2

\* Answers that grant a vote come from handleRequestVote alone.
LEMMA GrantsAreVotesStep ==
  ASSUME TypeInv, GrantsAreVotes, Next
  PROVE  GrantsAreVotes'
<1> DEFINE Vote(r) == [voter |-> r.server, Term |-> r.reply.Term,
                       candidate |-> r.to]
<1>1. votes \subseteq votes'
  BY VotesStay
<1>2. CASE requestVoteResponses' \subseteq requestVoteResponses
  BY <1>1, <1>2 DEF GrantsAreVotes
<1>3. ASSUME NEW r \in requestVoteRequests, HandleRequestVote(r)
      PROVE  GrantsAreVotes'
  <2> DEFINE s == r.to
             newer == r.args.Term > currentTerm[s]
             term == IF newer THEN r.args.Term ELSE currentTerm[s]
             vote == IF newer THEN Nobody ELSE votedFor[s]
             granted == /\ ~MoreComplete(s, r.args)
                        /\ r.args.Term >= term
                        /\ MayVote(vote, r.args)
             new == [to |-> r.from, server |-> s, args |-> r.args,
                     reply |-> [Term |-> term, VoteGranted |-> granted]]
  <2>1. r.args.Term \in Nat /\ currentTerm[s] \in Nat
    BY DEF TypeInv, TypeOK, RequestVoteRequest, RequestVoteArgs
  <2>2. /\ votes' = IF granted
                      THEN votes \cup {[voter |-> s, Term |-> r.args.Term,
                                        candidate |-> r.from]}
                      ELSE votes
        /\ requestVoteResponses' \subseteq requestVoteResponses \cup {new}
    BY <1>3 DEF HandleRequestVote
  <2>3. granted => term = r.args.Term
    BY <2>1
  <2> HIDE DEF s, term, granted
  <2>4. new.reply.VoteGranted => Vote(new) \in votes'
    BY <2>2, <2>3
  <2>5. ASSUME NEW q \in requestVoteResponses', q.reply.VoteGranted
        PROVE  Vote(q) \in votes'
    BY <1>1, <2>2, <2>4, <2>5 DEF GrantsAreVotes
  <2> QED
    BY <2>5 DEF GrantsAreVotes
<1>4. ASSUME EmptyAnswer PROVE GrantsAreVotes'
  <2>1. \A r \in requestVoteResponses' :
          r \in requestVoteResponses \/ r.reply.VoteGranted = FALSE
    BY <1>4 DEF EmptyAnswer, voteCalls
  <2> QED
    BY <1>1, <2>1 DEF GrantsAreVotes
<1>5. ASSUME NEW s \in Server, ServerStep(s)
      PROVE  requestVoteResponses' \subseteq requestVoteResponses
  <2>1. \A how \in {"killed", "panicked"} :
          Terminate(s, how) => requestVoteResponses' \subseteq requestVoteResponses
    BY DEF Terminate
  <2>2. \A l, requests : SendAppendEntriesToAll(s, l, requests) =>
          requestVoteResponses' \subseteq requestVoteResponses
    BY <2>1 DEF SendAppendEntriesToAll, voteCalls
  <2>3. ASSUME \/ Crash(s) \/ CrashAfterBecomeFollower(s) \/ CrashInWriteFile(s)
        PROVE  requestVoteResponses' \subseteq requestVoteResponses
    BY <2>1, <2>3 DEF Crash, CrashAfterBecomeFollower, CrashInWriteFile, Kill
  <2>4. ASSUME NEW c \in Command, Start(s, c)
        PROVE  requestVoteResponses' \subseteq requestVoteResponses
    <3>1. \E l, requests : SendAppendEntriesToAll(s, l, requests)
      BY <2>4 DEF Start
    <3> QED
      BY <2>2, <3>1
  <2>5. ASSUME BecomeCandidate(s) \/ Heartbeat(s) \/ IdleTick(s) \/ Restart(s)
        PROVE  requestVoteResponses' \subseteq requestVoteResponses
    BY <2>2, <2>5 DEF BecomeCandidate, Heartbeat, IdleTick, Restart, voteCalls
  <2> QED
    BY <1>5, <2>3, <2>4, <2>5 DEF ServerStep
<1>6. ASSUME \/ \E r \in requestVoteResponses : HandleRequestVoteResponse(r)
             \/ \E r \in appendEntriesRequests :
                  RejectOutdatedAppendEntries(r) \/ HandleAppendEntries(r)
             \/ Retry \/ CallFails
      PROVE  requestVoteResponses' \subseteq requestVoteResponses
  BY <1>6 DEF HandleRequestVoteResponse, RejectOutdatedAppendEntries,
              HandleAppendEntries, Retry, CallFails, voteCalls
<1>7. ASSUME NEW r \in appendEntriesResponses, HandleAppendEntriesResponse(r)
      PROVE  requestVoteResponses' \subseteq requestVoteResponses
  BY <1>7 DEF HandleAppendEntriesResponse, Terminate, voteCalls
<1> QED
  BY <1>2, <1>3, <1>4, <1>5, <1>6, <1>7 DEF Next, MessageStep

\* A living candidate or leader that was one before, in the same term and with
\* the same votes.
Kept(s) ==
  status'[s] = "up" /\ serverState'[s] \in {"Candidate", "Leader"} =>
    /\ status[s] = "up" /\ serverState[s] \in {"Candidate", "Leader"}
    /\ currentTerm'[s] = currentTerm[s] /\ receivedVote'[s] = receivedVote[s]

\* Every step keeps a server's count but becomeCandidate, which starts a new
\* one, and the answer that is counted.
LEMMA StepsKeep ==
  ASSUME TypeInv, Next, NEW p \in Server, ~BecomeCandidate(p)
  PROVE  \/ Kept(p)
         \/ \E r \in requestVoteResponses :
              /\ p = r.to
              /\ HandleRequestVoteResponse(r)
              /\ serverState[p] = "Candidate" /\ CountsAsVote(p, r.reply)
<1> DEFINE Counted == \E r \in requestVoteResponses :
                        /\ p = r.to
                        /\ HandleRequestVoteResponse(r)
                        /\ serverState[p] = "Candidate" /\ CountsAsVote(p, r.reply)
<1> USE DEF TypeInv
<1>1. ASSUME NEW s \in Server, BecomeCandidate(s) PROVE Kept(p)
  <2>1. s # p
    BY <1>1
  <2>2. /\ serverState' = [serverState EXCEPT ![s] = "Candidate"]
        /\ currentTerm' = [currentTerm EXCEPT ![s] = currentTerm[s] + 1]
        /\ receivedVote' = [receivedVote EXCEPT ![s] = {s}]
        /\ UNCHANGED status
    BY <1>1 DEF BecomeCandidate
  <2> QED
    BY <2>1, <2>2 DEF Kept, TypeOK
<1>2. ASSUME NEW s \in Server,
             Heartbeat(s) \/ IdleTick(s) \/ \E c \in Command : Start(s, c)
      PROVE  Kept(p)
  <2>1. UNCHANGED <<serverState, currentTerm, receivedVote>>
    BY <1>2 DEF Heartbeat, IdleTick, Start, memory
  <2>2. status'[p] = "up" => status[p] = "up"
    BY <1>2, SendStatus DEF Heartbeat, IdleTick, Start
  <2> QED
    BY <2>1, <2>2 DEF Kept
<1>3. ASSUME NEW s \in Server, Kill(s) PROVE Kept(p)
  <2>1. UNCHANGED <<serverState, currentTerm, receivedVote>>
    BY <1>3 DEF Kill, memory
  <2>2. status'[p] = "up" => status[p] = "up"
    BY <1>3, TerminateStatus DEF Kill
  <2> QED
    BY <2>1, <2>2 DEF Kept
<1>4. ASSUME NEW s \in Server, Restart(s) PROVE Kept(p)
  BY <1>4 DEF Restart, Kept, TypeOK
<1>5. ASSUME NEW r \in requestVoteRequests, HandleRequestVote(r) PROVE Kept(p)
  <2> DEFINE s == r.to
             newer == r.args.Term > currentTerm[s]
  <2>1. /\ serverState' = [serverState EXCEPT ![s] = IF newer THEN "Follower" ELSE @]
        /\ currentTerm' = [currentTerm EXCEPT ![s] = IF newer THEN r.args.Term ELSE @]
        /\ UNCHANGED <<receivedVote, status>>
    BY <1>5 DEF HandleRequestVote, TypeOK
  <2> HIDE DEF newer, s
  <2> QED
    BY <2>1 DEF Kept, TypeOK
<1>6. ASSUME NEW r \in requestVoteResponses, HandleRequestVoteResponse(r)
      PROVE  Kept(p) \/ Counted
  <2> DEFINE s == r.to
  <2>1. CASE BecomeFollower(s, r.reply.Term, FALSE) /\ UNCHANGED receivedVote
    <3>1. UNCHANGED status
      BY <1>6 DEF HandleRequestVoteResponse
    <3> QED
      BY <2>1, <3>1 DEF BecomeFollower, Kept, TypeOK
  <2>2. CASE UNCHANGED <<memory, serverState, receivedVote>>
    <3>1. UNCHANGED status
      BY <1>6 DEF HandleRequestVoteResponse
    <3> QED
      BY <2>2, <3>1 DEF Kept, memory
  <2>3. CASE /\ serverState[s] = "Candidate" /\ CountsAsVote(s, r.reply)
             /\ receivedVote' = [receivedVote EXCEPT ![s] = receivedVote[s] \cup {r.server}]
             /\ UNCHANGED memory
             /\ BecomeLeader(s) \/ UNCHANGED serverState
    <3>1. CASE s = p
      BY <1>6, <2>3, <3>1
    <3>2. CASE s # p
      <4>1. UNCHANGED status /\ UNCHANGED currentTerm
        BY <1>6, <2>3 DEF HandleRequestVoteResponse, memory
      <4>2. serverState'[p] = serverState[p] /\ receivedVote'[p] = receivedVote[p]
        BY <2>3, <3>2 DEF BecomeLeader, TypeOK
      <4> QED
        BY <4>1, <4>2 DEF Kept
    <3> QED
      BY <3>1, <3>2
  <2> QED
    BY <1>6, <2>1, <2>2, <2>3 DEF HandleRequestVoteResponse
<1>7. ASSUME NEW r \in appendEntriesRequests, HandleAppendEntries(r) PROVE Kept(p)
  BY <1>7 DEF HandleAppendEntries, BecomeFollower, Kept, TypeOK
<1>8. ASSUME NEW r \in appendEntriesResponses, HandleAppendEntriesResponse(r)
      PROVE  Kept(p)
  <2>1. UNCHANGED receivedVote
    BY <1>8 DEF HandleAppendEntriesResponse
  <2>2. r.to \in Server
    BY DEF TypeOK, AppendEntriesResponse
  <2>3. \/ /\ UNCHANGED <<memory, serverState>>
           /\ Terminate(r.to, "panicked") \/ UNCHANGED status
        \/ BecomeFollower(r.to, r.reply.Term, FALSE) /\ UNCHANGED status
    BY <1>8 DEF HandleAppendEntriesResponse
  <2>4. CASE /\ UNCHANGED <<memory, serverState>>
             /\ Terminate(r.to, "panicked") \/ UNCHANGED status
    BY <2>1, <2>2, <2>4, TerminateStatus DEF Kept, memory
  <2>5. CASE BecomeFollower(r.to, r.reply.Term, FALSE) /\ UNCHANGED status
    BY <2>1, <2>5 DEF Kept, BecomeFollower, TypeOK
  <2> QED
    BY <2>3, <2>4, <2>5
<1>9. ASSUME \/ \E r \in appendEntriesRequests : RejectOutdatedAppendEntries(r)
             \/ Retry \/ CallFails \/ EmptyAnswer
      PROVE  Kept(p)
  BY <1>9 DEF RejectOutdatedAppendEntries, Retry, CallFails, EmptyAnswer, Kept, memory
<1> HIDE DEF Counted
<1>10. Kept(p) \/ Counted
  BY <1>1, <1>2, <1>3, <1>4, <1>5, <1>6, <1>7, <1>8, <1>9
     DEF Next, ServerStep, MessageStep, Crash, CrashAfterBecomeFollower,
         CrashInWriteFile
<1> QED
  BY <1>10 DEF Counted

LEMMA CountedVotesStep ==
  ASSUME TypeInv, GrantsAreVotes, CountedVotesAreVotes, Next
  PROVE  CountedVotesAreVotes'
<1> SUFFICES ASSUME NEW s \in Server, status'[s] = "up",
                    serverState'[s] \in {"Candidate", "Leader"},
                    NEW v \in receivedVote'[s]
             PROVE  [voter |-> v, Term |-> currentTerm'[s], candidate |-> s] \in votes'
  BY DEF CountedVotesAreVotes
<1>1. votes \subseteq votes'
  BY VotesStay
<1>2. CASE BecomeCandidate(s)
  <2>1. /\ v = s /\ currentTerm'[s] = currentTerm[s] + 1
        /\ votes' = votes \cup {[voter |-> s, Term |-> currentTerm[s] + 1,
                                 candidate |-> s]}
    BY <1>2 DEF BecomeCandidate, TypeInv, TypeOK
  <2> QED
    BY <2>1
<1>3. CASE Kept(s)
  BY <1>1, <1>3 DEF Kept, CountedVotesAreVotes
<1>4. ASSUME NEW r \in requestVoteResponses, s = r.to,
             HandleRequestVoteResponse(r), serverState[s] = "Candidate",
             CountsAsVote(s, r.reply), ~Kept(s)
      PROVE  [voter |-> v, Term |-> currentTerm'[s], candidate |-> s] \in votes'
  <2>1. r.reply.Term = currentTerm[s] /\ r.reply.VoteGranted /\ currentTerm[s] \in Nat
    BY <1>4 DEF CountsAsVote, TypeInv, TypeOK
  <2>2. /\ receivedVote' = [receivedVote EXCEPT ![s] = receivedVote[s] \cup {r.server}]
        /\ UNCHANGED memory /\ status[s] = "up"
    <3>1. ~(r.reply.Term > currentTerm[r.to])
      BY <1>4, <2>1
    <3>2. /\ serverState[r.to] = "Candidate"
          /\ CountsAsVote(r.to, r.reply)
      BY <1>4
    <3> QED
      BY <1>4, <3>1, <3>2 DEF HandleRequestVoteResponse
  <2>3. /\ receivedVote'[s] = receivedVote[s] \cup {r.server}
        /\ currentTerm'[s] = currentTerm[s]
    BY <2>2 DEF memory, TypeInv, TypeOK
  <2>4. [voter |-> r.server, Term |-> currentTerm[s], candidate |-> s] \in votes
    BY <1>4, <2>1 DEF GrantsAreVotes
  <2>5. \A w \in receivedVote[s] :
          [voter |-> w, Term |-> currentTerm[s], candidate |-> s] \in votes
    BY <1>4, <2>2 DEF CountedVotesAreVotes
  <2> QED
    BY <1>1, <2>3, <2>4, <2>5
<1> QED
  BY <1>2, <1>3, <1>4, StepsKeep

\* A server is added to elected by the step that counts its majority.
LEMMA NewLeadersHaveMajority ==
  ASSUME TypeInv, Next
  PROVE  \/ UNCHANGED elected
         \/ \E s \in Server :
              /\ elected' = elected \cup {<<currentTerm[s], s>>}
              /\ IsMajority(receivedVote'[s]) /\ currentTerm'[s] = currentTerm[s]
              /\ status'[s] = "up" /\ serverState'[s] = "Leader"
<1>1. ASSUME NEW r \in requestVoteResponses, HandleRequestVoteResponse(r),
             elected' # elected
      PROVE  \E s \in Server :
               /\ elected' = elected \cup {<<currentTerm[s], s>>}
               /\ IsMajority(receivedVote'[s]) /\ currentTerm'[s] = currentTerm[s]
               /\ status'[s] = "up" /\ serverState'[s] = "Leader"
  <2> DEFINE s == r.to
             tally == receivedVote[s] \cup {r.server}
  <2>1. s \in Server
    BY DEF TypeInv, TypeOK, RequestVoteResponse
  <2>2. /\ receivedVote' = [receivedVote EXCEPT ![s] = tally]
        /\ IsMajority(tally) /\ BecomeLeader(s)
        /\ UNCHANGED <<memory, status>> /\ status[s] = "up"
    BY <1>1 DEF HandleRequestVoteResponse
  <2> HIDE DEF s, tally
  <2>3. receivedVote'[s] = tally /\ serverState'[s] = "Leader"
    BY <2>1, <2>2 DEF BecomeLeader, TypeInv, TypeOK
  <2> QED
    BY <2>1, <2>2, <2>3 DEF BecomeLeader, memory
<1>2. \/ \E r \in requestVoteResponses : HandleRequestVoteResponse(r)
      \/ UNCHANGED elected
  BY DEF Next, ServerStep, MessageStep, BecomeCandidate, Heartbeat, IdleTick,
         Start, Crash, CrashAfterBecomeFollower, CrashInWriteFile, Kill, Restart,
         HandleRequestVote, RejectOutdatedAppendEntries, HandleAppendEntries,
         HandleAppendEntriesResponse, Retry, CallFails, EmptyAnswer
<1> QED
  BY <1>1, <1>2

LEMMA ElectedByMajorityStep ==
  ASSUME TypeInv, ElectedByMajority, CountedVotesAreVotes', Next
  PROVE  ElectedByMajority'
<1> DEFINE Won(e) ==
      \E Q \in SUBSET Server :
        /\ IsMajority(Q)
        /\ \A q \in Q : [voter |-> q, Term |-> e[1], candidate |-> e[2]] \in votes'
<1>1. \A e \in elected : Won(e)
  BY VotesStay DEF ElectedByMajority
<1>2. CASE UNCHANGED elected
  BY <1>1, <1>2 DEF ElectedByMajority, IsMajority
<1>3. ASSUME NEW s \in Server, elected' = elected \cup {<<currentTerm[s], s>>},
             IsMajority(receivedVote'[s]), currentTerm'[s] = currentTerm[s],
             status'[s] = "up", serverState'[s] = "Leader"
      PROVE  ElectedByMajority'
  <2>1. receivedVote'[s] \in SUBSET Server
    BY TypeInvStep DEF TypeInv, TypeOK
  <2>2. \A q \in receivedVote'[s] :
          [voter |-> q, Term |-> currentTerm[s], candidate |-> s] \in votes'
    BY <1>3 DEF CountedVotesAreVotes
  <2>3. Won(<<currentTerm[s], s>>)
    BY <1>3, <2>1, <2>2
  <2> HIDE DEF Won
  <2>4. \A e \in elected' : Won(e)
    BY <1>1, <1>3, <2>3
  <2> QED
    BY <2>4 DEF ElectedByMajority, IsMajority, Won
<1> QED
  BY <1>2, <1>3, NewLeadersHaveMajority

-----------------------------------------------------------------------------
(***************************************************************************)
(* The theorems                                                             *)
(***************************************************************************)

LEMMA ElectionInvInit == Init => ElectionInv
BY DEF Init, ElectionInv, DurableState, CandidatesNameThemselves, SavedVotes, VoteOnce, GrantsAreVotes,
       CountedVotesAreVotes, ElectedByMajority, DefaultState

LEMMA ElectionInvStep ==
  ASSUME TornWrites = FALSE, DistinctNumbers, TypeInv, ElectionInv, [Next]_vars
  PROVE  ElectionInv'
<1>1. CASE Next
  <2>1. DurableState' /\ CandidatesNameThemselves' /\ SavedVotes'
    BY <1>1, FilesAdvance, CandidatesNameThemselvesStep, SavedVotesStep
       DEF ElectionInv
  <2>2. VoteOnce' /\ GrantsAreVotes' /\ CountedVotesAreVotes'
    BY <1>1, <2>1, VoteOnceStep, GrantsAreVotesStep, CountedVotesStep DEF ElectionInv
  <2>3. ElectedByMajority'
    BY <1>1, <2>2, ElectedByMajorityStep DEF ElectionInv
  <2> QED
    BY <2>1, <2>2, <2>3 DEF ElectionInv
<1>2. CASE UNCHANGED vars
  BY <1>2 DEF vars, memory, voteCalls, ElectionInv, DurableState,
              CandidatesNameThemselves, SavedVotes,
              VoteOnce, GrantsAreVotes, CountedVotesAreVotes, ElectedByMajority,
              IsMajority
<1> QED
  BY <1>1, <1>2

LEMMA ElectionInvariant ==
  ASSUME TornWrites = FALSE, DistinctNumbers
  PROVE  Spec => [](TypeInv /\ ElectionInv)
<1>1. TypeInv /\ ElectionInv /\ [Next]_vars => TypeInv' /\ ElectionInv'
  BY TypeInvStep, ElectionInvStep
<1> QED
  BY <1>1, TypeInvInit, ElectionInvInit, PTL DEF Spec

\* Two majorities share a voter, and it voted once.
LEMMA OneLeaderPerTerm ==
  ASSUME TypeOK, ElectionInv
  PROVE  ElectionSafety
<1> SUFFICES ASSUME NEW e \in elected, NEW f \in elected, e[1] = f[1]
             PROVE  e[2] = f[2]
  BY DEF ElectionSafety
<1>1. PICK Q \in SUBSET Server :
        /\ IsMajority(Q)
        /\ \A q \in Q : [voter |-> q, Term |-> e[1], candidate |-> e[2]] \in votes
  BY DEF ElectionInv, ElectedByMajority
<1>2. PICK P \in SUBSET Server :
        /\ IsMajority(P)
        /\ \A q \in P : [voter |-> q, Term |-> f[1], candidate |-> f[2]] \in votes
  BY DEF ElectionInv, ElectedByMajority
<1>3. Q \cap P # {}
  <2>1. /\ Cardinality(Q) \in Nat /\ Cardinality(P) \in Nat
        /\ Cardinality(Server) \in Nat
    BY ServerAssumption, FS_Subset, FS_CardinalityType
  <2>2. Cardinality(Q) + Cardinality(P) > Cardinality(Server)
    BY <1>1, <1>2, <2>1 DEF IsMajority
  <2> QED
    BY <2>2, ServerAssumption, FS_MajoritiesIntersect
<1>4. PICK q \in Q : q \in P
  BY <1>3
<1> QED
  BY <1>1, <1>2, <1>4 DEF ElectionInv, VoteOnce

\* What an answer lets out of a server is on its disk, wherever processes are
\* killed, inside ioutil.WriteFile included.
THEOREM DurableAlways == Spec => []DurableState
<1>1. Init => DurableState
  BY ElectionInvInit DEF ElectionInv
<1>2. TypeInv /\ DurableState /\ [Next]_vars => DurableState'
  <2>1. CASE UNCHANGED vars
    BY <2>1 DEF vars, memory, DurableState
  <2> QED
    BY <2>1, FilesAdvance
<1> QED
  BY <1>1, <1>2, TypeInvInit, TypeInvStep, PTL DEF Spec

\* A server votes for one candidate in a term, over crashes and restarts.
THEOREM VotesOnce ==
  ASSUME TornWrites = FALSE, DistinctNumbers
  PROVE  Spec => []VoteOnce
<1>1. TypeInv /\ ElectionInv => VoteOnce
  BY DEF ElectionInv
<1> QED
  BY <1>1, ElectionInvariant, PTL

\* Only votes of the current term are counted.
THEOREM CountsVotesOnly ==
  ASSUME TornWrites = FALSE, DistinctNumbers
  PROVE  Spec => []CountedVotesAreVotes
<1>1. TypeInv /\ ElectionInv => CountedVotesAreVotes
  BY DEF ElectionInv
<1> QED
  BY <1>1, ElectionInvariant, PTL

\* At most one leader in a term.
THEOREM ElectionSafe ==
  ASSUME TornWrites = FALSE, DistinctNumbers
  PROVE  Spec => []ElectionSafety
<1>1. TypeInv /\ ElectionInv => ElectionSafety
  BY OneLeaderPerTerm DEF TypeInv
<1> QED
  BY <1>1, ElectionInvariant, PTL

\* The memory of a server that is not running stays as the process left it.
LEMMA DownKeepsTerm ==
  ASSUME TypeInv, Next, NEW p \in Server, status'[p] # "up"
  PROVE  currentTerm'[p] = currentTerm[p]
<1> USE DEF TypeInv
<1>1. ASSUME NEW s \in Server, ServerStep(s), currentTerm' # currentTerm
      PROVE  s # p /\ \A q \in Server \ {s} : currentTerm'[q] = currentTerm[q]
  <2>1. CASE BecomeCandidate(s)
    BY <2>1 DEF BecomeCandidate, TypeOK
  <2>2. CASE Restart(s)
    BY <2>2 DEF Restart, TypeOK
  <2> QED
    BY <1>1, <2>1, <2>2
       DEF ServerStep, Heartbeat, IdleTick, Start, Crash, CrashAfterBecomeFollower,
           CrashInWriteFile, Kill, memory
<1>2. ASSUME NEW s \in Server, NEW term, NEW keep, BecomeFollower(s, term, keep),
             status[s] = "up", UNCHANGED status
      PROVE  currentTerm'[p] = currentTerm[p]
  BY <1>2 DEF BecomeFollower, TypeOK
<1>3. ASSUME NEW r \in requestVoteRequests, HandleRequestVote(r)
      PROVE  currentTerm'[p] = currentTerm[p]
  BY <1>3 DEF HandleRequestVote, TypeOK
<1>4. ASSUME NEW r \in requestVoteResponses, HandleRequestVoteResponse(r)
      PROVE  currentTerm'[p] = currentTerm[p]
  <2>1. r.to \in Server
    BY DEF TypeOK, RequestVoteResponse
  <2>2. /\ \/ BecomeFollower(r.to, r.reply.Term, FALSE)
           \/ UNCHANGED memory
        /\ status[r.to] = "up" /\ UNCHANGED status
    BY <1>4 DEF HandleRequestVoteResponse
  <2> QED
    BY <1>2, <2>1, <2>2 DEF memory
<1>5. ASSUME NEW r \in appendEntriesRequests, HandleAppendEntries(r)
      PROVE  currentTerm'[p] = currentTerm[p]
  <2>1. r.to \in Server
    BY DEF TypeOK, AppendEntriesRequest
  <2>2. /\ BecomeFollower(r.to, r.args.Term, r.args.Term = currentTerm[r.to])
        /\ status[r.to] = "up" /\ UNCHANGED status
    BY <1>5 DEF HandleAppendEntries
  <2> QED
    BY <1>2, <2>1, <2>2
<1>6. ASSUME NEW r \in appendEntriesResponses, HandleAppendEntriesResponse(r)
      PROVE  currentTerm'[p] = currentTerm[p]
  <2>1. r.to \in Server
    BY DEF TypeOK, AppendEntriesResponse
  <2>2. \/ /\ BecomeFollower(r.to, r.reply.Term, FALSE)
           /\ status[r.to] = "up" /\ UNCHANGED status
        \/ UNCHANGED memory
    BY <1>6 DEF HandleAppendEntriesResponse
  <2> QED
    BY <1>2, <2>1, <2>2 DEF memory
<1>7. ASSUME \/ \E r \in appendEntriesRequests : RejectOutdatedAppendEntries(r)
             \/ Retry \/ CallFails \/ EmptyAnswer
      PROVE  currentTerm'[p] = currentTerm[p]
  BY <1>7 DEF RejectOutdatedAppendEntries, Retry, CallFails, EmptyAnswer, memory
<1> QED
  BY <1>1, <1>3, <1>4, <1>5, <1>6, <1>7 DEF Next, MessageStep

\* The state file is never behind the memory.
SavedTerm == \A s \in Server : stateFile[s].CurrentTerm >= currentTerm[s]

LEMMA SavedTermStep ==
  ASSUME TornWrites = FALSE, TypeInv, DurableState, SavedTerm, Next, NEW s \in Server
  PROVE  /\ stateFile'[s].CurrentTerm >= currentTerm'[s]
         /\ currentTerm'[s] >= currentTerm[s]
<1>1. TypeInv' /\ DurableState'
  BY TypeInvStep, FilesAdvance
<1>2. /\ stateFile[s].CurrentTerm \in Nat /\ stateFile'[s].CurrentTerm \in Nat
      /\ currentTerm[s] \in Nat /\ currentTerm'[s] \in Nat
  BY <1>1 DEF TypeInv, TypeOK, RaftPersistentData
<1>3. stateFile'[s].CurrentTerm >= stateFile[s].CurrentTerm
  BY <1>2, FilesAdvance DEF Advances
<1>4. stateFile[s].CurrentTerm >= currentTerm[s]
  BY DEF SavedTerm
<1>5. CASE status'[s] = "up"
  <2>1. stateFile'[s] = [CurrentTerm |-> currentTerm'[s],
                         VotedFor |-> votedFor'[s], Log |-> log'[s]]
    BY <1>1, <1>5 DEF DurableState
  <2> QED
    BY <1>2, <1>3, <1>4, <2>1
<1>6. CASE status'[s] # "up"
  BY <1>2, <1>3, <1>4, <1>6, DownKeepsTerm
<1> QED
  BY <1>5, <1>6

\* No server goes back to an earlier term, not by a restart either.
THEOREM TermsNeverRegress ==
  ASSUME TornWrites = FALSE
  PROVE  Spec => TermNeverRegresses
<1>1. Init => SavedTerm
  BY DEF Init, SavedTerm, DefaultState
<1>2. ASSUME TypeInv, DurableState, SavedTerm, [Next]_vars
      PROVE  SavedTerm' /\ [\A s \in Server : currentTerm'[s] >= currentTerm[s]]_vars
  <2>1. CASE Next
    BY <1>2, <2>1, SavedTermStep DEF SavedTerm
  <2>2. CASE UNCHANGED vars
    BY <1>2, <2>2 DEF vars, memory, SavedTerm
  <2> QED
    BY <1>2, <2>1, <2>2
<1>3. TypeInv /\ [Next]_vars => TypeInv'
  BY TypeInvStep
<1> QED
  BY <1>1, <1>2, <1>3, TypeInvInit, DurableAlways, PTL DEF Spec, TermNeverRegresses

-----------------------------------------------------------------------------
(***************************************************************************)
(* States and terms                                                         *)
(***************************************************************************)

\* What a step of the cluster makes of server p, seen from outside.
OutsideStep(p) ==
  \/ serverState'[p] = serverState[p] /\ currentTerm'[p] = currentTerm[p]
  \/ /\ serverState[p] # "Leader" /\ serverState'[p] = "Candidate"
     /\ currentTerm'[p] = currentTerm[p] + 1
  \/ /\ serverState[p] = "Candidate" /\ serverState'[p] = "Leader"
     /\ currentTerm'[p] = currentTerm[p]
  \/ serverState'[p] = "Follower"

LEMMA OutsideSteps == ASSUME TypeInv, Next, NEW p \in Server PROVE OutsideStep(p)
<1> USE DEF TypeInv
<1>1. ASSUME UNCHANGED <<serverState, currentTerm>>
      PROVE  OutsideStep(p)
  BY <1>1 DEF OutsideStep
<1>2. ASSUME NEW s \in Server, ServerStep(s)
      PROVE  OutsideStep(p)
  <2>1. CASE BecomeCandidate(s)
    BY <2>1 DEF BecomeCandidate, TypeOK, OutsideStep
  <2>2. CASE Restart(s)
    BY <2>2 DEF Restart, TypeOK, OutsideStep
  <2> QED
    BY <1>1, <1>2, <2>1, <2>2
       DEF ServerStep, Heartbeat, IdleTick, Start, Crash, CrashAfterBecomeFollower,
           CrashInWriteFile, Kill, memory
<1>3. ASSUME NEW s \in Server, NEW term, NEW keep, BecomeFollower(s, term, keep)
      PROVE  OutsideStep(p)
  BY <1>3 DEF BecomeFollower, TypeOK, OutsideStep
<1>4. ASSUME NEW r \in requestVoteRequests, HandleRequestVote(r)
      PROVE  OutsideStep(p)
  BY <1>4 DEF HandleRequestVote, TypeOK, OutsideStep
<1>5. ASSUME NEW r \in requestVoteResponses, HandleRequestVoteResponse(r)
      PROVE  OutsideStep(p)
  <2>1. r.to \in Server
    BY DEF TypeOK, RequestVoteResponse
  <2>2. \/ BecomeFollower(r.to, r.reply.Term, FALSE)
        \/ UNCHANGED memory /\ UNCHANGED serverState
        \/ /\ UNCHANGED memory
           /\ serverState[r.to] = "Candidate" /\ BecomeLeader(r.to)
    BY <1>5 DEF HandleRequestVoteResponse
  <2>3. CASE BecomeFollower(r.to, r.reply.Term, FALSE)
    BY <1>3, <2>1, <2>3
  <2>4. CASE UNCHANGED memory /\ UNCHANGED serverState
    BY <1>1, <2>4 DEF memory
  <2>5. CASE /\ UNCHANGED memory
             /\ serverState[r.to] = "Candidate" /\ BecomeLeader(r.to)
    BY <2>1, <2>5 DEF BecomeLeader, memory, TypeOK, OutsideStep
  <2> QED
    BY <2>2, <2>3, <2>4, <2>5
<1>6. ASSUME NEW r \in appendEntriesRequests, HandleAppendEntries(r)
      PROVE  OutsideStep(p)
  <2>1. r.to \in Server
    BY DEF TypeOK, AppendEntriesRequest
  <2>2. BecomeFollower(r.to, r.args.Term, r.args.Term = currentTerm[r.to])
    BY <1>6 DEF HandleAppendEntries
  <2> QED
    BY <1>3, <2>1, <2>2
<1>7. ASSUME NEW r \in appendEntriesResponses, HandleAppendEntriesResponse(r)
      PROVE  OutsideStep(p)
  <2>1. r.to \in Server
    BY DEF TypeOK, AppendEntriesResponse
  <2>2. \/ BecomeFollower(r.to, r.reply.Term, FALSE)
        \/ UNCHANGED memory /\ UNCHANGED serverState
    BY <1>7 DEF HandleAppendEntriesResponse
  <2> QED
    BY <1>1, <1>3, <2>1, <2>2 DEF memory
<1>8. ASSUME \/ \E r \in appendEntriesRequests : RejectOutdatedAppendEntries(r)
             \/ Retry \/ CallFails \/ EmptyAnswer
      PROVE  OutsideStep(p)
  BY <1>1, <1>8 DEF RejectOutdatedAppendEntries, Retry, CallFails, EmptyAnswer, memory
<1> QED
  BY <1>2, <1>4, <1>5, <1>6, <1>7, <1>8 DEF Next, MessageStep

\* Each peer is what the display of its events takes it for: it wins only as a
\* candidate and in its term, and follows in no earlier term, if no process dies
\* inside ioutil.WriteFile (becomeCandidate, becomeLeader, becomeFollower).
THEOREM PeerStatesImplemented ==
  ASSUME TornWrites = FALSE
  PROVE  Spec => ImplementsPeerStates
<1>1. Init => \A s \in Server : Seen(s)!PeerInit
  BY DEF Init, Seen!PeerInit
<1>2. ASSUME TypeInv, [Next]_vars,
             [\A s \in Server : currentTerm'[s] >= currentTerm[s]]_vars
      PROVE  [\A s \in Server : Seen(s)!PeerStep]_vars
  <2>1. CASE Next /\ ~UNCHANGED vars
    <3> SUFFICES ASSUME NEW s \in Server PROVE Seen(s)!PeerStep
      OBVIOUS
    <3>1. OutsideStep(s) /\ currentTerm'[s] >= currentTerm[s]
      BY <1>2, <2>1, OutsideSteps
    <3> QED
      BY <3>1 DEF OutsideStep, Seen!PeerStep, Seen!PeerNext, Seen!Campaign,
                  Seen!Win, Seen!Follow, Seen!peer
  <2> QED
    BY <1>2, <2>1
<1>3. TypeInv /\ [Next]_vars => TypeInv'
  BY TypeInvStep
<1> QED
  BY <1>1, <1>2, <1>3, TypeInvInit, TermsNeverRegress, PTL
     DEF Spec, ImplementsPeerStates, TermNeverRegresses

-----------------------------------------------------------------------------
(***************************************************************************)
(* Timers                                                                   *)
(***************************************************************************)

Armed(p) ==
  status[p] = "up" =>
    IF serverState[p] = "Leader" THEN heartbeatTimer[p] ELSE electionTimer[p]

\* A step that leaves state and timers alone, and starts nobody.
LEMMA TimersLeftAlone ==
  ASSUME NEW p \in Server, Armed(p), status'[p] = "up" => status[p] = "up",
         serverState'[p] = serverState[p],
         electionTimer[p] => electionTimer'[p],
         heartbeatTimer[p] => heartbeatTimer'[p]
  PROVE  Armed(p)'
BY DEF Armed

\* becomeFollower starts the timer a follower needs.
LEMMA FollowerArmed ==
  ASSUME TypeInv, NEW p \in Server, Armed(p), NEW s \in Server, NEW term, NEW keep,
         BecomeFollower(s, term, keep), UNCHANGED heartbeatTimer,
         status'[p] = "up" => status[p] = "up"
  PROVE  Armed(p)'
<1>1. /\ serverState' = [serverState EXCEPT ![s] = "Follower"]
      /\ electionTimer' = [electionTimer EXCEPT ![s] = TRUE]
      /\ heartbeatTimer' = heartbeatTimer
      /\ DOMAIN serverState = Server /\ DOMAIN electionTimer = Server
  BY DEF BecomeFollower, TypeInv, TypeOK
<1>2. CASE p = s
  <2>1. serverState'[p] = "Follower" /\ electionTimer'[p]
    BY <1>1, <1>2
  <2> QED
    BY <2>1 DEF Armed
<1>3. CASE p # s
  BY <1>1, <1>3 DEF Armed
<1> QED
  BY <1>2, <1>3

\* Sending to all only ever starts a timer.
LEMMA SendingArms ==
  ASSUME TypeInv, NEW p \in Server, NEW s \in Server, NEW l, NEW requests,
         SendAppendEntriesToAll(s, l, requests)
  PROVE  /\ heartbeatTimer[p] => heartbeatTimer'[p]
         /\ status'[p] = "up" => status[p] = "up"
<1>1. status'[p] = "up" => status[p] = "up"
  BY SendStatus DEF TypeInv
<1>2. CASE heartbeatTimer' = [heartbeatTimer EXCEPT ![s] = TRUE]
  BY <1>1, <1>2 DEF TypeInv, TypeOK
<1>3. CASE heartbeatTimer' = heartbeatTimer
  BY <1>1, <1>3
<1> QED
  BY <1>2, <1>3 DEF SendAppendEntriesToAll

LEMMA ServerStepArmed ==
  ASSUME TypeInv, NEW p \in Server, Armed(p), NEW s \in Server, ServerStep(s)
  PROVE  Armed(p)'
<1> USE DEF TypeInv
<1>1. CASE BecomeCandidate(s)
  <2>1. /\ serverState' = [serverState EXCEPT ![s] = "Candidate"]
        /\ electionTimer' = [electionTimer EXCEPT ![s] = TRUE]
        /\ UNCHANGED <<heartbeatTimer, status>>
        /\ DOMAIN serverState = Server /\ DOMAIN electionTimer = Server
    BY <1>1 DEF BecomeCandidate, TypeOK
  <2>2. CASE p = s
    <3>1. serverState'[p] = "Candidate" /\ electionTimer'[p]
      BY <2>1, <2>2
    <3> QED
      BY <3>1 DEF Armed
  <2>3. CASE p # s
    BY <2>1, <2>3 DEF Armed
  <2> QED
    BY <2>2, <2>3
<1>2. CASE Heartbeat(s)
  <2>1. /\ SendAppendEntriesToAll(s, log[s], appendEntriesRequests)
        /\ UNCHANGED <<serverState, electionTimer>>
    BY <1>2 DEF Heartbeat
  <2> QED
    BY <2>1, SendingArms, TimersLeftAlone
<1>3. CASE IdleTick(s)
  <2>1. UNCHANGED <<serverState, status>>
    BY <1>3 DEF IdleTick
  <2>2. CASE p # s
    <3>1. electionTimer'[p] = electionTimer[p] /\ heartbeatTimer'[p] = heartbeatTimer[p]
      BY <1>3, <2>2 DEF IdleTick, TypeOK
    <3> QED
      BY <2>1, <3>1 DEF Armed
  <2>3. CASE p = s /\ serverState[s] = "Leader"
    <3>1. heartbeatTimer' = heartbeatTimer
      BY <1>3, <2>3 DEF IdleTick
    <3> QED
      BY <2>1, <2>3, <3>1 DEF Armed
  <2>4. CASE p = s /\ serverState[s] # "Leader"
    <3>1. electionTimer' = electionTimer
      BY <1>3, <2>4 DEF IdleTick
    <3> QED
      BY <2>1, <2>4, <3>1 DEF Armed
  <2> QED
    BY <2>2, <2>3, <2>4
<1>4. ASSUME NEW c \in Command, Start(s, c)
      PROVE  Armed(p)'
  <2>1. /\ \E l, requests : SendAppendEntriesToAll(s, l, requests)
        /\ UNCHANGED <<serverState, electionTimer>>
    BY <1>4 DEF Start
  <2> QED
    BY <2>1, SendingArms, TimersLeftAlone
<1>5. CASE Crash(s) \/ CrashAfterBecomeFollower(s) \/ CrashInWriteFile(s)
  <2>1. /\ Terminate(s, "killed")
        /\ UNCHANGED <<serverState, electionTimer, heartbeatTimer>>
    BY <1>5 DEF Crash, CrashAfterBecomeFollower, CrashInWriteFile, Kill, timers
  <2>2. status'[p] = "up" => status[p] = "up"
    BY <2>1, TerminateStatus
  <2> QED
    BY <2>1, <2>2, TimersLeftAlone
<1>6. CASE Restart(s)
  <2>1. /\ serverState' = [serverState EXCEPT ![s] = "Follower"]
        /\ electionTimer' = [electionTimer EXCEPT ![s] = TRUE]
        /\ heartbeatTimer' = [heartbeatTimer EXCEPT ![s] = TRUE]
        /\ status' = [status EXCEPT ![s] = "up"]
        /\ DOMAIN serverState = Server /\ DOMAIN electionTimer = Server
        /\ DOMAIN heartbeatTimer = Server /\ DOMAIN status = Server
    BY <1>6 DEF Restart, TypeOK
  <2>2. CASE p = s
    <3>1. serverState'[p] = "Follower" /\ electionTimer'[p]
      BY <2>1, <2>2
    <3> QED
      BY <3>1 DEF Armed
  <2>3. CASE p # s
    BY <2>1, <2>3 DEF Armed
  <2> QED
    BY <2>2, <2>3
<1> QED
  BY <1>1, <1>2, <1>3, <1>4, <1>5, <1>6 DEF ServerStep

LEMMA MessageStepArmed ==
  ASSUME TypeInv, NEW p \in Server, Armed(p), MessageStep
  PROVE  Armed(p)'
<1> USE DEF TypeInv
<1>1. ASSUME NEW r \in requestVoteRequests, HandleRequestVote(r)
      PROVE  Armed(p)'
  <2>1. /\ r.to \in Server
        /\ DOMAIN serverState = Server /\ DOMAIN electionTimer = Server
        /\ UNCHANGED <<heartbeatTimer, status>>
    BY <1>1 DEF HandleRequestVote, TypeOK, RequestVoteRequest
  <2>2. CASE p = r.to /\ r.args.Term > currentTerm[r.to]
    <3>1. serverState'[p] = "Follower" /\ electionTimer'[p]
      BY <1>1, <2>1, <2>2 DEF HandleRequestVote
    <3> QED
      BY <3>1 DEF Armed
  <2>3. CASE p # r.to \/ ~(r.args.Term > currentTerm[r.to])
    <3>1. serverState'[p] = serverState[p] /\ (electionTimer[p] => electionTimer'[p])
      BY <1>1, <2>1, <2>3 DEF HandleRequestVote
    <3> QED
      BY <2>1, <3>1, TimersLeftAlone
  <2> QED
    BY <2>2, <2>3
<1>2. ASSUME NEW r \in requestVoteResponses, HandleRequestVoteResponse(r)
      PROVE  Armed(p)'
  <2>1. /\ r.to \in Server /\ UNCHANGED status
        /\ DOMAIN serverState = Server /\ DOMAIN heartbeatTimer = Server
    BY <1>2 DEF HandleRequestVoteResponse, TypeOK, RequestVoteResponse
  <2>2. \/ BecomeFollower(r.to, r.reply.Term, FALSE) /\ UNCHANGED heartbeatTimer
        \/ UNCHANGED <<serverState, electionTimer, heartbeatTimer>>
        \/ BecomeLeader(r.to) /\ UNCHANGED electionTimer
    BY <1>2 DEF HandleRequestVoteResponse, timers
  <2>3. CASE BecomeFollower(r.to, r.reply.Term, FALSE) /\ UNCHANGED heartbeatTimer
    BY <2>1, <2>3, FollowerArmed
  <2>4. CASE UNCHANGED <<serverState, electionTimer, heartbeatTimer>>
    BY <2>1, <2>4, TimersLeftAlone
  <2>5. CASE BecomeLeader(r.to) /\ UNCHANGED electionTimer
    <3>1. CASE p = r.to
      <4>1. serverState'[p] = "Leader" /\ heartbeatTimer'[p]
        BY <2>1, <2>5, <3>1 DEF BecomeLeader
      <4> QED
        BY <4>1 DEF Armed
    <3>2. CASE p # r.to
      <4>1. /\ serverState'[p] = serverState[p]
            /\ heartbeatTimer'[p] = heartbeatTimer[p]
        BY <2>1, <2>5, <3>2 DEF BecomeLeader
      <4> QED
        BY <2>1, <2>5, <4>1, TimersLeftAlone
    <3> QED
      BY <3>1, <3>2
  <2> QED
    BY <2>2, <2>3, <2>4, <2>5
<1>3. ASSUME NEW r \in appendEntriesRequests, HandleAppendEntries(r)
      PROVE  Armed(p)'
  <2>1. r.to \in Server
    BY DEF TypeOK, AppendEntriesRequest
  <2>2. /\ BecomeFollower(r.to, r.args.Term, r.args.Term = currentTerm[r.to])
        /\ UNCHANGED <<heartbeatTimer, status>>
    BY <1>3 DEF HandleAppendEntries
  <2> QED
    BY <2>1, <2>2, FollowerArmed
<1>4. ASSUME NEW r \in appendEntriesResponses, HandleAppendEntriesResponse(r)
      PROVE  Armed(p)'
  <2>1. r.to \in Server /\ UNCHANGED heartbeatTimer
    BY <1>4 DEF HandleAppendEntriesResponse, TypeOK, AppendEntriesResponse
  <2>2. \/ BecomeFollower(r.to, r.reply.Term, FALSE) /\ UNCHANGED status
        \/ /\ UNCHANGED <<serverState, electionTimer>>
           /\ UNCHANGED status \/ Terminate(r.to, "panicked")
    BY <1>4 DEF HandleAppendEntriesResponse
  <2>3. status'[p] = "up" => status[p] = "up"
    BY <2>1, <2>2, TerminateStatus
  <2> QED
    BY <2>1, <2>2, <2>3, FollowerArmed, TimersLeftAlone
<1>5. ASSUME \/ \E r \in appendEntriesRequests : RejectOutdatedAppendEntries(r)
             \/ Retry \/ CallFails \/ EmptyAnswer
      PROVE  Armed(p)'
  BY <1>5, TimersLeftAlone
  DEF RejectOutdatedAppendEntries, Retry, CallFails, EmptyAnswer, timers
<1> QED
  BY <1>1, <1>2, <1>3, <1>4, <1>5 DEF MessageStep

\* No living server is left without the timer it needs, in whatever order the
\* ways from one state to another are taken and timers run out unused (Run).
THEOREM TimersStayArmed == Spec => []TimersArmed
<1>1. Init => TimersArmed
  BY DEF Init, TimersArmed
<1>2. TypeInv /\ TimersArmed /\ [Next]_vars => TimersArmed'
  <2> SUFFICES ASSUME TypeInv, TimersArmed, [Next]_vars, NEW p \in Server
               PROVE  Armed(p)'
    BY DEF TimersArmed, Armed
  <2>1. Armed(p)
    BY DEF TimersArmed, Armed
  <2>2. CASE Next
    BY <2>1, <2>2, ServerStepArmed, MessageStepArmed DEF Next
  <2>3. CASE UNCHANGED vars
    BY <2>1, <2>3 DEF vars, timers, Armed
  <2> QED
    BY <2>2, <2>3
<1>3. TypeInv /\ [Next]_vars => TypeInv'
  BY TypeInvStep
<1> QED
  BY <1>1, <1>2, <1>3, TypeInvInit, PTL DEF Spec

=============================================================================
