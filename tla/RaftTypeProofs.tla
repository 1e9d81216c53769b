--------------------------- MODULE RaftTypeProofs ---------------------------
(***************************************************************************)
(* The type invariant of the Raft peers, for any number of servers, any     *)
(* commands and any behaviour of the environment.  The one part that is not *)
(* typing is needed for it: a request without a previous term has no        *)
(* previous index, so that cutting the log at it stays inside the log.      *)
(***************************************************************************)
EXTENDS RaftProperties, SequenceTheorems, TLAPS

PrevTermFits(r) == r.args.PrevLogTerm = -1 => r.args.PrevLogIndex = -1

TypeInv == TypeOK /\ \A r \in appendEntriesRequests : PrevTermFits(r)

-----------------------------------------------------------------------------
(***************************************************************************)
(* What the pieces of handlers produce                                      *)
(***************************************************************************)

\* sendAppendEntriesToAll makes well-formed requests as long as its next
\* indexes stay inside the log.
LEMMA AppendEntriesToAllType ==
  ASSUME TypeOK, NEW s \in Server, NEW l \in Seq(Entry),
         NEW next \in [Server -> Nat],
         \A p \in Server \ {s} : next[p] <= Len(l)
  PROVE  /\ AppendEntriesToAll(s, l, next) \subseteq AppendEntriesRequest
         /\ \A r \in AppendEntriesToAll(s, l, next) : PrevTermFits(r)
<1> DEFINE prev(p) == IF next[p] > 0 THEN l[next[p]].Term ELSE -1
           args(p) == [Term |-> currentTerm[s],
                       PrevLogIndex |-> next[p] - 1, PrevLogTerm |-> prev(p),
                       Entries |-> SubSeq(l, next[p] + 1, Len(l)),
                       LeaderCommit |-> commitIndex[s]]
           call(p) == [from |-> s, to |-> p, args |-> args(p),
                       lastLogIndex |-> LastLogIndex(l), waiting |-> TRUE]
<1>1. ASSUME NEW p \in Server \ {s}
      PROVE  call(p) \in AppendEntriesRequest /\ PrevTermFits(call(p))
  <2>1. Len(l) \in Nat /\ next[p] \in Nat /\ next[p] <= Len(l)
    BY LenProperties
  <2>2. next[p] > 0 => prev(p) \in Nat
    <3>1. next[p] > 0 => l[next[p]] \in Entry
      BY <2>1, ElementOfSeq
    <3> QED
      BY <3>1 DEF Entry
  <2>3. SubSeq(l, next[p] + 1, Len(l)) \in Seq(Entry)
    <3>1. \A i \in next[p] + 1 .. Len(l) : l[i] \in Entry
      BY <2>1, ElementOfSeq
    <3> QED
      BY <2>1, <3>1, SubSeqProperties
  <2>4. /\ prev(p) \in Index /\ next[p] - 1 \in Index
        /\ prev(p) = -1 => next[p] - 1 = -1
    BY <2>1, <2>2 DEF Index
  <2>5. LastLogIndex(l) \in Index
    BY <2>1 DEF Index, LastLogIndex
  <2>6. currentTerm[s] \in Nat /\ commitIndex[s] \in Index
    BY DEF TypeOK
  <2> HIDE DEF prev
  <2>7. args(p) \in AppendEntriesArgs
    BY <2>3, <2>4, <2>6 DEF AppendEntriesArgs
  <2>8. call(p) \in AppendEntriesRequest
    BY <2>5, <2>7 DEF AppendEntriesRequest
  <2>9. PrevTermFits(call(p))
    BY <2>4 DEF PrevTermFits
  <2> QED
    BY <2>8, <2>9
<1>2. AppendEntriesToAll(s, l, next) = {call(p) : p \in Server \ {s}}
  BY DEF AppendEntriesToAll
<1> HIDE DEF call
<1> QED
  BY <1>1, <1>2

\* A request given up is the same request.
LEMMA AbandonedType ==
  /\ \A r \in RequestVoteRequest : Abandoned(r) \in RequestVoteRequest
  /\ \A r \in AppendEntriesRequest :
       /\ Abandoned(r) \in AppendEntriesRequest
       /\ PrevTermFits(r) => PrevTermFits(Abandoned(r))
BY DEF Abandoned, RequestVoteRequest, AppendEntriesRequest, PrevTermFits

\* A process that ends takes nothing well-formed away and adds nothing else.
LEMMA TerminateType ==
  ASSUME TypeInv, NEW s \in Server, NEW how \in {"killed", "panicked"},
         Terminate(s, how)
  PROVE  /\ status' \in [Server -> {"up", "killed", "panicked"}]
         /\ requestVoteRequests' \subseteq RequestVoteRequest
         /\ requestVoteResponses' \subseteq RequestVoteResponse
         /\ appendEntriesRequests' \subseteq AppendEntriesRequest
         /\ appendEntriesResponses' \subseteq AppendEntriesResponse
         /\ \A r \in appendEntriesRequests' : PrevTermFits(r)
<1>1. status' \in [Server -> {"up", "killed", "panicked"}]
  BY DEF TypeInv, TypeOK, Terminate
<1>2. requestVoteRequests' \subseteq RequestVoteRequest
  <2>1. \A r \in requestVoteRequests : r \in RequestVoteRequest
    BY DEF TypeInv, TypeOK
  <2> QED
    BY <2>1, AbandonedType DEF Terminate
<1>3. /\ requestVoteResponses' \subseteq RequestVoteResponse
      /\ appendEntriesResponses' \subseteq AppendEntriesResponse
  BY DEF TypeInv, TypeOK, Terminate
<1>4. /\ appendEntriesRequests' \subseteq AppendEntriesRequest
      /\ \A r \in appendEntriesRequests' : PrevTermFits(r)
  <2>1. \A r \in appendEntriesRequests : r \in AppendEntriesRequest /\ PrevTermFits(r)
    BY DEF TypeInv, TypeOK
  <2> QED
    BY <2>1, AbandonedType DEF Terminate
<1> QED
  BY <1>1, <1>2, <1>3, <1>4

\* A slice of a log that is read late holds entries all the same.
LEMMA RereadType ==
  ASSUME NEW r \in AppendEntriesRequest, PrevTermFits(r), NEW l \in Seq(Entry)
  PROVE  Reread(r, l) \in AppendEntriesRequest /\ PrevTermFits(Reread(r, l))
<1> DEFINE old == r.args.Entries
           k(i) == r.args.PrevLogIndex + 1 + i
           new == [i \in 1 .. Len(old) |-> IF k(i) <= Len(l) THEN l[k(i)]
                                                             ELSE old[i]]
<1>1. old \in Seq(Entry) /\ r.args.PrevLogIndex \in Index
  BY DEF AppendEntriesRequest, AppendEntriesArgs
<1>2. \A i \in 1 .. Len(old) : new[i] \in Entry
  <2> SUFFICES ASSUME NEW i \in 1 .. Len(old) PROVE new[i] \in Entry
    OBVIOUS
  <2>1. Len(l) \in Nat /\ k(i) \in Nat /\ k(i) >= 1
    BY <1>1, LenProperties DEF Index
  <2>2. CASE k(i) <= Len(l)
    BY <2>1, <2>2, ElementOfSeq
  <2>3. CASE ~(k(i) <= Len(l))
    BY <1>1, <2>3, ElementOfSeq
  <2> QED
    BY <2>2, <2>3
<1>3. new \in Seq(Entry)
  <2>1. Len(old) \in Nat
    BY <1>1, LenProperties
  <2>2. new \in [1 .. Len(old) -> Entry]
    BY <1>2
  <2> QED
    BY <2>1, <2>2, SeqDef
<1>4. Reread(r, l) = [r EXCEPT !.args.Entries = new]
  BY DEF Reread
<1> HIDE DEF new
<1> QED
  BY <1>3, <1>4 DEF AppendEntriesRequest, AppendEntriesArgs, PrevTermFits

LEMMA AfterRaceType ==
  ASSUME TypeInv, NEW l \in Seq(Entry), NEW raced \in SUBSET appendEntriesRequests
  PROVE  /\ AfterRace(raced, l) \subseteq AppendEntriesRequest
         /\ \A r \in AfterRace(raced, l) : PrevTermFits(r)
BY RereadType DEF TypeInv, TypeOK, AfterRace

\* persist() writes a record of the type restoreState reads.
LEMMA PersistType ==
  ASSUME TypeOK, NEW s \in Server, Persist(s),
         currentTerm' \in [Server -> Nat],
         votedFor' \in [Server -> Nat \cup {Nobody}],
         log' \in [Server -> Seq(Entry)]
  PROVE  stateFile' \in [Server -> RaftPersistentData]
<1>1. [CurrentTerm |-> currentTerm'[s], VotedFor |-> votedFor'[s],
       Log |-> log'[s]] \in RaftPersistentData
  BY DEF RaftPersistentData
<1> QED
  BY <1>1 DEF Persist, TypeOK

\* A commit index inside log l leaves well-typed what is applied.
LEMMA CommitAndApplyType ==
  ASSUME TypeOK, NEW s \in Server, NEW l \in Seq(Entry), NEW commit \in Index,
         commit < Len(l), CommitAndApply(s, commit, l)
  PROVE  /\ commitIndex' \in [Server -> Index]
         /\ lastApplied' \in [Server -> Index]
         /\ applied' \subseteq [Index : Nat, Command : Command]
<1>1. commitIndex[s] \in Index /\ lastApplied[s] \in Index /\ Len(l) \in Nat
  BY LenProperties DEF TypeOK
<1>2. commitIndex' \in [Server -> Index] /\ lastApplied' \in [Server -> Index]
  BY <1>1 DEF TypeOK, CommitAndApply, MaxInt
<1>3. \A i \in (lastApplied[s] + 1) .. commit :
        i + 1 \in Nat /\ l[i + 1].Command \in Command
  <2> SUFFICES ASSUME NEW i \in (lastApplied[s] + 1) .. commit
               PROVE  i + 1 \in Nat /\ l[i + 1].Command \in Command
    OBVIOUS
  <2>1. i + 1 \in 1 .. Len(l)
    BY <1>1 DEF Index
  <2>2. l[i + 1] \in Entry
    BY <2>1, ElementOfSeq
  <2> QED
    BY <2>1, <2>2 DEF Entry
<1>4. applied' \subseteq [Index : Nat, Command : Command]
  BY <1>3 DEF TypeOK, CommitAndApply
<1> QED
  BY <1>2, <1>4

-----------------------------------------------------------------------------
(***************************************************************************)
(* The initial state and the steps                                          *)
(***************************************************************************)

\* The processes that MakeRaft starts on machines without a state file.
LEMMA TypeInvInit == Init => TypeInv
BY ServerAssumption, EmptySeq
   DEF Init, TypeInv, TypeOK, DefaultState, RaftPersistentData, Index

LEMMA BecomeCandidateType ==
  ASSUME TypeInv, NEW s \in Server, BecomeCandidate(s)
  PROVE  TypeInv'
<1> DEFINE args == [Term |-> currentTerm[s] + 1, CandidateId |-> Me[s],
                    LastLogIndex |-> LastLogIndex(log[s]),
                    LastLogTerm |-> LastLogTerm(log[s])]
           new == {[from |-> s, to |-> p, args |-> args, waiting |-> TRUE]
                     : p \in Server \ {s}}
<1>0. Me[s] \in Nat
  BY ServerAssumption
<1>1. /\ currentTerm' \in [Server -> Nat] /\ log' \in [Server -> Seq(Entry)]
      /\ votedFor' \in [Server -> Nat \cup {Nobody}]
  BY <1>0 DEF TypeInv, TypeOK, BecomeCandidate
<1>2. stateFile' \in [Server -> RaftPersistentData]
  BY <1>1, PersistType DEF TypeInv, BecomeCandidate
<1>3. LastLogIndex(log[s]) \in Index /\ LastLogTerm(log[s]) \in Index
  <2>1. log[s] \in Seq(Entry) /\ Len(log[s]) \in Nat
    BY LenProperties DEF TypeInv, TypeOK
  <2>2. Len(log[s]) > 0 => log[s][Len(log[s])] \in Entry
    BY <2>1, ElementOfSeq
  <2> QED
    BY <2>1, <2>2 DEF LastLogIndex, LastLogTerm, Index, Entry
<1>4. args \in RequestVoteArgs
  BY <1>0, <1>3 DEF RequestVoteArgs, TypeInv, TypeOK
<1>5. new \subseteq RequestVoteRequest
  <2> SUFFICES ASSUME NEW p \in Server
               PROVE  [from |-> s, to |-> p, args |-> args, waiting |-> TRUE]
                        \in RequestVoteRequest
    OBVIOUS
  <2> HIDE DEF args
  <2> QED
    BY <1>4 DEF RequestVoteRequest
<1>6. requestVoteRequests' = requestVoteRequests \cup new
  BY DEF BecomeCandidate
<1>7. votes' \subseteq [voter : Server, Term : Nat, candidate : Server]
  BY DEF BecomeCandidate, TypeInv, TypeOK
<1> HIDE DEF args, new
<1> QED
  BY <1>1, <1>2, <1>5, <1>6, <1>7
     DEF TypeInv, TypeOK, BecomeCandidate, leadership, application, appendCalls

\* sendAppendEntriesToAll in the two places that may fail, with requests the
\* calls that are in flight already.
LEMMA SendAppendEntriesToAllType ==
  ASSUME TypeInv, NEW s \in Server, NEW l \in Seq(Entry), NEW requests,
         requests \subseteq AppendEntriesRequest,
         \A r \in requests : PrevTermFits(r),
         SendAppendEntriesToAll(s, l, requests)
  PROVE  /\ heartbeatTimer' \in [Server -> BOOLEAN]
         /\ status' \in [Server -> {"up", "killed", "panicked"}]
         /\ requestVoteRequests' \subseteq RequestVoteRequest
         /\ requestVoteResponses' \subseteq RequestVoteResponse
         /\ appendEntriesRequests' \subseteq AppendEntriesRequest
         /\ appendEntriesResponses' \subseteq AppendEntriesResponse
         /\ \A r \in appendEntriesRequests' : PrevTermFits(r)
<1>1. CASE NextIndexesFit(s, l)
  <2>1. nextIndex[s] \in [Server -> Nat]
    BY DEF TypeInv, TypeOK
  <2>2. \A p \in Server \ {s} : nextIndex[s][p] <= Len(l)
    BY <1>1 DEF NextIndexesFit
  <2>3. /\ AppendEntriesToAll(s, l, nextIndex[s]) \subseteq AppendEntriesRequest
        /\ \A r \in AppendEntriesToAll(s, l, nextIndex[s]) : PrevTermFits(r)
    BY <2>1, <2>2, AppendEntriesToAllType DEF TypeInv
  <2>4. /\ appendEntriesRequests' =
            requests \cup AppendEntriesToAll(s, l, nextIndex[s])
        /\ heartbeatTimer' = [heartbeatTimer EXCEPT ![s] = TRUE]
        /\ UNCHANGED <<status, voteCalls, appendEntriesResponses>>
    BY <1>1 DEF SendAppendEntriesToAll
  <2> QED
    BY <2>3, <2>4 DEF TypeInv, TypeOK, voteCalls
<1>2. CASE ~NextIndexesFit(s, l)
  <2>1. Terminate(s, "panicked") /\ UNCHANGED heartbeatTimer
    BY <1>2 DEF SendAppendEntriesToAll
  <2> QED
    BY <2>1, TerminateType DEF TypeInv, TypeOK
<1> QED
  BY <1>1, <1>2

LEMMA HeartbeatType ==
  ASSUME TypeInv, NEW s \in Server, Heartbeat(s)
  PROVE  TypeInv'
<1>1. /\ log[s] \in Seq(Entry)
      /\ appendEntriesRequests \subseteq AppendEntriesRequest
      /\ \A r \in appendEntriesRequests : PrevTermFits(r)
  BY DEF TypeInv, TypeOK
<1>2. SendAppendEntriesToAll(s, log[s], appendEntriesRequests)
  BY DEF Heartbeat
<1> QED
  BY <1>1, <1>2, SendAppendEntriesToAllType
     DEF Heartbeat, TypeInv, TypeOK, memory, leadership, application

LEMMA IdleTickType ==
  ASSUME TypeInv, NEW s \in Server, IdleTick(s)
  PROVE  TypeInv'
BY DEF IdleTick, TypeInv, TypeOK, memory, leadership, application, voteCalls,
       appendCalls

LEMMA StartType ==
  ASSUME TypeInv, NEW s \in Server, NEW c \in Command, Start(s, c)
  PROVE  TypeInv'
<1> DEFINE newLog == Append(log[s], [Term |-> currentTerm[s], Command |-> c])
<1>1. newLog \in Seq(Entry) /\ LastLogIndex(newLog) \in Index
  <2>1. log[s] \in Seq(Entry) /\ [Term |-> currentTerm[s], Command |-> c] \in Entry
    BY DEF TypeInv, TypeOK, Entry
  <2> QED
    BY <2>1, AppendProperties, LenProperties DEF LastLogIndex, Index
<1> HIDE DEF newLog
<1>2. /\ log' = [log EXCEPT ![s] = newLog]
      /\ matchIndex' = [matchIndex EXCEPT ![s][s] = LastLogIndex(newLog)]
      /\ UNCHANGED <<currentTerm, votedFor>>
      /\ Persist(s)
  BY DEF Start, newLog
<1>3. /\ log' \in [Server -> Seq(Entry)] /\ currentTerm' \in [Server -> Nat]
      /\ votedFor' \in [Server -> Nat \cup {Nobody}]
      /\ matchIndex' \in [Server -> [Server -> Index]]
  BY <1>1, <1>2 DEF TypeInv, TypeOK
<1>4. stateFile' \in [Server -> RaftPersistentData]
  BY <1>2, <1>3, PersistType DEF TypeInv
<1>5. PICK raced \in SUBSET Unencoded(s) :
        SendAppendEntriesToAll(s, newLog, AfterRace(raced, newLog))
  BY DEF Start, newLog
<1>6. /\ AfterRace(raced, newLog) \subseteq AppendEntriesRequest
      /\ \A r \in AfterRace(raced, newLog) : PrevTermFits(r)
  BY <1>1, AfterRaceType DEF Unencoded
<1>7. UNCHANGED <<nextIndex, application, serverState, receivedVote,
                  electionTimer, mishaps, votes, elected>>
  BY DEF Start
<1> QED
  BY <1>1, <1>3, <1>4, <1>5, <1>6, <1>7, SendAppendEntriesToAllType
     DEF TypeInv, TypeOK, application

LEMMA HandleRequestVoteType ==
  ASSUME TypeInv, NEW r \in requestVoteRequests, HandleRequestVote(r)
  PROVE  TypeInv'
<1> DEFINE s == r.to
           args == r.args
           newer == args.Term > currentTerm[s]
           term == IF newer THEN args.Term ELSE currentTerm[s]
           vote == IF newer THEN Nobody ELSE votedFor[s]
           granted == /\ ~MoreComplete(s, args)
                      /\ args.Term >= term
                      /\ MayVote(vote, args)
           new == { [to |-> r.from, server |-> s, args |-> args,
                     reply |-> [Term |-> term, VoteGranted |-> granted]]
                      : x \in {y \in {r} : y.waiting} }
<1>1. /\ s \in Server /\ args \in RequestVoteArgs /\ args.Term \in Nat
      /\ args.CandidateId \in Nat /\ r.from \in Server
  BY DEF TypeInv, TypeOK, RequestVoteRequest, RequestVoteArgs
<1>2. /\ currentTerm' \in [Server -> Nat] /\ log' \in [Server -> Seq(Entry)]
      /\ votedFor' \in [Server -> Nat \cup {Nobody}]
      /\ serverState' \in [Server -> {"Follower", "Candidate", "Leader"}]
  BY <1>1 DEF TypeInv, TypeOK, HandleRequestVote
<1>3. stateFile' \in [Server -> RaftPersistentData]
  <2>1. Persist(s) \/ UNCHANGED stateFile
    BY DEF HandleRequestVote
  <2> QED
    BY <1>1, <1>2, <2>1, PersistType DEF TypeInv, TypeOK
<1>4. votes' \subseteq [voter : Server, Term : Nat, candidate : Server]
  BY <1>1 DEF TypeInv, TypeOK, HandleRequestVote
<1>5. electionTimer' \in [Server -> BOOLEAN]
  <2>1. electionTimer' = [electionTimer EXCEPT ![s] = @ \/ newer]
    BY DEF HandleRequestVote
  <2> HIDE DEF newer
  <2> QED
    BY <2>1 DEF TypeInv, TypeOK
<1>6. new \subseteq RequestVoteResponse
  <2>1. term \in Nat /\ granted \in BOOLEAN
    BY <1>1 DEF TypeInv, TypeOK
  <2> HIDE DEF s, args, term, granted
  <2> QED
    BY <1>1, <2>1 DEF RequestVoteResponse
<1>7. /\ requestVoteRequests' = requestVoteRequests \ {r}
      /\ requestVoteResponses' = requestVoteResponses \cup new
  BY DEF HandleRequestVote
<1>8. UNCHANGED <<leadership, application, receivedVote, heartbeatTimer, status,
                  appendCalls, mishaps, elected>>
  BY DEF HandleRequestVote
<1> HIDE DEF s, new
<1> QED
  BY <1>1, <1>2, <1>3, <1>4, <1>5, <1>6, <1>7, <1>8
     DEF TypeInv, TypeOK, leadership, application, appendCalls

\* becomeFollower and the persist() of its handler.
LEMMA BecomeFollowerType ==
  ASSUME TypeInv, NEW s \in Server, NEW term \in Nat, NEW keep \in BOOLEAN,
         BecomeFollower(s, term, keep), log' \in [Server -> Seq(Entry)], Persist(s)
  PROVE  /\ serverState' \in [Server -> {"Follower", "Candidate", "Leader"}]
         /\ currentTerm' \in [Server -> Nat]
         /\ votedFor' \in [Server -> Nat \cup {Nobody}]
         /\ electionTimer' \in [Server -> BOOLEAN]
         /\ stateFile' \in [Server -> RaftPersistentData]
<1>1. /\ serverState' \in [Server -> {"Follower", "Candidate", "Leader"}]
      /\ currentTerm' \in [Server -> Nat]
      /\ votedFor' \in [Server -> Nat \cup {Nobody}]
      /\ electionTimer' \in [Server -> BOOLEAN]
  BY DEF TypeInv, TypeOK, BecomeFollower
<1> QED
  BY <1>1, PersistType DEF TypeInv

LEMMA BecomeLeaderType ==
  ASSUME TypeInv, NEW s \in Server, BecomeLeader(s)
  PROVE  /\ serverState' \in [Server -> {"Follower", "Candidate", "Leader"}]
         /\ nextIndex' \in [Server -> [Server -> Nat]]
         /\ matchIndex' \in [Server -> [Server -> Index]]
         /\ heartbeatTimer' \in [Server -> BOOLEAN]
         /\ appendEntriesRequests' \subseteq AppendEntriesRequest
         /\ \A r \in appendEntriesRequests' : PrevTermFits(r)
         /\ elected' \subseteq Nat \X Server
<1> DEFINE next == [p \in Server |-> LastLogIndex(log[s]) + 1]
<1>1. log[s] \in Seq(Entry) /\ next = [p \in Server |-> Len(log[s])]
  BY LenProperties DEF TypeInv, TypeOK, LastLogIndex
<1>2. next \in [Server -> Nat] /\ \A p \in Server \ {s} : next[p] <= Len(log[s])
  BY <1>1, LenProperties
<1> HIDE DEF next
<1>3. /\ AppendEntriesToAll(s, log[s], next) \subseteq AppendEntriesRequest
      /\ \A r \in AppendEntriesToAll(s, log[s], next) : PrevTermFits(r)
  BY <1>1, <1>2, AppendEntriesToAllType DEF TypeInv
<1>4. appendEntriesRequests' =
        appendEntriesRequests \cup AppendEntriesToAll(s, log[s], next)
  BY DEF BecomeLeader, next
<1>5. nextIndex' = [nextIndex EXCEPT ![s] = next]
  BY DEF BecomeLeader, next
<1>6. matchIndex' \in [Server -> [Server -> Index]]
  BY DEF BecomeLeader, TypeInv, TypeOK, Index
<1>7. /\ appendEntriesRequests' \subseteq AppendEntriesRequest
      /\ \A r \in appendEntriesRequests' : PrevTermFits(r)
  BY <1>3, <1>4 DEF TypeInv, TypeOK
<1>8. nextIndex' \in [Server -> [Server -> Nat]]
  BY <1>2, <1>5 DEF TypeInv, TypeOK
<1>9. /\ serverState' \in [Server -> {"Follower", "Candidate", "Leader"}]
      /\ heartbeatTimer' \in [Server -> BOOLEAN]
      /\ elected' \subseteq Nat \X Server
  BY DEF BecomeLeader, TypeInv, TypeOK
<1> QED
  BY <1>6, <1>7, <1>8, <1>9

LEMMA HandleRequestVoteResponseType ==
  ASSUME TypeInv, NEW r \in requestVoteResponses, HandleRequestVoteResponse(r)
  PROVE  TypeInv'
<1> DEFINE s == r.to
           newer == r.reply.Term > currentTerm[s]
           vote == /\ ~newer
                   /\ serverState[s] = "Candidate"
                   /\ CountsAsVote(s, r.reply)
           tally == receivedVote[s] \cup {r.server}
<1>1. s \in Server /\ r.reply.Term \in Nat /\ r.server \in Server
  BY DEF TypeInv, TypeOK, RequestVoteResponse, RequestVoteArgs
<1>2. /\ requestVoteResponses' = requestVoteResponses \ {r}
      /\ UNCHANGED <<application, status, requestVoteRequests,
                     appendEntriesResponses, mishaps, votes>>
  BY DEF HandleRequestVoteResponse
<1>3. CASE newer
  <2>1. /\ BecomeFollower(s, r.reply.Term, FALSE) /\ UNCHANGED log /\ Persist(s)
        /\ UNCHANGED <<receivedVote, leadership, heartbeatTimer,
                       appendEntriesRequests, elected>>
    BY <1>3 DEF HandleRequestVoteResponse
  <2> HIDE DEF s
  <2>2. log' \in [Server -> Seq(Entry)]
    BY <2>1 DEF TypeInv, TypeOK
  <2> QED
    BY <1>1, <1>2, <2>1, <2>2, BecomeFollowerType
       DEF TypeInv, TypeOK, leadership, application
<1>4. CASE vote
  <2>1. /\ receivedVote' = [receivedVote EXCEPT ![s] = tally]
        /\ \/ BecomeLeader(s)
           \/ UNCHANGED <<serverState, leadership, heartbeatTimer,
                          appendEntriesRequests, elected>>
        /\ UNCHANGED <<memory, electionTimer, stateFile>>
    BY <1>4 DEF HandleRequestVoteResponse
  <2>2. receivedVote' \in [Server -> SUBSET Server]
    BY <1>1, <2>1 DEF TypeInv, TypeOK
  <2> HIDE DEF s, tally
  <2>3. CASE BecomeLeader(s)
    BY <1>1, <1>2, <2>1, <2>2, <2>3, BecomeLeaderType
       DEF TypeInv, TypeOK, memory, application
  <2>4. CASE UNCHANGED <<serverState, leadership, heartbeatTimer,
                         appendEntriesRequests, elected>>
    BY <1>1, <1>2, <2>1, <2>2, <2>4
       DEF TypeInv, TypeOK, memory, application, leadership
  <2> QED
    BY <2>1, <2>3, <2>4
<1>5. CASE ~newer /\ ~vote
  <2>1. UNCHANGED <<memory, serverState, receivedVote, leadership, timers,
                    stateFile, appendEntriesRequests, elected>>
    BY <1>5 DEF HandleRequestVoteResponse
  <2> QED
    BY <1>2, <2>1 DEF TypeInv, TypeOK, memory, leadership, timers, application

<1> QED
  BY <1>3, <1>4, <1>5

\* What an answered call leaves behind.
LEMMA AnswerAppendEntriesType ==
  ASSUME TypeInv, NEW r \in appendEntriesRequests, NEW requests,
         NEW term \in Nat, NEW success \in BOOLEAN,
         requests \subseteq AppendEntriesRequest,
         \A q \in requests : PrevTermFits(q),
         AnswerAppendEntries(r, requests, term, success)
  PROVE  /\ appendEntriesRequests' \subseteq AppendEntriesRequest
         /\ \A q \in appendEntriesRequests' : PrevTermFits(q)
         /\ appendEntriesResponses' \subseteq AppendEntriesResponse
<1> DEFINE answer == [to |-> r.from, server |-> r.to,
                      lastLogIndex |-> r.lastLogIndex,
                      reply |-> [Term |-> term, Success |-> success]]
<1>1. answer \in AppendEntriesResponse
  BY DEF TypeInv, TypeOK, AppendEntriesRequest, AppendEntriesArgs,
         AppendEntriesResponse
<1>2. appendEntriesRequests' = requests \ {r}
  BY DEF AnswerAppendEntries
<1>3. appendEntriesResponses' =
        appendEntriesResponses \cup {answer : x \in {y \in {r} : y.waiting}}
  BY DEF AnswerAppendEntries
<1> HIDE DEF answer
<1> QED
  BY <1>1, <1>2, <1>3 DEF TypeInv, TypeOK

LEMMA RejectOutdatedAppendEntriesType ==
  ASSUME TypeInv, NEW r \in appendEntriesRequests, RejectOutdatedAppendEntries(r)
  PROVE  TypeInv'
<1>1. /\ AnswerAppendEntries(r, appendEntriesRequests, currentTerm[r.to], FALSE)
      /\ UNCHANGED <<memory, leadership, application, serverState, receivedVote,
                     timers, status, stateFile, voteCalls, mishaps, votes, elected>>
  BY DEF RejectOutdatedAppendEntries
<1>2. currentTerm[r.to] \in Nat
  BY DEF TypeInv, TypeOK, AppendEntriesRequest
<1>3. /\ appendEntriesRequests \subseteq AppendEntriesRequest
      /\ \A q \in appendEntriesRequests : PrevTermFits(q)
  BY DEF TypeInv, TypeOK
<1> QED
  BY <1>1, <1>2, <1>3, AnswerAppendEntriesType
     DEF TypeInv, TypeOK, memory, leadership, application, timers, voteCalls

\* The assertion of the handler does not fail: it follows by then.
LEMMA LeadsNoMore ==
  ASSUME TypeOK, NEW r \in appendEntriesRequests, HandleAppendEntries(r)
  PROVE  ~LeadsStill(r.to)
<1>1. r.to \in Server
  BY DEF TypeOK, AppendEntriesRequest
<1>2. BecomeFollower(r.to, r.args.Term, r.args.Term = currentTerm[r.to])
  BY DEF HandleAppendEntries
<1>3. serverState' = [serverState EXCEPT ![r.to] = "Follower"]
  BY <1>2 DEF BecomeFollower
<1> QED
  BY <1>1, <1>3 DEF LeadsStill, TypeOK

LEMMA HandleAppendEntriesType ==
  ASSUME TypeInv, NEW r \in appendEntriesRequests, HandleAppendEntries(r)
  PROVE  TypeInv'
<1> DEFINE s == r.to
           args == r.args
           matches == ~LeadsStill(s) /\ PrevEntryMatches(s, args)
           appends == matches /\ Len(args.Entries) > 0
           newLog == IF appends THEN Trimmed(log[s], args) \o args.Entries ELSE log[s]
           commit == MinInt(args.LeaderCommit, LastLogIndex(newLog))
<1>1. /\ s \in Server /\ args.Term \in Nat /\ args.PrevLogIndex \in Index
      /\ args.Entries \in Seq(Entry) /\ args.LeaderCommit \in Index
      /\ log[s] \in Seq(Entry) /\ Len(log[s]) \in Nat
      /\ PrevTermFits(r)
  BY LenProperties DEF TypeInv, TypeOK, AppendEntriesRequest, AppendEntriesArgs
<1>2. newLog \in Seq(Entry)
  <2>1. CASE appends
    <3>1. args.PrevLogIndex + 1 \in 0 .. Len(log[s])
      BY <1>1, <2>1 DEF PrevEntryMatches, PrevLogTermAt, PrevTermFits, Index
    <3>2. \A i \in 1 .. args.PrevLogIndex + 1 : log[s][i] \in Entry
      BY <1>1, <3>1, ElementOfSeq
    <3>3. Trimmed(log[s], args) \in Seq(Entry)
      BY <3>1, <3>2, SubSeqProperties DEF Trimmed
    <3> QED
      BY <1>1, <2>1, <3>3, ConcatProperties
  <2> QED
    BY <1>1, <2>1
<1>3. /\ BecomeFollower(s, args.Term, args.Term = currentTerm[s])
      /\ log' = [log EXCEPT ![s] = newLog]
      /\ Persist(s)
      /\ CommitAndApply(s, commit, newLog) \/ UNCHANGED application
      /\ UNCHANGED <<leadership, receivedVote, heartbeatTimer, status, voteCalls,
                     mishaps, votes, elected>>
  BY DEF HandleAppendEntries
<1>4. PICK raced \in SUBSET {q \in Unencoded(s) : appends} :
        AnswerAppendEntries(r, AfterRace(raced, newLog), args.Term, matches)
  BY DEF HandleAppendEntries
<1>5. commit \in Index /\ commit < Len(newLog)
  <2>1. Len(newLog) \in Nat
    BY <1>2, LenProperties
  <2> HIDE DEF newLog
  <2> QED
    BY <1>1, <2>1 DEF MinInt, LastLogIndex, Index
<1>6. matches \in BOOLEAN
  BY DEF PrevEntryMatches
<1>7. (args.Term = currentTerm[s]) \in BOOLEAN
  OBVIOUS
<1>8. raced \in SUBSET appendEntriesRequests
  BY <1>4 DEF Unencoded
<1> HIDE DEF s, args, newLog, matches, commit
<1>9. log' \in [Server -> Seq(Entry)]
  BY <1>1, <1>2, <1>3 DEF TypeInv, TypeOK
<1>10. /\ serverState' \in [Server -> {"Follower", "Candidate", "Leader"}]
       /\ currentTerm' \in [Server -> Nat]
       /\ votedFor' \in [Server -> Nat \cup {Nobody}]
       /\ electionTimer' \in [Server -> BOOLEAN]
       /\ stateFile' \in [Server -> RaftPersistentData]
  BY <1>1, <1>3, <1>7, <1>9, BecomeFollowerType
<1>11. /\ commitIndex' \in [Server -> Index]
       /\ lastApplied' \in [Server -> Index]
       /\ applied' \subseteq [Index : Nat, Command : Command]
  <2>1. CASE CommitAndApply(s, commit, newLog)
    BY <1>1, <1>2, <1>5, <2>1, CommitAndApplyType DEF TypeInv
  <2>2. CASE UNCHANGED application
    BY <2>2 DEF TypeInv, TypeOK, application
  <2> QED
    BY <1>3, <2>1, <2>2
<1>12. /\ AfterRace(raced, newLog) \subseteq AppendEntriesRequest
       /\ \A q \in AfterRace(raced, newLog) : PrevTermFits(q)
  BY <1>2, <1>8, AfterRaceType
<1>13. /\ appendEntriesRequests' \subseteq AppendEntriesRequest
       /\ \A q \in appendEntriesRequests' : PrevTermFits(q)
       /\ appendEntriesResponses' \subseteq AppendEntriesResponse
  BY <1>1, <1>4, <1>6, <1>12, AnswerAppendEntriesType
<1> QED
  BY <1>3, <1>9, <1>10, <1>11, <1>13
     DEF TypeInv, TypeOK, leadership, voteCalls

LEMMA HandleAppendEntriesResponseType ==
  ASSUME TypeInv, NEW r \in appendEntriesResponses, HandleAppendEntriesResponse(r)
  PROVE  TypeInv'
<1> DEFINE s == r.to
           next == [nextIndex EXCEPT ![s][r.server] = r.lastLogIndex + 1]
           match == [matchIndex EXCEPT ![s][r.server] = r.lastLogIndex]
           responses == appendEntriesResponses \ {r}
           newer == r.reply.Term > currentTerm[s]
<1>1. /\ s \in Server /\ r.server \in Server /\ r.reply.Term \in Nat
      /\ r.lastLogIndex \in Index /\ r.lastLogIndex + 1 \in Nat
      /\ log[s] \in Seq(Entry) /\ Len(log[s]) \in Nat
  BY LenProperties DEF TypeInv, TypeOK, AppendEntriesResponse, Index
<1>2. UNCHANGED <<receivedVote, heartbeatTimer, mishaps, votes, elected>>
  BY DEF HandleAppendEntriesResponse
<1>3. /\ next \in [Server -> [Server -> Nat]]
      /\ match \in [Server -> [Server -> Index]]
  BY <1>1 DEF TypeInv, TypeOK
<1>4. CASE r.reply.Success
  <2>1. PICK minMatch \in {match[s][p] : p \in Server} :
          \/ /\ Terminate(s, "panicked")
             /\ UNCHANGED <<leadership, application>>
          \/ /\ nextIndex' = next /\ matchIndex' = match
             /\ appendEntriesResponses' = responses
             /\ \/ /\ AdvancesCommit(s, minMatch) /\ ~(minMatch >= Len(log[s]))
                   /\ CommitAndApply(s, minMatch, log[s])
                \/ UNCHANGED application
             /\ UNCHANGED <<status, voteCalls, appendEntriesRequests>>
    BY <1>4 DEF HandleAppendEntriesResponse
  <2>2. minMatch \in Index
    BY <1>1, <1>3
  <2>3. UNCHANGED <<memory, serverState, electionTimer, stateFile>>
    BY <1>4 DEF HandleAppendEntriesResponse
  <2> HIDE DEF s, next, match
  <2>4. CASE Terminate(s, "panicked") /\ UNCHANGED <<leadership, application>>
    BY <1>1, <1>2, <2>3, <2>4, TerminateType
       DEF TypeInv, TypeOK, memory, leadership, application
  <2>5. ASSUME nextIndex' = next /\ matchIndex' = match,
               appendEntriesResponses' = responses,
               AdvancesCommit(s, minMatch) /\ ~(minMatch >= Len(log[s])),
               CommitAndApply(s, minMatch, log[s]),
               UNCHANGED <<status, voteCalls, appendEntriesRequests>>
        PROVE  TypeInv'
    <3>1. minMatch < Len(log[s])
      BY <1>1, <2>2, <2>5 DEF Index
    <3>2. /\ commitIndex' \in [Server -> Index]
          /\ lastApplied' \in [Server -> Index]
          /\ applied' \subseteq [Index : Nat, Command : Command]
      BY <1>1, <2>2, <2>5, <3>1, CommitAndApplyType DEF TypeInv
    <3> QED
      BY <1>2, <1>3, <2>3, <2>5, <3>2
         DEF TypeInv, TypeOK, memory, voteCalls
  <2>6. ASSUME nextIndex' = next /\ matchIndex' = match,
               appendEntriesResponses' = responses,
               UNCHANGED application,
               UNCHANGED <<status, voteCalls, appendEntriesRequests>>
        PROVE  TypeInv'
    BY <1>2, <1>3, <2>3, <2>6
       DEF TypeInv, TypeOK, memory, application, voteCalls
  <2> QED
    BY <2>1, <2>4, <2>5, <2>6
<1>5. CASE ~r.reply.Success /\ newer
  <2>1. /\ BecomeFollower(s, r.reply.Term, FALSE) /\ UNCHANGED log /\ Persist(s)
        /\ appendEntriesResponses' = responses
        /\ UNCHANGED <<leadership, application, status, voteCalls,
                       appendEntriesRequests>>
    BY <1>5 DEF HandleAppendEntriesResponse
  <2>2. log' \in [Server -> Seq(Entry)]
    BY <2>1 DEF TypeInv, TypeOK
  <2> HIDE DEF s
  <2> QED
    BY <1>1, <1>2, <2>1, <2>2, BecomeFollowerType
       DEF TypeInv, TypeOK, leadership, application, voteCalls
<1>6. CASE ~r.reply.Success /\ ~newer
  <2>1. /\ nextIndex' = [nextIndex EXCEPT ![s][r.server] = BackedUp(@)]
        /\ appendEntriesResponses' = responses
        /\ UNCHANGED <<memory, matchIndex, application, serverState,
                       electionTimer, status, stateFile, voteCalls,
                       appendEntriesRequests>>
    BY <1>6 DEF HandleAppendEntriesResponse
  <2>2. nextIndex' \in [Server -> [Server -> Nat]]
    <3>1. \A i \in Nat : BackedUp(i) \in Nat
      BY DEF BackedUp, MaxInt
    <3>2. nextIndex \in [Server -> [Server -> Nat]]
      BY DEF TypeInv, TypeOK
    <3> HIDE DEF s
    <3> QED
      BY <1>1, <2>1, <3>1, <3>2
  <2> QED
    BY <1>2, <2>1, <2>2 DEF TypeInv, TypeOK, memory, application, voteCalls
<1> QED
  BY <1>4, <1>5, <1>6

\* What the RPC client may do to a call keeps requests and answers well-formed.
LEMMA RpcFaultType ==
  ASSUME TypeInv, Retry \/ CallFails \/ EmptyAnswer
  PROVE  TypeInv'
<1>1. mishaps' \in Nat
  BY EnvironmentAssumption DEF Retry, CallFails, EmptyAnswer, RpcFault, TypeInv, TypeOK
<1>2. /\ \A r \in requestVoteRequests : Abandoned(r) \in RequestVoteRequest
      /\ \A r \in appendEntriesRequests :
           Abandoned(r) \in AppendEntriesRequest /\ PrevTermFits(Abandoned(r))
  BY AbandonedType DEF TypeInv, TypeOK
<1>3. UNCHANGED <<memory, leadership, application, serverState, receivedVote,
                  timers, status, stateFile, votes, elected>>
  BY DEF Retry, CallFails, EmptyAnswer
<1>4. /\ requestVoteRequests' \subseteq RequestVoteRequest
      /\ appendEntriesRequests' \subseteq AppendEntriesRequest
      /\ \A r \in appendEntriesRequests' : PrevTermFits(r)
  <2>1. CASE Retry
    BY <1>2, <2>1 DEF Retry, TypeInv, TypeOK
  <2>2. CASE CallFails
    BY <1>2, <2>2 DEF CallFails, TypeInv, TypeOK
  <2>3. CASE EmptyAnswer
    BY <1>2, <2>3 DEF EmptyAnswer, TypeInv, TypeOK, voteCalls, appendCalls
  <2> QED
    BY <2>1, <2>2, <2>3
<1>5. /\ requestVoteResponses' \subseteq RequestVoteResponse
      /\ appendEntriesResponses' \subseteq AppendEntriesResponse
  <2>1. CASE Retry \/ CallFails
    BY <2>1 DEF Retry, CallFails, TypeInv, TypeOK
  <2>2. CASE EmptyAnswer
    <3>1. \A r \in requestVoteRequests :
            [to |-> r.from, server |-> r.to, args |-> r.args,
             reply |-> [Term |-> 0, VoteGranted |-> FALSE]] \in RequestVoteResponse
      BY DEF TypeInv, TypeOK, RequestVoteRequest, RequestVoteResponse
    <3>2. \A r \in appendEntriesRequests :
            [to |-> r.from, server |-> r.to,
             lastLogIndex |-> r.lastLogIndex,
             reply |-> [Term |-> 0, Success |-> FALSE]] \in AppendEntriesResponse
      BY DEF TypeInv, TypeOK, AppendEntriesRequest, AppendEntriesArgs,
             AppendEntriesResponse
    <3> QED
      BY <2>2, <3>1, <3>2 DEF EmptyAnswer, TypeInv, TypeOK, voteCalls, appendCalls
  <2> QED
    BY <2>1, <2>2
<1> QED
  BY <1>1, <1>3, <1>4, <1>5
     DEF TypeInv, TypeOK, memory, leadership, application, timers

LEMMA KillType ==
  ASSUME TypeInv, NEW s \in Server, Kill(s),
         stateFile' \in [Server -> RaftPersistentData]
  PROVE  TypeInv'
<1>1. Terminate(s, "killed") /\ mishaps' \in Nat
  BY DEF Kill, TypeInv, TypeOK
<1>2. UNCHANGED <<memory, leadership, application, serverState, receivedVote,
                  timers, votes, elected>>
  BY DEF Kill
<1> QED
  BY <1>1, <1>2, TerminateType
     DEF TypeInv, TypeOK, memory, leadership, application, timers

LEMMA CrashType ==
  ASSUME TypeInv, NEW s \in Server,
         Crash(s) \/ CrashAfterBecomeFollower(s) \/ CrashInWriteFile(s)
  PROVE  TypeInv'
<1>1. CASE Crash(s)
  BY <1>1, KillType DEF Crash, TypeInv, TypeOK
<1>2. CASE CrashAfterBecomeFollower(s)
  <2>1. PICK r \in requestVoteRequests \cup appendEntriesRequests :
          stateFile' = [stateFile EXCEPT ![s].CurrentTerm = r.args.Term,
                                         ![s].VotedFor = Nobody]
    BY <1>2 DEF CrashAfterBecomeFollower
  <2>2. r.args.Term \in Nat
    BY DEF TypeInv, TypeOK, RequestVoteRequest, RequestVoteArgs,
           AppendEntriesRequest, AppendEntriesArgs
  <2>3. stateFile' \in [Server -> RaftPersistentData]
    <3>1. stateFile[s] \in RaftPersistentData
      BY DEF TypeInv, TypeOK
    <3>2. [stateFile[s] EXCEPT !.CurrentTerm = r.args.Term, !.VotedFor = Nobody]
            \in RaftPersistentData
      BY <2>2, <3>1 DEF RaftPersistentData
    <3>3. stateFile' = [stateFile EXCEPT ![s] =
            [stateFile[s] EXCEPT !.CurrentTerm = r.args.Term, !.VotedFor = Nobody]]
      BY <2>1 DEF TypeInv, TypeOK
    <3> HIDE DEF RaftPersistentData
    <3> QED
      BY <3>2, <3>3 DEF TypeInv, TypeOK
  <2> QED
    BY <1>2, <2>3, KillType DEF CrashAfterBecomeFollower
<1>3. CASE CrashInWriteFile(s)
  <2>1. stateFile' \in [Server -> RaftPersistentData]
    BY <1>3, EmptySeq
       DEF CrashInWriteFile, DefaultState, RaftPersistentData, TypeInv, TypeOK
  <2> QED
    BY <1>3, <2>1, KillType DEF CrashInWriteFile
<1> QED
  BY <1>1, <1>2, <1>3

LEMMA RestartType ==
  ASSUME TypeInv, NEW s \in Server, Restart(s)
  PROVE  TypeInv'
<1>1. /\ stateFile[s].CurrentTerm \in Nat
      /\ stateFile[s].VotedFor \in Nat \cup {Nobody}
      /\ stateFile[s].Log \in Seq(Entry)
  BY DEF TypeInv, TypeOK, RaftPersistentData
<1>2. /\ nextIndex' \in [Server -> [Server -> Nat]]
      /\ matchIndex' \in [Server -> [Server -> Index]]
      /\ commitIndex' \in [Server -> Index] /\ lastApplied' \in [Server -> Index]
  BY DEF Restart, TypeInv, TypeOK, Index
<1> QED
  BY <1>1, <1>2 DEF Restart, TypeInv, TypeOK, voteCalls, appendCalls

LEMMA TypeInvStep == TypeInv /\ [Next]_vars => TypeInv'
<1> SUFFICES ASSUME TypeInv, [Next]_vars PROVE TypeInv'
  OBVIOUS
<1>1. ASSUME NEW s \in Server, ServerStep(s) PROVE TypeInv'
  BY <1>1, BecomeCandidateType, HeartbeatType, IdleTickType, StartType, CrashType,
     RestartType DEF ServerStep
<1>2. CASE MessageStep
  BY <1>2, HandleRequestVoteType, HandleRequestVoteResponseType,
     RejectOutdatedAppendEntriesType, HandleAppendEntriesType,
     HandleAppendEntriesResponseType, RpcFaultType DEF MessageStep
<1>3. CASE UNCHANGED vars
  BY <1>3 DEF vars, TypeInv, TypeOK, memory, leadership, application, timers,
              voteCalls, appendCalls
<1> QED
  BY <1>1, <1>2, <1>3 DEF Next

\* The type invariant holds of every behaviour of the peers, whatever the
\* number of servers and whatever crashes and calls do.
THEOREM TypeCorrect == Spec => []TypeOK
<1>1. TypeInv => TypeOK
  BY DEF TypeInv
<1> QED
  BY <1>1, TypeInvInit, TypeInvStep, PTL DEF Spec

=============================================================================
