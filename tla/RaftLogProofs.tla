---------------------------- MODULE RaftLogProofs ----------------------------
(***************************************************************************)
(* The logs of the Raft peers, for any number of servers and any commands:  *)
(* leaders only append, and logs that share an entry share what is before   *)
(* it.  Assumed where a theorem says so: a process is never killed inside   *)
(* ioutil.WriteFile, and no call is encoded from an array that has been     *)
(* overwritten.                                                             *)
(***************************************************************************)
EXTENDS RaftElectionProofs

-----------------------------------------------------------------------------
(***************************************************************************)
(* Who leads and who campaigns                                              *)
(***************************************************************************)

\* A candidate or leader that was one before, in the same term, with the same log.
StaysInOffice(p) ==
  serverState'[p] # "Follower" =>
    /\ serverState[p] = serverState'[p]
    /\ currentTerm'[p] = currentTerm[p] /\ log'[p] = log[p]
    /\ status'[p] = "up" => status[p] = "up"

\* The step in which a candidate counts the vote that makes it leader.
Wins(p) ==
  /\ serverState[p] = "Candidate" /\ serverState'[p] = "Leader"
  /\ status[p] = "up" /\ UNCHANGED <<memory, status>>
  /\ elected' = elected \cup {<<currentTerm[p], p>>}

LEMMA FollowerStaysInOffice ==
  ASSUME TypeOK, NEW p \in Server, NEW s \in Server, NEW term, NEW keep,
         BecomeFollower(s, term, keep),
         \A q \in Server \ {s} : log'[q] = log[q], UNCHANGED status
  PROVE  StaysInOffice(p)
<1>1. CASE p = s
  <2>1. serverState'[p] = "Follower"
    BY <1>1 DEF BecomeFollower, TypeOK
  <2> QED
    BY <2>1 DEF StaysInOffice
<1>2. CASE p # s
  <2>1. /\ serverState'[p] = serverState[p] /\ currentTerm'[p] = currentTerm[p]
        /\ log'[p] = log[p] /\ status'[p] = status[p]
    BY <1>2 DEF BecomeFollower, TypeOK
  <2> QED
    BY <2>1 DEF StaysInOffice
<1> QED
  BY <1>1, <1>2

LEMMA NothingChangesOffice ==
  ASSUME NEW p \in Server, UNCHANGED <<memory, serverState>>,
         \A q \in Server : status'[q] = "up" => status[q] = "up"
  PROVE  StaysInOffice(p)
BY DEF memory, StaysInOffice

LEMMA ServerStepOffice ==
  ASSUME TypeInv, NEW s \in Server, ServerStep(s), NEW p \in Server
  PROVE  \/ BecomeCandidate(p)
         \/ \E c \in Command : Start(p, c)
         \/ StaysInOffice(p)
<1> USE DEF TypeInv
<1>1. CASE BecomeCandidate(s)
  <2>1. CASE p = s
    BY <1>1, <2>1
  <2>2. CASE p # s
    <3>1. /\ serverState' = [serverState EXCEPT ![s] = "Candidate"]
          /\ currentTerm' = [currentTerm EXCEPT ![s] = currentTerm[s] + 1]
          /\ UNCHANGED <<log, status>>
      BY <1>1 DEF BecomeCandidate
    <3>2. serverState'[p] = serverState[p] /\ currentTerm'[p] = currentTerm[p]
      BY <2>2, <3>1 DEF TypeOK
    <3> QED
      BY <3>1, <3>2 DEF StaysInOffice
  <2> QED
    BY <2>1, <2>2
<1>2. CASE Heartbeat(s)
  <2>1. /\ SendAppendEntriesToAll(s, log[s], appendEntriesRequests)
        /\ UNCHANGED <<memory, serverState>>
    BY <1>2 DEF Heartbeat
  <2> QED
    BY <2>1, SendStatus, NothingChangesOffice
<1>3. CASE IdleTick(s)
  <2>1. UNCHANGED <<memory, serverState, status>>
    BY <1>3 DEF IdleTick
  <2> QED
    BY <2>1, NothingChangesOffice
<1>4. ASSUME NEW c \in Command, Start(s, c)
      PROVE  (\E d \in Command : Start(p, d)) \/ StaysInOffice(p)
  <2>1. CASE p = s
    BY <1>4, <2>1
  <2>2. CASE p # s
    <3> DEFINE newLog == Append(log[s], [Term |-> currentTerm[s], Command |-> c])
    <3>1. /\ log' = [log EXCEPT ![s] = newLog]
          /\ UNCHANGED <<currentTerm, serverState>>
          /\ \E raced \in SUBSET Unencoded(s) :
               SendAppendEntriesToAll(s, newLog, AfterRace(raced, newLog))
      BY <1>4 DEF Start
    <3> HIDE DEF newLog
    <3>2. log'[p] = log[p] /\ (status'[p] = "up" => status[p] = "up")
      BY <2>2, <3>1, SendStatus DEF TypeOK
    <3> QED
      BY <3>1, <3>2 DEF StaysInOffice
  <2> QED
    BY <2>1, <2>2
<1>5. CASE Crash(s) \/ CrashAfterBecomeFollower(s) \/ CrashInWriteFile(s)
  <2>1. Terminate(s, "killed") /\ UNCHANGED <<memory, serverState>>
    BY <1>5 DEF Crash, CrashAfterBecomeFollower, CrashInWriteFile, Kill
  <2> QED
    BY <2>1, TerminateStatus, NothingChangesOffice
<1>6. CASE Restart(s)
  <2>1. CASE p = s
    <3>1. serverState'[p] = "Follower"
      BY <1>6, <2>1 DEF Restart, TypeOK
    <3> QED
      BY <3>1 DEF StaysInOffice
  <2>2. CASE p # s
    <3>1. /\ serverState'[p] = serverState[p] /\ currentTerm'[p] = currentTerm[p]
          /\ log'[p] = log[p] /\ status'[p] = status[p]
      BY <1>6, <2>2 DEF Restart, TypeOK
    <3> QED
      BY <3>1 DEF StaysInOffice
  <2> QED
    BY <2>1, <2>2
<1> QED
  BY <1>1, <1>2, <1>3, <1>4, <1>5, <1>6 DEF ServerStep

LEMMA MessageStepOffice ==
  ASSUME TypeInv, MessageStep, NEW p \in Server
  PROVE  Wins(p) \/ StaysInOffice(p)
<1> USE DEF TypeInv
<1>1. ASSUME NEW r \in requestVoteRequests, HandleRequestVote(r)
      PROVE  StaysInOffice(p)
  <2> DEFINE s == r.to
             newer == r.args.Term > currentTerm[s]
  <2>1. /\ serverState' = [serverState EXCEPT ![s] = IF newer THEN "Follower" ELSE @]
        /\ currentTerm' = [currentTerm EXCEPT ![s] = IF newer THEN r.args.Term ELSE @]
        /\ UNCHANGED <<log, status>>
    BY <1>1 DEF HandleRequestVote, TypeOK
  <2> HIDE DEF newer, s
  <2> QED
    BY <2>1 DEF StaysInOffice, TypeOK
<1>2. ASSUME NEW r \in requestVoteResponses, HandleRequestVoteResponse(r)
      PROVE  Wins(p) \/ StaysInOffice(p)
  <2>1. r.to \in Server /\ UNCHANGED status /\ status[r.to] = "up"
    BY <1>2 DEF HandleRequestVoteResponse, TypeOK, RequestVoteResponse
  <2>2. CASE BecomeFollower(r.to, r.reply.Term, FALSE) /\ UNCHANGED log
    BY <2>1, <2>2, FollowerStaysInOffice
  <2>3. CASE UNCHANGED <<memory, serverState>>
    BY <2>1, <2>3, NothingChangesOffice
  <2>4. CASE /\ serverState[r.to] = "Candidate" /\ UNCHANGED memory
             /\ BecomeLeader(r.to)
    <3>1. /\ serverState' = [serverState EXCEPT ![r.to] = "Leader"]
          /\ elected' = elected \cup {<<currentTerm[r.to], r.to>>}
      BY <2>4 DEF BecomeLeader
    <3>2. CASE p = r.to
      BY <2>1, <2>4, <3>1, <3>2 DEF Wins, TypeOK
    <3>3. CASE p # r.to
      BY <2>1, <2>4, <3>1, <3>3 DEF StaysInOffice, memory, TypeOK
    <3> QED
      BY <3>2, <3>3
  <2> QED
    BY <1>2, <2>2, <2>3, <2>4 DEF HandleRequestVoteResponse
<1>3. ASSUME NEW r \in appendEntriesRequests, HandleAppendEntries(r)
      PROVE  StaysInOffice(p)
  <2>1. /\ r.to \in Server /\ UNCHANGED status
        /\ BecomeFollower(r.to, r.args.Term, r.args.Term = currentTerm[r.to])
        /\ \A q \in Server \ {r.to} : log'[q] = log[q]
    BY <1>3 DEF HandleAppendEntries, TypeOK, AppendEntriesRequest
  <2> QED
    BY <2>1, FollowerStaysInOffice
<1>4. ASSUME NEW r \in appendEntriesResponses, HandleAppendEntriesResponse(r)
      PROVE  StaysInOffice(p)
  <2>1. /\ r.to \in Server
        /\ \/ /\ UNCHANGED <<memory, serverState>>
              /\ Terminate(r.to, "panicked") \/ UNCHANGED status
           \/ /\ BecomeFollower(r.to, r.reply.Term, FALSE)
              /\ UNCHANGED <<log, status>>
    BY <1>4 DEF HandleAppendEntriesResponse, TypeOK, AppendEntriesResponse
  <2> QED
    BY <2>1, TerminateStatus, NothingChangesOffice, FollowerStaysInOffice
<1>5. ASSUME \/ \E r \in appendEntriesRequests : RejectOutdatedAppendEntries(r)
             \/ Retry \/ CallFails \/ EmptyAnswer
      PROVE  StaysInOffice(p)
  <2>1. UNCHANGED <<memory, serverState, status>>
    BY <1>5 DEF RejectOutdatedAppendEntries, Retry, CallFails, EmptyAnswer
  <2> QED
    BY <2>1, NothingChangesOffice
<1> QED
  BY <1>1, <1>2, <1>3, <1>4, <1>5 DEF MessageStep

-----------------------------------------------------------------------------
(***************************************************************************)
(* The inductive invariant                                                  *)
(***************************************************************************)

\* A term won is a term saved; a leader has won its term, a candidate has not.
ElectedOnce ==
  /\ \A e \in elected : e[1] <= stateFile[e[2]].CurrentTerm
  /\ \A s \in Server :
       status[s] = "up" =>
         /\ serverState[s] = "Candidate" => <<currentTerm[s], s>> \notin elected
         /\ serverState[s] = "Leader" => <<currentTerm[s], s>> \in elected

\* v and w hold the same entries up to position n.
Shares(v, w, n) ==
  n <= Len(v) /\ n <= Len(w) /\ \A j \in 1 .. n : v[j] = w[j]

\* Every entry of w, and all before it, is in the log L[t] of the leader of its
\* term t.
Fits(w, L) == \A i \in 1 .. Len(w) : Shares(w, L[w[i].Term], i)

UpToTerm(w, t) == \A i \in 1 .. Len(w) : w[i].Term <= t

Sorted(w) == \A i, j \in 1 .. Len(w) : i <= j => w[i].Term <= w[j].Term

\* The call carries a stretch of log w, which ends at lastLogIndex.
IsStretch(r, w) ==
  /\ r.lastLogIndex = r.args.PrevLogIndex + Len(r.args.Entries)
  /\ r.lastLogIndex < Len(w)
  /\ r.args.PrevLogIndex >= 0 =>
       r.args.PrevLogTerm = w[r.args.PrevLogIndex + 1].Term
  /\ \A i \in 1 .. Len(r.args.Entries) :
       r.args.Entries[i] = w[r.args.PrevLogIndex + 1 + i]

\* The log of a server that is down is the one in its state file.
SavedLogs == \A s \in Server : stateFile[s].Log = log[s]

\* L[t] can be the log of the leader of term t when it was last seen.
LeaderLogs(L) ==
  /\ \A t \in Nat : L[t] # << >> => \E e \in elected : e[1] = t
  /\ \A t \in Nat : Fits(L[t], L) /\ UpToTerm(L[t], t) /\ Sorted(L[t])
  /\ \A s \in Server :
       Fits(log[s], L) /\ UpToTerm(log[s], stateFile[s].CurrentTerm)
  /\ \A r \in appendEntriesRequests :
       /\ <<r.args.Term, r.from>> \in elected /\ r.to # r.from
       /\ IsStretch(r, L[r.args.Term])
  /\ \A s \in Server :
       status[s] = "up" /\ serverState[s] = "Leader" => log[s] = L[currentTerm[s]]

LogInv ==
  ElectedOnce /\ SavedLogs /\ \E L \in [Nat -> Seq(Entry)] : LeaderLogs(L)

-----------------------------------------------------------------------------
(***************************************************************************)
(* Terms are won once                                                       *)
(***************************************************************************)

LEMMA OfficeSteps ==
  ASSUME TypeInv, Next, NEW p \in Server
  PROVE  \/ BecomeCandidate(p)
         \/ \E c \in Command : Start(p, c)
         \/ Wins(p)
         \/ StaysInOffice(p)
BY ServerStepOffice, MessageStepOffice DEF Next

LEMMA ElectedGrows == ASSUME TypeInv, Next PROVE elected \subseteq elected'
BY NewLeadersHaveMajority

LEMMA ElectedOnceStep ==
  ASSUME TornWrites = FALSE, TypeInv, DurableState, ElectedOnce, Next
  PROVE  ElectedOnce'
<1>1. TypeInv' /\ DurableState' /\ elected \subseteq elected'
  BY TypeInvStep, FilesAdvance, ElectedGrows
<1>2. /\ elected \subseteq Nat \X Server /\ elected' \subseteq Nat \X Server
      /\ \A p \in Server : /\ stateFile[p].CurrentTerm \in Nat
                           /\ stateFile'[p].CurrentTerm \in Nat
                           /\ currentTerm[p] \in Nat
  BY <1>1 DEF TypeInv, TypeOK, RaftPersistentData
<1>3. ASSUME NEW e \in elected'
      PROVE  e[1] <= stateFile'[e[2]].CurrentTerm
  <2>1. CASE e \in elected
    <3>1. e[1] \in Nat /\ e[2] \in Server
      BY <1>2
    <3>2. e[1] <= stateFile[e[2]].CurrentTerm
      BY <2>1 DEF ElectedOnce
    <3>3. stateFile'[e[2]].CurrentTerm >= stateFile[e[2]].CurrentTerm
      BY <1>2, <3>1, FilesAdvance DEF Advances
    <3> QED
      BY <1>2, <3>1, <3>2, <3>3
  <2>2. CASE e \notin elected
    <3>1. PICK s \in Server :
            /\ elected' = elected \cup {<<currentTerm[s], s>>}
            /\ currentTerm'[s] = currentTerm[s] /\ status'[s] = "up"
      BY <2>2, NewLeadersHaveMajority
    <3>2. stateFile'[s].CurrentTerm = currentTerm[s]
      <4>1. stateFile'[s] = [CurrentTerm |-> currentTerm'[s],
                             VotedFor |-> votedFor'[s], Log |-> log'[s]]
        BY <1>1, <3>1 DEF DurableState
      <4> QED
        BY <3>1, <4>1
    <3>3. e = <<currentTerm[s], s>>
      BY <2>2, <3>1
    <3> QED
      BY <1>2, <3>2, <3>3
  <2> QED
    BY <2>1, <2>2
<1>4. ASSUME NEW p \in Server, status'[p] = "up", serverState'[p] = "Candidate"
      PROVE  <<currentTerm'[p], p>> \notin elected'
  <2>1. CASE BecomeCandidate(p)
    <3>1. /\ UNCHANGED elected /\ status[p] = "up"
          /\ currentTerm'[p] = currentTerm[p] + 1
      BY <2>1 DEF BecomeCandidate, TypeInv, TypeOK
    <3>2. stateFile[p].CurrentTerm = currentTerm[p]
      BY <3>1, DurableFields
    <3>3. ~(currentTerm[p] + 1 <= stateFile[p].CurrentTerm)
      BY <1>2, <3>2
    <3>4. \A e \in elected : e # <<currentTerm[p] + 1, p>>
      BY <3>3 DEF ElectedOnce
    <3> QED
      BY <3>1, <3>4
  <2>2. CASE StaysInOffice(p)
    <3>1. <<currentTerm'[p], p>> \notin elected
      BY <1>4, <2>2 DEF StaysInOffice, ElectedOnce
    <3>2. ASSUME NEW s \in Server, elected' = elected \cup {<<currentTerm[s], s>>},
                 serverState'[s] = "Leader"
          PROVE  <<currentTerm'[p], p>> # <<currentTerm[s], s>>
      BY <1>4, <3>2
    <3> QED
      BY <3>1, <3>2, NewLeadersHaveMajority
  <2>3. ASSUME NEW c \in Command, Start(p, c)
        PROVE  FALSE
    BY <1>4, <2>3 DEF Start
  <2>4. ~Wins(p)
    BY <1>4 DEF Wins
  <2> QED
    BY <2>1, <2>2, <2>3, <2>4, OfficeSteps
<1>5. ASSUME NEW p \in Server, status'[p] = "up", serverState'[p] = "Leader"
      PROVE  <<currentTerm'[p], p>> \in elected'
  <2>1. CASE StaysInOffice(p)
    BY <1>1, <1>5, <2>1 DEF StaysInOffice, ElectedOnce
  <2>2. ASSUME NEW c \in Command, Start(p, c)
        PROVE  <<currentTerm'[p], p>> \in elected'
    BY <1>1, <2>2 DEF Start, ElectedOnce
  <2>3. CASE Wins(p)
    BY <2>3 DEF Wins, memory
  <2>4. ~BecomeCandidate(p)
    BY <1>5 DEF BecomeCandidate, TypeInv, TypeOK
  <2> QED
    BY <2>1, <2>2, <2>3, <2>4, OfficeSteps
<1> QED
  BY <1>3, <1>4, <1>5 DEF ElectedOnce

-----------------------------------------------------------------------------
(***************************************************************************)
(* Logs that share entries                                                  *)
(***************************************************************************)

LEMMA EntriesTyped ==
  ASSUME NEW w \in Seq(Entry)
  PROVE  /\ Len(w) \in Nat
         /\ \A i \in 1 .. Len(w) : w[i] \in Entry /\ w[i].Term \in Nat
<1>1. \A i \in 1 .. Len(w) : w[i] \in Entry
  BY ElementOfSeq
<1> QED
  BY <1>1, LenProperties DEF Entry

LEMMA SharesLess ==
  ASSUME NEW v, NEW w, Len(v) \in Nat, Len(w) \in Nat, NEW n \in Int, NEW k \in Int,
         Shares(v, w, n), k <= n
  PROVE  Shares(v, w, k)
BY DEF Shares

LEMMA SharesAcross ==
  ASSUME NEW u, NEW v, NEW w, NEW n, Shares(u, v, n), Shares(v, w, n)
  PROVE  Shares(u, w, n)
BY DEF Shares

LEMMA SharesBack ==
  ASSUME NEW v, NEW w, NEW n, Shares(v, w, n)
  PROVE  Shares(w, v, n)
BY DEF Shares

\* The logs of the leaders only ever grow.
Grows(L, M) == \A t \in Nat : Shares(M[t], L[t], Len(L[t]))

LEMMA GrownShares ==
  ASSUME NEW L \in [Nat -> Seq(Entry)], NEW M \in [Nat -> Seq(Entry)], Grows(L, M),
         NEW w \in Seq(Entry), NEW t \in Nat, NEW n \in Int, Shares(w, L[t], n)
  PROVE  Shares(w, M[t], n)
<1>1. Shares(L[t], M[t], Len(L[t])) /\ n <= Len(L[t])
  BY SharesBack DEF Grows, Shares
<1>2. Len(L[t]) \in Nat /\ Len(M[t]) \in Nat
  BY EntriesTyped
<1>3. Shares(L[t], M[t], n)
  BY <1>1, <1>2, SharesLess
<1> QED
  BY <1>3, SharesAcross

LEMMA GrownFits ==
  ASSUME NEW L \in [Nat -> Seq(Entry)], NEW M \in [Nat -> Seq(Entry)], Grows(L, M),
         NEW w \in Seq(Entry), Fits(w, L)
  PROVE  Fits(w, M)
<1> SUFFICES ASSUME NEW i \in 1 .. Len(w)
             PROVE  Shares(w, M[w[i].Term], i)
  BY DEF Fits
<1>0. w[i].Term \in Nat
  BY EntriesTyped
<1>1. w[i].Term \in Nat /\ i \in Int
  BY <1>0
<1>2. Shares(w, L[w[i].Term], i)
  BY DEF Fits
<1> QED
  BY <1>1, <1>2, GrownShares

LEMMA PrefixFits ==
  ASSUME NEW L \in [Nat -> Seq(Entry)], NEW v \in Seq(Entry), NEW w \in Seq(Entry),
         Fits(w, L), Shares(v, w, Len(v))
  PROVE  Fits(v, L)
<1> SUFFICES ASSUME NEW i \in 1 .. Len(v)
             PROVE  Shares(v, L[v[i].Term], i)
  BY DEF Fits
<1>1. Len(v) \in Nat /\ Len(w) \in Nat
  BY EntriesTyped
<1>2. v[i] = w[i] /\ i \in 1 .. Len(w) /\ i \in Int /\ i <= Len(v)
  BY <1>1 DEF Shares
<1>3. Shares(v, w, i)
  BY <1>1, <1>2, SharesLess
<1>4. Shares(w, L[v[i].Term], i)
  BY <1>2 DEF Fits
<1> QED
  BY <1>3, <1>4, SharesAcross

\* Two logs that fit agree up to any place at which they hold the same term.
LEMMA FittingLogsMatch ==
  ASSUME NEW L, NEW v, NEW w, Fits(v, L), Fits(w, L),
         NEW n \in 1 .. Len(v), n \in 1 .. Len(w), v[n].Term = w[n].Term
  PROVE  Shares(v, w, n)
<1>1. Shares(v, L[v[n].Term], n) /\ Shares(w, L[v[n].Term], n)
  BY DEF Fits
<1> QED
  BY <1>1, SharesBack, SharesAcross

LEMMA FittingLogsSorted ==
  ASSUME NEW L \in [Nat -> Seq(Entry)], \A t \in Nat : Sorted(L[t]),
         NEW w \in Seq(Entry), Fits(w, L)
  PROVE  Sorted(w)
<1> SUFFICES ASSUME NEW i \in 1 .. Len(w), NEW j \in 1 .. Len(w), i <= j
             PROVE  w[i].Term <= w[j].Term
  BY DEF Sorted
<1> DEFINE v == L[w[j].Term]
<1>1. w[j].Term \in Nat /\ Len(w) \in Nat /\ Sorted(v) /\ Len(v) \in Nat
  <2>1. w[j].Term \in Nat /\ Len(w) \in Nat
    BY EntriesTyped
  <2> QED
    BY <2>1, EntriesTyped
<1>2. Shares(w, v, j)
  BY DEF Fits
<1> HIDE DEF v
<1>3. i \in 1 .. j /\ j \in 1 .. j
  BY <1>1
<1>4. j <= Len(v) /\ w[i] = v[i] /\ w[j] = v[j]
  BY <1>2, <1>3 DEF Shares
<1>5. i \in 1 .. Len(v) /\ j \in 1 .. Len(v)
  BY <1>1, <1>3, <1>4
<1> QED
  BY <1>1, <1>4, <1>5 DEF Sorted

-----------------------------------------------------------------------------
(***************************************************************************)
(* What a call makes of its receiver's log                                  *)
(***************************************************************************)

\* The log HandleAppendEntries(r) leaves its server with.
LogAfter(r) ==
  IF PrevEntryMatches(r.to, r.args) /\ Len(r.args.Entries) > 0
    THEN Trimmed(log[r.to], r.args) \o r.args.Entries
    ELSE log[r.to]

LEMMA AppendEntriesTyped ==
  ASSUME TypeInv, NEW r \in appendEntriesRequests
  PROVE  /\ r.to \in Server /\ r.from \in Server /\ r.args.Term \in Nat
         /\ r.lastLogIndex \in Int /\ r.args.LeaderCommit \in Int
         /\ r.args.PrevLogIndex \in Int /\ r.args.PrevLogIndex + 1 \in Nat
         /\ r.args.PrevLogIndex >= -1
         /\ r.args.Entries \in Seq(Entry) /\ Len(r.args.Entries) \in Nat
<1>1. r \in AppendEntriesRequest
  BY DEF TypeInv, TypeOK
<1>2. /\ r.to \in Server /\ r.from \in Server /\ r.args \in AppendEntriesArgs
      /\ r.lastLogIndex \in Index
  BY <1>1 DEF AppendEntriesRequest
<1>3. /\ r.args.Term \in Nat /\ r.args.PrevLogIndex \in Index
      /\ r.args.LeaderCommit \in Index /\ r.args.Entries \in Seq(Entry)
  BY <1>2 DEF AppendEntriesArgs
<1>4. Len(r.args.Entries) \in Nat
  BY <1>3, LenProperties
<1> QED
  BY <1>2, <1>3, <1>4 DEF Index

LEMMA HandleAppendEntriesFacts ==
  ASSUME TypeInv, NEW r \in appendEntriesRequests, HandleAppendEntries(r)
  PROVE  /\ status[r.to] = "up" /\ r.args.Term >= currentTerm[r.to]
         /\ log'[r.to] = LogAfter(r)
         /\ \A p \in Server \ {r.to} : log'[p] = log[p]
         /\ stateFile'[r.to].CurrentTerm = r.args.Term
         /\ \A p \in Server \ {r.to} : stateFile'[p] = stateFile[p]
         /\ currentTerm'[r.to] = r.args.Term /\ serverState'[r.to] = "Follower"
         /\ \A p \in Server \ {r.to} : /\ currentTerm'[p] = currentTerm[p]
                                       /\ serverState'[p] = serverState[p]
         /\ UNCHANGED <<leadership, status, voteCalls, votes, elected>>
<1>1. r.to \in Server
  BY AppendEntriesTyped
<1>2. /\ status[r.to] = "up" /\ r.args.Term >= currentTerm[r.to]
      /\ log' = [log EXCEPT ![r.to] = LogAfter(r)]
      /\ Persist(r.to)
      /\ BecomeFollower(r.to, r.args.Term, r.args.Term = currentTerm[r.to])
      /\ UNCHANGED <<leadership, status, voteCalls, votes, elected>>
  BY LeadsNoMore DEF HandleAppendEntries, LogAfter, TypeInv
<1>3. /\ currentTerm' = [currentTerm EXCEPT ![r.to] = r.args.Term]
      /\ serverState' = [serverState EXCEPT ![r.to] = "Follower"]
  BY <1>2 DEF BecomeFollower
<1>4. /\ currentTerm'[r.to] = r.args.Term /\ serverState'[r.to] = "Follower"
      /\ \A p \in Server \ {r.to} : /\ currentTerm'[p] = currentTerm[p]
                                    /\ serverState'[p] = serverState[p]
  BY <1>1, <1>3 DEF TypeInv, TypeOK
<1>5. /\ log'[r.to] = LogAfter(r)
      /\ \A p \in Server \ {r.to} : log'[p] = log[p]
  BY <1>1, <1>2 DEF TypeInv, TypeOK
<1>6. /\ stateFile'[r.to] = [CurrentTerm |-> currentTerm'[r.to],
                             VotedFor |-> votedFor'[r.to], Log |-> log'[r.to]]
      /\ \A p \in Server \ {r.to} : stateFile'[p] = stateFile[p]
  BY <1>1, <1>2 DEF Persist, TypeInv, TypeOK
<1>7. stateFile'[r.to].CurrentTerm = currentTerm'[r.to]
  BY <1>6
<1> QED
  BY <1>2, <1>4, <1>5, <1>6, <1>7

LEMMA StretchTaken ==
  ASSUME NEW l \in Seq(Entry), NEW w \in Seq(Entry), NEW es \in Seq(Entry),
         NEW n \in Nat, Shares(l, w, n), n + Len(es) <= Len(w),
         \A i \in 1 .. Len(es) : es[i] = w[n + i]
  PROVE  /\ SubSeq(l, 1, n) \o es \in Seq(Entry)
         /\ Len(SubSeq(l, 1, n) \o es) = n + Len(es)
         /\ Shares(SubSeq(l, 1, n) \o es, w, n + Len(es))
<1>1. /\ Len(l) \in Nat /\ Len(w) \in Nat /\ Len(es) \in Nat
      /\ \A i \in 1 .. Len(l) : l[i] \in Entry
  BY EntriesTyped
<1>2. \A i \in 1 .. n : l[i] \in Entry
  BY <1>1 DEF Shares
<1>3. /\ SubSeq(l, 1, n) \in Seq(Entry)
      /\ Len(SubSeq(l, 1, n)) = IF 1 <= n THEN n - 1 + 1 ELSE 0
      /\ \A i \in 1 .. n - 1 + 1 : SubSeq(l, 1, n)[i] = l[1 + i - 1]
  BY <1>2, SubSeqProperties
<1> DEFINE head == SubSeq(l, 1, n)
           v == head \o es
<1>4. /\ head \in Seq(Entry) /\ Len(head) = n
      /\ \A i \in 1 .. n : head[i] = l[i]
  BY <1>3
<1> HIDE DEF head
<1>5. /\ v \in Seq(Entry) /\ Len(v) = Len(head) + Len(es)
      /\ \A i \in 1 .. Len(head) + Len(es) :
           v[i] = IF i <= Len(head) THEN head[i] ELSE es[i - Len(head)]
  BY <1>4, ConcatProperties
<1> HIDE DEF v
<1>6. ASSUME NEW i \in 1 .. n + Len(es)
      PROVE  v[i] = w[i]
  <2>1. CASE i <= n
    <3>1. i \in 1 .. n
      BY <1>1, <2>1
    <3>2. v[i] = l[i]
      BY <1>4, <1>5, <2>1, <3>1
    <3> QED
      BY <3>1, <3>2 DEF Shares
  <2>2. CASE ~(i <= n)
    <3>1. i - n \in 1 .. Len(es) /\ n + (i - n) = i
      BY <1>1, <2>2
    <3>2. v[i] = es[i - n]
      BY <1>4, <1>5, <2>2
    <3> QED
      BY <3>1, <3>2
  <2> QED
    BY <2>1, <2>2
<1>7. Shares(v, w, n + Len(es))
  BY <1>1, <1>4, <1>5, <1>6 DEF Shares
<1> QED
  BY <1>4, <1>5, <1>7 DEF v, head

\* A follower that finds the previous entry then has the leader's log up to the
\* end of the call; what it had after that it keeps only if the call is empty.
LEMMA FollowerTakesStretch ==
  ASSUME TypeInv, NEW L \in [Nat -> Seq(Entry)], LeaderLogs(L),
         NEW r \in appendEntriesRequests, PrevEntryMatches(r.to, r.args)
  PROVE  /\ LogAfter(r) \in Seq(Entry)
         /\ Shares(LogAfter(r), L[r.args.Term], r.lastLogIndex + 1)
         /\ LogAfter(r) = log[r.to] \/ Len(LogAfter(r)) = r.lastLogIndex + 1
         /\ r.lastLogIndex + 1 \in Nat
<1> DEFINE l == log[r.to]
           w == L[r.args.Term]
           es == r.args.Entries
<1>0. PICK n : n = r.args.PrevLogIndex + 1
  OBVIOUS
<1>1. /\ r.to \in Server /\ r.args.Term \in Nat /\ r.lastLogIndex \in Int
      /\ es \in Seq(Entry) /\ Len(es) \in Nat
      /\ n \in Nat /\ r.args.PrevLogIndex = n - 1
  <2>1. /\ r.to \in Server /\ r.args.Term \in Nat /\ r.lastLogIndex \in Int
        /\ es \in Seq(Entry) /\ Len(es) \in Nat
        /\ r.args.PrevLogIndex \in Int /\ r.args.PrevLogIndex + 1 \in Nat
    BY AppendEntriesTyped
  <2> QED
    BY <1>0, <2>1
<1>2. l \in Seq(Entry) /\ w \in Seq(Entry)
  BY <1>1 DEF TypeInv, TypeOK
<1>3. Fits(l, L) /\ Fits(w, L) /\ IsStretch(r, w)
  BY <1>1 DEF LeaderLogs
<1>4. /\ r.lastLogIndex = r.args.PrevLogIndex + Len(es) /\ r.lastLogIndex < Len(w)
      /\ r.args.PrevLogIndex >= 0 =>
           r.args.PrevLogTerm = w[r.args.PrevLogIndex + 1].Term
      /\ \A i \in 1 .. Len(es) : es[i] = w[r.args.PrevLogIndex + 1 + i]
  BY <1>3 DEF IsStretch
<1>5. LogAfter(r) = IF Len(es) > 0 THEN SubSeq(l, 1, n) \o es ELSE l
  BY <1>0 DEF LogAfter, Trimmed
<1>6. /\ r.args.PrevLogTerm = PrevLogTermAt(r.to, r.args.PrevLogIndex)
      /\ PrevLogTermAt(r.to, r.args.PrevLogIndex) # -1 =>
           /\ r.args.PrevLogIndex < Len(l)
           /\ PrevLogTermAt(r.to, r.args.PrevLogIndex)
                = l[r.args.PrevLogIndex + 1].Term
  BY DEF PrevEntryMatches, PrevLogTermAt
<1> HIDE DEF l, w, es
<1>7. /\ Len(l) \in Nat /\ Len(w) \in Nat
      /\ \A i \in 1 .. Len(w) : w[i].Term \in Nat
  BY <1>2, EntriesTyped
<1>8. /\ r.lastLogIndex + 1 = n + Len(es) /\ n + Len(es) <= Len(w) /\ n <= Len(w)
      /\ \A i \in 1 .. Len(es) : es[i] = w[n + i]
  <2>1. \A i \in 1 .. Len(es) : es[i] = w[n + i]
    BY <1>0, <1>4
  <2>2. /\ n \in Nat /\ Len(es) \in Nat /\ Len(w) \in Nat /\ r.lastLogIndex \in Int
        /\ r.args.PrevLogIndex = n - 1
    BY <1>1, <1>7
  <2>3. r.lastLogIndex = (n - 1) + Len(es) /\ r.lastLogIndex < Len(w)
    BY <1>4, <2>2
  <2>4. r.lastLogIndex + 1 = n + Len(es) /\ n + Len(es) <= Len(w) /\ n <= Len(w)
    <3>1. PICK a \in Nat, b \in Nat, c \in Int, d \in Nat :
            a = Len(es) /\ b = Len(w) /\ c = r.lastLogIndex /\ d = n
      BY <2>2
    <3>2. c = (d - 1) + a /\ c < b
      BY <2>3, <3>1
    <3>3. c + 1 = d + a /\ d + a <= b /\ d <= b
      BY <3>2
    <3> QED
      BY <3>1, <3>3
  <2> QED
    BY <2>1, <2>4
<1>9. Shares(l, w, n)
  <2>1. CASE n = 0
    BY <1>7, <2>1 DEF Shares
  <2>2. CASE n > 0
    <3>1. r.args.PrevLogIndex >= 0 /\ n \in 1 .. Len(w)
      <4>1. n \in Nat /\ Len(w) \in Nat /\ n <= Len(w) /\ r.args.PrevLogIndex = n - 1
        BY <1>1, <1>7, <1>8
      <4> QED
        BY <2>2, <4>1
    <3>2. r.args.PrevLogTerm = w[n].Term /\ w[n].Term \in Nat
      <4>1. r.args.PrevLogTerm = w[r.args.PrevLogIndex + 1].Term
        BY <1>4, <3>1
      <4>2. w[n].Term \in Nat
        BY <1>7, <3>1
      <4> QED
        BY <1>0, <4>1, <4>2
    <3>3. r.args.PrevLogIndex < Len(l) /\ l[n].Term = w[n].Term
      BY <1>0, <1>6, <3>2
    <3>4. n \in 1 .. Len(l)
      <4>1. n \in Nat /\ Len(l) \in Nat /\ n - 1 < Len(l)
        BY <1>1, <1>7, <3>3
      <4> QED
        BY <2>2, <4>1
    <3> QED
      BY <1>3, <3>1, <3>3, <3>4, FittingLogsMatch
  <2> QED
    BY <1>1, <2>1, <2>2
<1>10. CASE Len(es) > 0
  <2>1. LogAfter(r) = SubSeq(l, 1, n) \o es
    BY <1>5, <1>10
  <2>2. /\ SubSeq(l, 1, n) \o es \in Seq(Entry)
        /\ Len(SubSeq(l, 1, n) \o es) = n + Len(es)
        /\ Shares(SubSeq(l, 1, n) \o es, w, n + Len(es))
    BY <1>1, <1>2, <1>8, <1>9, StretchTaken
  <2> QED
    <3>1. r.lastLogIndex + 1 = n + Len(es) /\ r.lastLogIndex + 1 \in Nat
      <4>1. PICK a \in Nat : a = Len(es)
        BY <1>1
      <4>2. r.lastLogIndex + 1 = n + a
        BY <1>8, <4>1
      <4>3. n + a \in Nat
        BY <1>1
      <4> QED
        BY <4>1, <4>2, <4>3
    <3>2. Shares(LogAfter(r), w, r.lastLogIndex + 1)
      BY <2>1, <2>2, <3>1
    <3> QED
      BY <2>1, <2>2, <3>1, <3>2 DEF w
<1>11. CASE Len(es) = 0
  <2>1. LogAfter(r) = l
    BY <1>5, <1>11
  <2>2. r.lastLogIndex + 1 = n
    <3>1. r.lastLogIndex + 1 = n + 0
      BY <1>8, <1>11
    <3>2. n \in Nat
      BY <1>1
    <3> QED
      BY <3>1, <3>2
  <2> QED
    BY <1>1, <1>2, <1>9, <2>1, <2>2 DEF l, w
<1> QED
  BY <1>1, <1>10, <1>11

-----------------------------------------------------------------------------
(***************************************************************************)
(* Where logs and calls come from                                           *)
(***************************************************************************)

\* The log of p is left alone, grows on the leader or is set by a call; the
\* state file has it afterwards.
LogStep(p) ==
  /\ stateFile'[p].Log = log'[p]
  /\ \/ log'[p] = log[p]
     \/ \E c \in Command : Start(p, c)
     \/ \E r \in appendEntriesRequests : r.to = p /\ HandleAppendEntries(r)

LEMMA PersistSavesLogs ==
  ASSUME TypeInv, SavedLogs, NEW s \in Server, Persist(s), NEW p \in Server,
         p # s => log'[p] = log[p]
  PROVE  stateFile'[p].Log = log'[p]
<1>1. /\ stateFile'[s] = [CurrentTerm |-> currentTerm'[s],
                          VotedFor |-> votedFor'[s], Log |-> log'[s]]
      /\ p # s => stateFile'[p] = stateFile[p]
  BY DEF TypeInv, TypeOK, Persist
<1>2. stateFile'[s].Log = log'[s]
  BY <1>1
<1> QED
  BY <1>1, <1>2 DEF SavedLogs

LEMMA PersistedOrLeft ==
  ASSUME TypeInv, SavedLogs, NEW s \in Server, Persist(s) \/ UNCHANGED stateFile,
         UNCHANGED log, NEW p \in Server
  PROVE  LogStep(p)
<1>1. log'[p] = log[p]
  OBVIOUS
<1>2. CASE Persist(s)
  BY <1>1, <1>2, PersistSavesLogs DEF LogStep
<1>3. CASE UNCHANGED stateFile
  BY <1>1, <1>3 DEF LogStep, SavedLogs
<1> QED
  BY <1>2, <1>3

LEMMA ServerStepLogs ==
  ASSUME TornWrites = FALSE, TypeInv, SavedLogs, NEW s \in Server, ServerStep(s),
         NEW p \in Server
  PROVE  LogStep(p)
<1>1. CASE BecomeCandidate(s)
  <2>1. UNCHANGED log /\ Persist(s)
    BY <1>1 DEF BecomeCandidate
  <2> QED
    BY <2>1, PersistedOrLeft
<1>2. CASE Heartbeat(s) \/ IdleTick(s) \/ Crash(s)
  <2>1. UNCHANGED <<log, stateFile>>
    BY <1>2 DEF Heartbeat, IdleTick, Crash, Kill, memory
  <2> QED
    BY <2>1, PersistedOrLeft
<1>3. ASSUME NEW c \in Command, Start(s, c)
      PROVE  LogStep(p)
  <2>1. Persist(s) /\ (p # s => log'[p] = log[p])
    BY <1>3 DEF Start, TypeInv, TypeOK
  <2>2. stateFile'[p].Log = log'[p]
    BY <2>1, PersistSavesLogs
  <2> QED
    BY <1>3, <2>1, <2>2 DEF LogStep
<1>4. CASE CrashAfterBecomeFollower(s)
  <2>1. UNCHANGED log
    BY <1>4 DEF CrashAfterBecomeFollower, Kill, memory
  <2>2. PICK term : stateFile' = [stateFile EXCEPT ![s].CurrentTerm = term,
                                                   ![s].VotedFor = Nobody]
    BY <1>4 DEF CrashAfterBecomeFollower
  <2>3. stateFile[s] \in RaftPersistentData
    BY DEF TypeInv, TypeOK
  <2>4. /\ p # s => stateFile'[p] = stateFile[p]
        /\ stateFile'[s].Log = stateFile[s].Log
    BY <2>2, <2>3 DEF TypeInv, TypeOK, RaftPersistentData
  <2> QED
    BY <2>1, <2>4 DEF LogStep, SavedLogs
<1>5. CASE Restart(s)
  <2>1. /\ UNCHANGED stateFile
        /\ log'[p] = IF p = s THEN stateFile[s].Log ELSE log[p]
    BY <1>5 DEF Restart, TypeInv, TypeOK
  <2> QED
    BY <2>1 DEF LogStep, SavedLogs
<1> QED
  BY <1>1, <1>2, <1>3, <1>4, <1>5 DEF ServerStep, CrashInWriteFile

LEMMA MessageStepLogs ==
  ASSUME TypeInv, SavedLogs, MessageStep, NEW p \in Server
  PROVE  LogStep(p)
<1>1. ASSUME NEW r \in requestVoteRequests, HandleRequestVote(r)
      PROVE  LogStep(p)
  <2>1. /\ r.to \in Server /\ UNCHANGED log
        /\ Persist(r.to) \/ UNCHANGED stateFile
    BY <1>1 DEF HandleRequestVote, TypeInv, TypeOK, RequestVoteRequest
  <2> QED
    BY <2>1, PersistedOrLeft
<1>2. ASSUME NEW r \in requestVoteResponses, HandleRequestVoteResponse(r)
      PROVE  LogStep(p)
  <2>1. /\ r.to \in Server /\ UNCHANGED log
        /\ Persist(r.to) \/ UNCHANGED stateFile
    BY <1>2 DEF HandleRequestVoteResponse, TypeInv, TypeOK, RequestVoteResponse, memory
  <2> QED
    BY <2>1, PersistedOrLeft
<1>3. ASSUME NEW r \in appendEntriesRequests, HandleAppendEntries(r)
      PROVE  LogStep(p)
  <2>1. r.to \in Server /\ Persist(r.to) /\ (p # r.to => log'[p] = log[p])
    BY <1>3, AppendEntriesTyped, HandleAppendEntriesFacts DEF HandleAppendEntries
  <2>2. stateFile'[p].Log = log'[p]
    BY <2>1, PersistSavesLogs
  <2> QED
    BY <1>3, <2>1, <2>2 DEF LogStep
<1>4. ASSUME NEW r \in appendEntriesResponses, HandleAppendEntriesResponse(r)
      PROVE  LogStep(p)
  <2>1. /\ r.to \in Server /\ UNCHANGED log
        /\ Persist(r.to) \/ UNCHANGED stateFile
    BY <1>4 DEF HandleAppendEntriesResponse, TypeInv, TypeOK, AppendEntriesResponse,
                memory
  <2> QED
    BY <2>1, PersistedOrLeft
<1>5. ASSUME \/ \E r \in appendEntriesRequests : RejectOutdatedAppendEntries(r)
             \/ Retry \/ CallFails \/ EmptyAnswer
      PROVE  LogStep(p)
  <2>1. UNCHANGED <<log, stateFile>>
    BY <1>5 DEF RejectOutdatedAppendEntries, Retry, CallFails, EmptyAnswer, memory
  <2> QED
    BY <2>1, PersistedOrLeft
<1> QED
  BY <1>1, <1>2, <1>3, <1>4, <1>5 DEF MessageStep

LEMMA LogSteps ==
  ASSUME TornWrites = FALSE, TypeInv, SavedLogs, Next, NEW p \in Server
  PROVE  LogStep(p)
BY ServerStepLogs, MessageStepLogs DEF Next

\* The same call, of a goroutine that may have gone since.
SameCall(q, r) ==
  /\ q.from = r.from /\ q.to = r.to /\ q.args = r.args
  /\ q.lastLogIndex = r.lastLogIndex
  /\ q.waiting => r.waiting

\* A call that s makes as leader, which it stays.
NewCall(q, s) ==
  /\ q.from = s /\ q.to # s
  /\ status'[s] = "up" /\ serverState'[s] = "Leader"
  /\ q.args.Term = currentTerm'[s] /\ q.args.LeaderCommit = commitIndex'[s]
  /\ IsStretch(q, log'[s]) /\ q.lastLogIndex = Len(log'[s]) - 1

CallStep(q) ==
  \/ \E r \in appendEntriesRequests : SameCall(q, r)
  \/ \E s \in Server : NewCall(q, s)

LEMMA AbandonedCall ==
  ASSUME TypeInv, NEW r \in appendEntriesRequests
  PROVE  SameCall(r, r) /\ SameCall(Abandoned(r), r)
BY DEF TypeInv, TypeOK, AppendEntriesRequest, Abandoned, SameCall

LEMMA TerminateCalls ==
  ASSUME TypeInv, NEW s, NEW how, Terminate(s, how), NEW q \in appendEntriesRequests'
  PROVE  CallStep(q)
BY AbandonedCall DEF Terminate, CallStep

\* Every call of a round carries the end of the sender's log.
LEMMA RoundCarriesLog ==
  ASSUME NEW s \in Server, NEW l \in Seq(Entry), NEW next \in [Server -> Nat],
         \A p \in Server \ {s} : next[p] <= Len(l),
         NEW q \in AppendEntriesToAll(s, l, next)
  PROVE  /\ q.from = s /\ q.to # s /\ q.waiting /\ IsStretch(q, l)
         /\ q.lastLogIndex = Len(l) - 1
         /\ q.args.Term = currentTerm[s] /\ q.args.LeaderCommit = commitIndex[s]
<1> DEFINE term(p) == IF next[p] > 0 THEN l[next[p]].Term ELSE -1
           entries(p) == SubSeq(l, next[p] + 1, Len(l))
           args(p) == [Term |-> currentTerm[s], PrevLogIndex |-> next[p] - 1,
                       PrevLogTerm |-> term(p), Entries |-> entries(p),
                       LeaderCommit |-> commitIndex[s]]
<1>1. PICK p \in Server \ {s} :
        q = [from |-> s, to |-> p, args |-> args(p),
             lastLogIndex |-> LastLogIndex(l), waiting |-> TRUE]
  BY DEF AppendEntriesToAll
<1> HIDE DEF args
<1>2. /\ q.from = s /\ q.to = p /\ q.waiting /\ q.args = args(p)
      /\ q.lastLogIndex = LastLogIndex(l)
  BY <1>1
<1> USE DEF args
<1> HIDE DEF term, entries
<1>3. /\ q.args.Term = currentTerm[s] /\ q.args.PrevLogIndex = next[p] - 1
      /\ q.args.PrevLogTerm = term(p) /\ q.args.Entries = entries(p)
      /\ q.args.LeaderCommit = commitIndex[s]
  BY <1>2
<1> HIDE DEF args
<1>0. PICK n : n = next[p]
  OBVIOUS
<1>4. /\ n \in Nat /\ n <= Len(l) /\ Len(l) \in Nat
      /\ \A i \in 1 .. Len(l) : l[i] \in Entry
  BY <1>0, EntriesTyped
<1>5. \A i \in n + 1 .. Len(l) : l[i] \in Entry
  BY <1>4
<1>6. /\ Len(SubSeq(l, n + 1, Len(l)))
           = IF n + 1 <= Len(l) THEN Len(l) - (n + 1) + 1 ELSE 0
      /\ \A i \in 1 .. Len(l) - (n + 1) + 1 :
           SubSeq(l, n + 1, Len(l))[i] = l[n + 1 + i - 1]
  BY <1>4, <1>5, SubSeqProperties
<1>7. /\ Len(entries(p)) = Len(l) - n
      /\ \A i \in 1 .. Len(l) - n : entries(p)[i] = l[n + i]
  <2>1. PICK k \in Nat : k = Len(l)
    BY <1>4
  <2>2. /\ k - (n + 1) + 1 = k - n /\ n <= k
        /\ \A i \in 1 .. k - n : n + 1 + i - 1 = n + i
    BY <1>4, <2>1
  <2>3. Len(SubSeq(l, n + 1, k)) = k - n
    BY <1>4, <1>6, <2>1, <2>2
  <2>4. \A i \in 1 .. k - n : SubSeq(l, n + 1, k)[i] = l[n + i]
    BY <1>6, <2>1, <2>2
  <2> QED
    BY <1>0, <2>1, <2>3, <2>4 DEF entries
<1>8. q.lastLogIndex = Len(l) - 1
  BY <1>2 DEF LastLogIndex
<1>9. q.args.PrevLogIndex >= 0 => q.args.PrevLogTerm = l[q.args.PrevLogIndex + 1].Term
  <2> SUFFICES ASSUME q.args.PrevLogIndex >= 0
               PROVE  q.args.PrevLogTerm = l[q.args.PrevLogIndex + 1].Term
    OBVIOUS
  <2>1. q.args.PrevLogIndex = n - 1
    BY <1>0, <1>3
  <2>2. n > 0 /\ q.args.PrevLogIndex + 1 = n
    BY <1>4, <2>1
  <2> QED
    BY <1>0, <1>3, <2>2 DEF term
<1>10. /\ q.lastLogIndex = q.args.PrevLogIndex + Len(q.args.Entries)
       /\ q.lastLogIndex < Len(l)
  BY <1>0, <1>3, <1>4, <1>7, <1>8
<1>11. ASSUME NEW i \in 1 .. Len(q.args.Entries)
       PROVE  q.args.Entries[i] = l[q.args.PrevLogIndex + 1 + i]
  <2>1. i \in 1 .. Len(l) - n
    BY <1>3, <1>7
  <2>2. q.args.PrevLogIndex + 1 + i = n + i
    BY <1>0, <1>3, <1>4, <2>1
  <2> QED
    BY <1>3, <1>7, <2>1, <2>2
<1> QED
  BY <1>1, <1>2, <1>3, <1>8, <1>9, <1>10, <1>11 DEF IsStretch

LEMMA SendCalls ==
  ASSUME TypeInv, NEW s \in Server, NEW l \in Seq(Entry),
         SendAppendEntriesToAll(s, l, appendEntriesRequests), log'[s] = l,
         status[s] = "up", serverState'[s] = "Leader",
         currentTerm'[s] = currentTerm[s], commitIndex'[s] = commitIndex[s],
         NEW q \in appendEntriesRequests'
  PROVE  CallStep(q)
<1>1. CASE NextIndexesFit(s, l)
  <2>1. /\ nextIndex[s] \in [Server -> Nat]
        /\ \A p \in Server \ {s} : nextIndex[s][p] <= Len(l)
    BY <1>1 DEF NextIndexesFit, TypeInv, TypeOK
  <2>2. /\ appendEntriesRequests' =
             appendEntriesRequests \cup AppendEntriesToAll(s, l, nextIndex[s])
        /\ UNCHANGED status
    BY <1>1 DEF SendAppendEntriesToAll
  <2>3. CASE q \in appendEntriesRequests
    BY <2>3, AbandonedCall DEF CallStep
  <2>4. CASE q \in AppendEntriesToAll(s, l, nextIndex[s])
    <3>1. /\ q.from = s /\ q.to # s /\ IsStretch(q, l) /\ q.lastLogIndex = Len(l) - 1
          /\ q.args.Term = currentTerm[s] /\ q.args.LeaderCommit = commitIndex[s]
      BY <2>1, <2>4, RoundCarriesLog
    <3>2. NewCall(q, s)
      BY <2>2, <3>1 DEF NewCall
    <3> QED
      BY <3>2 DEF CallStep
  <2> QED
    BY <2>2, <2>3, <2>4
<1>2. CASE ~NextIndexesFit(s, l)
  BY <1>2, TerminateCalls DEF SendAppendEntriesToAll
<1> QED
  BY <1>1, <1>2

LEMMA ServerStepCalls ==
  ASSUME SharedArrays = FALSE, TypeInv, NEW s \in Server, ServerStep(s),
         NEW q \in appendEntriesRequests'
  PROVE  CallStep(q)
<1>1. CASE Heartbeat(s)
  <2>1. /\ SendAppendEntriesToAll(s, log[s], appendEntriesRequests)
        /\ status[s] = "up" /\ serverState[s] = "Leader"
        /\ UNCHANGED <<memory, application, serverState>>
    BY <1>1 DEF Heartbeat
  <2>2. log[s] \in Seq(Entry)
    BY DEF TypeInv, TypeOK
  <2> QED
    BY <2>1, <2>2, SendCalls DEF memory, application
<1>2. CASE BecomeCandidate(s) \/ IdleTick(s) \/ Restart(s)
  BY <1>2, AbandonedCall DEF BecomeCandidate, IdleTick, Restart, appendCalls, CallStep
<1>3. CASE Crash(s) \/ CrashAfterBecomeFollower(s) \/ CrashInWriteFile(s)
  <2>1. Terminate(s, "killed")
    BY <1>3 DEF Crash, CrashAfterBecomeFollower, CrashInWriteFile, Kill
  <2> QED
    BY <2>1, TerminateCalls
<1>4. ASSUME NEW c \in Command, Start(s, c)
      PROVE  CallStep(q)
  <2> DEFINE e == [Term |-> currentTerm[s], Command |-> c]
             l == Append(log[s], e)
  <2>1. log[s] \in Seq(Entry) /\ e \in Entry
    BY DEF TypeInv, TypeOK, Entry
  <2> HIDE DEF e
  <2>2. l \in Seq(Entry)
    BY <2>1, AppendProperties
  <2> USE DEF e
  <2> HIDE DEF l
  <2>3. PICK raced \in SUBSET Unencoded(s) :
          SendAppendEntriesToAll(s, l, AfterRace(raced, l))
    BY <1>4 DEF Start, l
  <2>4. AfterRace(raced, l) = appendEntriesRequests
    BY DEF Unencoded, AfterRace
  <2>5. /\ log' = [log EXCEPT ![s] = l] /\ status[s] = "up" /\ serverState[s] = "Leader"
        /\ UNCHANGED <<currentTerm, application, serverState>>
    BY <1>4 DEF Start, l
  <2>6. log'[s] = l
    BY <2>5 DEF TypeInv, TypeOK
  <2> QED
    BY <2>2, <2>3, <2>4, <2>5, <2>6, SendCalls DEF application
<1> QED
  BY <1>1, <1>2, <1>3, <1>4 DEF ServerStep

LEMMA MessageStepCalls ==
  ASSUME SharedArrays = FALSE, TypeInv, MessageStep, NEW q \in appendEntriesRequests'
  PROVE  CallStep(q)
<1>1. ASSUME NEW r \in requestVoteResponses, HandleRequestVoteResponse(r)
      PROVE  CallStep(q)
  <2> DEFINE s == r.to
             next == [p \in Server |-> LastLogIndex(log[s]) + 1]
  <2>1. s \in Server
    BY DEF TypeInv, TypeOK, RequestVoteResponse
  <2>2. CASE UNCHANGED appendEntriesRequests
    BY <2>2, AbandonedCall DEF CallStep
  <2>3. CASE BecomeLeader(s) /\ UNCHANGED <<memory, application>>
    <3>1. log[s] \in Seq(Entry) /\ Len(log[s]) \in Nat
      BY <2>1 DEF TypeInv, TypeOK
    <3>2. next \in [Server -> Nat] /\ \A p \in Server \ {s} : next[p] <= Len(log[s])
      BY <3>1 DEF LastLogIndex
    <3>3. /\ appendEntriesRequests' =
               appendEntriesRequests \cup AppendEntriesToAll(s, log[s], next)
          /\ serverState'[s] = "Leader"
      BY <2>1, <2>3 DEF BecomeLeader, TypeInv, TypeOK
    <3>4. /\ status'[s] = "up" /\ log'[s] = log[s] /\ currentTerm'[s] = currentTerm[s]
          /\ commitIndex'[s] = commitIndex[s]
      BY <1>1, <2>3 DEF HandleRequestVoteResponse, memory, application
    <3> HIDE DEF next, s
    <3>5. CASE q \in AppendEntriesToAll(s, log[s], next)
      <4>1. /\ q.from = s /\ q.to # s /\ IsStretch(q, log[s])
            /\ q.lastLogIndex = Len(log[s]) - 1
            /\ q.args.Term = currentTerm[s] /\ q.args.LeaderCommit = commitIndex[s]
        BY <2>1, <3>1, <3>2, <3>5, RoundCarriesLog
      <4>2. NewCall(q, s)
        BY <3>3, <3>4, <4>1 DEF NewCall
      <4> QED
        BY <2>1, <4>2 DEF CallStep
    <3> QED
      BY <3>3, <3>5, AbandonedCall DEF CallStep
  <2> QED
    BY <1>1, <2>2, <2>3 DEF HandleRequestVoteResponse
<1>2. ASSUME NEW r \in appendEntriesRequests, HandleAppendEntries(r)
      PROVE  CallStep(q)
  <2> DEFINE matches == ~LeadsStill(r.to) /\ PrevEntryMatches(r.to, r.args)
             appends == matches /\ Len(r.args.Entries) > 0
             newLog == IF appends THEN Trimmed(log[r.to], r.args) \o r.args.Entries
                                  ELSE log[r.to]
  <2>1. PICK raced \in SUBSET {u \in Unencoded(r.to) : appends} :
          AnswerAppendEntries(r, AfterRace(raced, newLog), r.args.Term, matches)
    BY <1>2 DEF HandleAppendEntries
  <2> HIDE DEF matches, appends, newLog
  <2>2. AfterRace(raced, newLog) = appendEntriesRequests
    BY DEF Unencoded, AfterRace
  <2>3. appendEntriesRequests' = appendEntriesRequests \ {r}
    BY <2>1, <2>2 DEF AnswerAppendEntries
  <2> QED
    BY <2>3, AbandonedCall DEF CallStep
<1>3. ASSUME NEW r \in appendEntriesRequests, RejectOutdatedAppendEntries(r)
      PROVE  CallStep(q)
  BY <1>3, AbandonedCall DEF RejectOutdatedAppendEntries, AnswerAppendEntries, CallStep
<1>4. ASSUME NEW r \in appendEntriesResponses, HandleAppendEntriesResponse(r)
      PROVE  CallStep(q)
  <2>1. Terminate(r.to, "panicked") \/ UNCHANGED appendEntriesRequests
    BY <1>4 DEF HandleAppendEntriesResponse
  <2> QED
    BY <2>1, TerminateCalls, AbandonedCall DEF CallStep
<1>5. CASE Retry \/ CallFails \/ EmptyAnswer
  BY <1>5, AbandonedCall DEF Retry, CallFails, EmptyAnswer, appendCalls, CallStep
<1>6. ASSUME NEW r \in requestVoteRequests, HandleRequestVote(r)
      PROVE  CallStep(q)
  BY <1>6, AbandonedCall DEF HandleRequestVote, appendCalls, CallStep
<1> QED
  BY <1>1, <1>2, <1>3, <1>4, <1>5, <1>6 DEF MessageStep

LEMMA CallSteps ==
  ASSUME SharedArrays = FALSE, TypeInv, Next, NEW q \in appendEntriesRequests'
  PROVE  CallStep(q)
BY ServerStepCalls, MessageStepCalls DEF Next

-----------------------------------------------------------------------------
(***************************************************************************)
(* The invariant is inductive                                               *)
(***************************************************************************)

LEMMA FileTermsGrow ==
  ASSUME TornWrites = FALSE, TypeInv, DurableState, Next, NEW p \in Server
  PROVE  /\ stateFile[p].CurrentTerm \in Nat /\ stateFile'[p].CurrentTerm \in Nat
         /\ stateFile'[p].CurrentTerm >= stateFile[p].CurrentTerm
<1>1. /\ stateFile[p].CurrentTerm \in Nat /\ stateFile'[p].CurrentTerm \in Nat
  BY TypeInvStep DEF TypeInv, TypeOK, RaftPersistentData
<1>2. Advances(stateFile[p], stateFile'[p])
  BY FilesAdvance
<1> QED
  BY <1>1, <1>2 DEF Advances

LEMMA UpToLater ==
  ASSUME NEW w \in Seq(Entry), NEW t \in Nat, NEW u \in Nat, UpToTerm(w, t), t <= u
  PROVE  UpToTerm(w, u)
<1>1. \A i \in 1 .. Len(w) : w[i].Term \in Nat
  BY EntriesTyped
<1> QED
  BY <1>1 DEF UpToTerm

\* What a call leaves its receiver with is a log like any other.
LEMMA HandledLogFits ==
  ASSUME TypeInv, DurableState, NEW L \in [Nat -> Seq(Entry)], LeaderLogs(L),
         NEW r \in appendEntriesRequests, HandleAppendEntries(r)
  PROVE  Fits(LogAfter(r), L) /\ UpToTerm(LogAfter(r), r.args.Term)
<1> DEFINE v == LogAfter(r)
           t == r.args.Term
           s == r.to
<1>1. /\ s \in Server /\ t \in Nat /\ log[s] \in Seq(Entry) /\ L[t] \in Seq(Entry)
      /\ Fits(log[s], L) /\ UpToTerm(log[s], stateFile[s].CurrentTerm)
      /\ Fits(L[t], L) /\ UpToTerm(L[t], t)
  <2>1. s \in Server /\ t \in Nat
    BY AppendEntriesTyped
  <2>2. log[s] \in Seq(Entry)
    BY <2>1 DEF TypeInv, TypeOK
  <2> QED
    BY <2>1, <2>2 DEF LeaderLogs
<1>2. CASE v = log[s]
  <2>1. stateFile[s].CurrentTerm = currentTerm[s] /\ t >= currentTerm[s]
    BY <1>1, HandleAppendEntriesFacts, DurableFields
  <2>2. currentTerm[s] \in Nat
    BY <1>1 DEF TypeInv, TypeOK
  <2>3. UpToTerm(log[s], t)
    BY <1>1, <2>1, <2>2, UpToLater
  <2> QED
    BY <1>1, <1>2, <2>3
<1>3. CASE v # log[s]
  <2>1. PrevEntryMatches(s, r.args)
    BY <1>3 DEF LogAfter
  <2>2. v \in Seq(Entry) /\ Shares(v, L[t], Len(v))
    BY <1>3, <2>1, FollowerTakesStretch
  <2> HIDE DEF v, t, s
  <2>3. Fits(v, L)
    BY <1>1, <2>2, PrefixFits
  <2>4. UpToTerm(v, t)
    <3>1. Len(v) \in Nat /\ Len(L[t]) \in Nat
      BY <1>1, <2>2, EntriesTyped
    <3>2. ASSUME NEW i \in 1 .. Len(v)
          PROVE  v[i].Term <= t
      <4>1. Len(v) <= Len(L[t]) /\ v[i] = L[t][i]
        BY <2>2 DEF Shares
      <4>2. i \in 1 .. Len(L[t])
        <5>1. PICK a \in Nat, b \in Nat : a = Len(v) /\ b = Len(L[t])
          BY <3>1
        <5>2. i \in 1 .. a /\ a <= b
          BY <4>1, <5>1
        <5>3. i \in 1 .. b
          BY <5>2
        <5> QED
          BY <5>1, <5>3
      <4> QED
        BY <1>1, <4>1, <4>2 DEF UpToTerm
    <3> QED
      BY <3>2 DEF UpToTerm
  <2> QED
    BY <2>3, <2>4 DEF v, t
<1> QED
  BY <1>2, <1>3

LEMMA LogsStillFit ==
  ASSUME TornWrites = FALSE, TypeInv, DurableState, SavedLogs, Next,
         NEW L \in [Nat -> Seq(Entry)], LeaderLogs(L),
         NEW M \in [Nat -> Seq(Entry)], Grows(L, M),
         NEW p \in Server, \A c \in Command : ~Start(p, c)
  PROVE  Fits(log'[p], M) /\ UpToTerm(log'[p], stateFile'[p].CurrentTerm)
<1>1. log[p] \in Seq(Entry) /\ log'[p] \in Seq(Entry)
  BY TypeInvStep DEF TypeInv, TypeOK
<1>2. Fits(log'[p], L) /\ UpToTerm(log'[p], stateFile'[p].CurrentTerm)
  <2>1. CASE log'[p] = log[p]
    <3>1. Fits(log[p], L) /\ UpToTerm(log[p], stateFile[p].CurrentTerm)
      BY DEF LeaderLogs
    <3> QED
      BY <1>1, <2>1, <3>1, FileTermsGrow, UpToLater
  <2>2. ASSUME NEW r \in appendEntriesRequests, r.to = p, HandleAppendEntries(r)
        PROVE  Fits(log'[p], L) /\ UpToTerm(log'[p], stateFile'[p].CurrentTerm)
    BY <2>2, HandledLogFits, HandleAppendEntriesFacts
  <2> QED
    BY <2>1, <2>2, LogSteps DEF LogStep
<1>3. Fits(log'[p], M)
  BY <1>1, <1>2, GrownFits
<1> QED
  BY <1>2, <1>3

LEMMA StretchOfGrown ==
  ASSUME TypeInv, NEW r \in appendEntriesRequests, NEW v \in Seq(Entry),
         NEW w \in Seq(Entry), IsStretch(r, v), Shares(w, v, Len(v))
  PROVE  IsStretch(r, w)
<1> DEFINE k == Len(r.args.Entries)
           n == r.args.PrevLogIndex
           m == r.lastLogIndex
<1>1. n \in Int /\ n >= -1 /\ k \in Nat /\ m \in Int
  BY AppendEntriesTyped
<1>2. Len(v) \in Nat /\ Len(w) \in Nat
  BY EntriesTyped
<1>3. /\ m = n + k /\ m < Len(v)
      /\ n >= 0 => r.args.PrevLogTerm = v[n + 1].Term
      /\ \A i \in 1 .. k : r.args.Entries[i] = v[n + 1 + i]
  BY DEF IsStretch
<1>4. Len(v) <= Len(w) /\ \A j \in 1 .. Len(v) : w[j] = v[j]
  BY DEF Shares
<1> HIDE DEF k, n, m
<1>5. m < Len(w)
  BY <1>1, <1>2, <1>3, <1>4
<1>6. n >= 0 => r.args.PrevLogTerm = w[n + 1].Term
  <2>1. n >= 0 => n + 1 \in 1 .. Len(v)
    BY <1>1, <1>2, <1>3
  <2> QED
    BY <1>3, <1>4, <2>1
<1>7. ASSUME NEW i \in 1 .. k
      PROVE  r.args.Entries[i] = w[n + 1 + i]
  <2>1. n + 1 + i \in 1 .. Len(v)
    BY <1>1, <1>2, <1>3
  <2> QED
    BY <1>3, <1>4, <2>1
<1> QED
  BY <1>3, <1>5, <1>6, <1>7 DEF IsStretch, k, n, m

LEMMA LeaderLogsStay ==
  ASSUME TornWrites = FALSE, SharedArrays = FALSE, TypeInv, DurableState, SavedLogs,
         ElectedOnce', Next, NEW L \in [Nat -> Seq(Entry)], LeaderLogs(L),
         NEW M \in [Nat -> Seq(Entry)], Grows(L, M),
         \A t \in Nat : M[t] # << >> => \E e \in elected' : e[1] = t,
         \A t \in Nat : Fits(M[t], M) /\ UpToTerm(M[t], t) /\ Sorted(M[t]),
         \A s \in Server :
           (\E c \in Command : Start(s, c)) =>
             Fits(log'[s], M) /\ UpToTerm(log'[s], stateFile'[s].CurrentTerm),
         \A s \in Server : status'[s] = "up" /\ serverState'[s] = "Leader" =>
                             log'[s] = M[currentTerm'[s]]
  PROVE  LeaderLogs(M)'
<1>1. \A s \in Server : Fits(log'[s], M) /\ UpToTerm(log'[s], stateFile'[s].CurrentTerm)
  BY LogsStillFit
<1>2. ASSUME NEW q \in appendEntriesRequests'
      PROVE  /\ <<q.args.Term, q.from>> \in elected' /\ q.to # q.from
             /\ IsStretch(q, M[q.args.Term])
  <2>1. ASSUME NEW r \in appendEntriesRequests, SameCall(q, r)
        PROVE  /\ <<q.args.Term, q.from>> \in elected' /\ q.to # q.from
               /\ IsStretch(q, M[q.args.Term])
    <3>1. r.args.Term \in Nat
      BY AppendEntriesTyped
    <3>2. /\ <<r.args.Term, r.from>> \in elected /\ r.to # r.from
          /\ IsStretch(r, L[r.args.Term])
      BY DEF LeaderLogs
    <3>3. IsStretch(r, M[r.args.Term])
      BY <3>1, <3>2, StretchOfGrown DEF Grows
    <3> QED
      BY <2>1, <3>2, <3>3, ElectedGrows DEF SameCall, IsStretch
  <2>2. ASSUME NEW s \in Server, NewCall(q, s)
        PROVE  /\ <<q.args.Term, q.from>> \in elected' /\ q.to # q.from
               /\ IsStretch(q, M[q.args.Term])
    <3>1. /\ q.from = s /\ q.to # s /\ q.args.Term = currentTerm'[s]
          /\ status'[s] = "up" /\ serverState'[s] = "Leader" /\ IsStretch(q, log'[s])
      BY <2>2 DEF NewCall
    <3>2. <<currentTerm'[s], s>> \in elected'
      BY <3>1 DEF ElectedOnce
    <3> QED
      BY <3>1, <3>2
  <2> QED
    BY <2>1, <2>2, CallSteps DEF CallStep
<1> QED
  BY <1>1, <1>2 DEF LeaderLogs

\* In this step s, the leader of term t, gets log w, and no other leader's changes.
Writes(L, s, t, w) ==
  /\ <<t, s>> \in elected' /\ t <= stateFile'[s].CurrentTerm
  /\ status'[s] = "up" => currentTerm'[s] = t
  /\ log'[s] = w /\ Shares(w, L[t], Len(L[t])) /\ UpToTerm(w, t) /\ Sorted(w)
  /\ \A i \in 1 .. Len(w) : w[i].Term = t \/ Shares(w, L[w[i].Term], i)
  /\ \A p \in Server \ {s} : \A c \in Command : ~Start(p, c)
  /\ \A p \in Server \ {s} :
       status'[p] = "up" /\ serverState'[p] = "Leader" =>
         /\ status[p] = "up" /\ serverState[p] = "Leader"
         /\ currentTerm'[p] = currentTerm[p] /\ log'[p] = log[p]

LEMMA LeaderWrites ==
  ASSUME TornWrites = FALSE, SharedArrays = FALSE, TypeInv, DurableState, SavedLogs,
         ElectedOnce', ElectionSafety', Next,
         NEW L \in [Nat -> Seq(Entry)], LeaderLogs(L), NEW s \in Server,
         NEW t \in Nat, NEW w \in Seq(Entry), Writes(L, s, t, w),
         NEW M, M = [L EXCEPT ![t] = w]
  PROVE  M \in [Nat -> Seq(Entry)] /\ LeaderLogs(M)' /\ Grows(L, M)
<1>0. /\ <<t, s>> \in elected' /\ t <= stateFile'[s].CurrentTerm
      /\ status'[s] = "up" => currentTerm'[s] = t
      /\ log'[s] = w /\ Shares(w, L[t], Len(L[t])) /\ UpToTerm(w, t) /\ Sorted(w)
      /\ \A i \in 1 .. Len(w) : w[i].Term = t \/ Shares(w, L[w[i].Term], i)
      /\ \A p \in Server \ {s} : \A c \in Command : ~Start(p, c)
      /\ \A p \in Server \ {s} :
           status'[p] = "up" /\ serverState'[p] = "Leader" =>
             /\ status[p] = "up" /\ serverState[p] = "Leader"
             /\ currentTerm'[p] = currentTerm[p] /\ log'[p] = log[p]
  BY DEF Writes
<1>1. /\ M \in [Nat -> Seq(Entry)] /\ M[t] = w
      /\ \A u \in Nat \ {t} : M[u] = L[u]
  OBVIOUS
<1>2. ASSUME NEW u \in Nat PROVE Shares(L[u], L[u], Len(L[u]))
  <2>1. Len(L[u]) \in Nat
    BY EntriesTyped
  <2> QED
    BY <2>1 DEF Shares
<1>3. Grows(L, M)
  BY <1>0, <1>1, <1>2 DEF Grows
<1>4. <<t, s>> \in elected' /\ elected \subseteq elected' /\ <<t, s>>[1] = t
  BY <1>0, ElectedGrows
<1>5. \A u \in Nat : M[u] # << >> => \E e \in elected' : e[1] = u
  BY <1>1, <1>4 DEF LeaderLogs
<1>6. /\ \A i \in 1 .. Len(w) : w[i].Term \in Nat
      /\ Len(w) \in Nat
  BY EntriesTyped
<1>7. Fits(w, M)
  <2> SUFFICES ASSUME NEW i \in 1 .. Len(w)
               PROVE  Shares(w, M[w[i].Term], i)
    BY DEF Fits
  <2>1. CASE w[i].Term = t
    BY <1>1, <1>6, <2>1 DEF Shares
  <2>2. CASE w[i].Term # t
    BY <1>0, <1>1, <1>6, <2>2
  <2> QED
    BY <2>1, <2>2
<1>8. \A u \in Nat : Fits(M[u], M) /\ UpToTerm(M[u], u) /\ Sorted(M[u])
  <2> SUFFICES ASSUME NEW u \in Nat
               PROVE  Fits(M[u], M) /\ UpToTerm(M[u], u) /\ Sorted(M[u])
    OBVIOUS
  <2>1. CASE u = t
    BY <1>0, <1>1, <1>7, <2>1
  <2>2. CASE u # t
    <3>1. Fits(L[u], L) /\ UpToTerm(L[u], u) /\ Sorted(L[u]) /\ L[u] \in Seq(Entry)
      BY DEF LeaderLogs
    <3>2. Fits(L[u], M)
      BY <1>1, <1>3, <3>1, GrownFits
    <3> QED
      BY <1>1, <2>2, <3>1, <3>2
  <2> QED
    BY <2>1, <2>2
<1>9. ASSUME NEW p \in Server, status'[p] = "up", serverState'[p] = "Leader"
      PROVE  log'[p] = M[currentTerm'[p]]
  <2>1. CASE p = s
    BY <1>0, <1>1, <1>9, <2>1
  <2>2. CASE p # s
    <3>0. /\ status[p] = "up" /\ serverState[p] = "Leader"
          /\ currentTerm'[p] = currentTerm[p] /\ log'[p] = log[p]
      BY <1>0, <1>9, <2>2
    <3>1. log'[p] = L[currentTerm'[p]] /\ currentTerm'[p] \in Nat
      BY <3>0 DEF LeaderLogs, TypeInv, TypeOK
    <3>2. <<currentTerm'[p], p>> \in elected'
      BY <1>9 DEF ElectedOnce
    <3>3. currentTerm'[p] # t
      BY <1>4, <2>2, <3>2 DEF ElectionSafety
    <3> QED
      BY <1>1, <3>1, <3>3
  <2> QED
    BY <2>1, <2>2
<1>10. ASSUME NEW p \in Server, NEW c \in Command, Start(p, c)
       PROVE  Fits(log'[p], M) /\ UpToTerm(log'[p], stateFile'[p].CurrentTerm)
  <2>1. p = s
    BY <1>0, <1>10
  <2>2. UpToTerm(w, stateFile'[s].CurrentTerm)
    BY <1>0, FileTermsGrow, UpToLater
  <2> QED
    BY <1>0, <1>7, <2>1, <2>2
<1>11. LeaderLogs(M)'
  BY <1>1, <1>3, <1>5, <1>8, <1>9, <1>10, LeaderLogsStay
<1> QED
  BY <1>1, <1>3, <1>11

\* A leader's log grows by what Start makes at its end, and an entry of a term
\* is made by its leader.
OnlyStartAdds(L, M) ==
  \A t \in Nat : \A n \in 1 .. Len(M[t]) :
    M[t][n].Term = t \/ (\E e \in elected : e[1] = t) =>
      \/ n <= Len(L[t])
      \/ \E s \in Server, c \in Command :
           /\ Start(s, c) /\ t = currentTerm[s]
           /\ n = Len(log'[s]) /\ n = Len(L[t]) + 1

\* What Start makes of the leader's log is the log of its term.
StartWrites(M) ==
  \A s \in Server, c \in Command : Start(s, c) => M[currentTerm[s]] = log'[s]

LEMMA LogsOfStart ==
  ASSUME TornWrites = FALSE, SharedArrays = FALSE, TypeInv, DurableState, SavedLogs,
         ElectedOnce, ElectedOnce', ElectionSafety', Next,
         NEW L \in [Nat -> Seq(Entry)], LeaderLogs(L),
         NEW s \in Server, NEW c \in Command, Start(s, c)
  PROVE  \E M \in [Nat -> Seq(Entry)] :
           LeaderLogs(M)' /\ Grows(L, M) /\ OnlyStartAdds(L, M) /\ StartWrites(M)
<1> DEFINE e == [Term |-> currentTerm[s], Command |-> c]
           l == log[s]
<1>20. PICK t \in Nat : t = currentTerm[s]
  BY DEF TypeInv, TypeOK
<1>21. PICK w \in Seq(Entry) : w = log'[s]
  BY TypeInvStep DEF TypeInv, TypeOK
<1>1. /\ status[s] = "up" /\ serverState[s] = "Leader" /\ log' = [log EXCEPT ![s] = Append(l, e)]
      /\ UNCHANGED <<currentTerm, serverState, elected>>
  BY DEF Start
<1>2. l \in Seq(Entry) /\ w \in Seq(Entry) /\ t \in Nat
  BY DEF TypeInv, TypeOK
<1>3. e \in Entry /\ e.Term = t
  BY <1>20 DEF Entry
<1>4. w = Append(l, e) /\ \A p \in Server \ {s} : log'[p] = log[p]
  BY <1>1, <1>21 DEF TypeInv, TypeOK
<1>5. l = L[t] /\ Fits(l, L) /\ UpToTerm(l, t) /\ Sorted(l)
  <2>1. l = L[t]
    BY <1>1, <1>20 DEF LeaderLogs
  <2> QED
    BY <1>2, <2>1 DEF LeaderLogs
<1> HIDE DEF e, l
<1>0. PICK k : k = Len(l)
  OBVIOUS
<1>6. /\ Len(l) = k /\ Len(w) = k + 1 /\ w[k + 1] = e
      /\ \A i \in 1 .. k : w[i] = l[i]
  BY <1>0, <1>2, <1>3, <1>4, AppendProperties
<1>7. k \in Nat /\ \A i \in 1 .. k : l[i].Term \in Nat
  BY <1>0, <1>2, EntriesTyped
<1>8. Shares(w, L[t], Len(L[t]))
  <2>1. k <= k + 1 /\ k <= k
    BY <1>7
  <2>2. L[t] = l /\ Len(L[t]) = k
    BY <1>0, <1>5
  <2>3. Shares(w, l, k)
    BY <1>6, <2>1 DEF Shares
  <2> QED
    BY <2>2, <2>3
<1>9. \A i \in 1 .. Len(w) : i \in 1 .. k \/ i = k + 1
  BY <1>6, <1>7
<1>10. UpToTerm(w, t)
  <2> SUFFICES ASSUME NEW i \in 1 .. Len(w)
               PROVE  w[i].Term <= t
    BY DEF UpToTerm
  <2>1. CASE i \in 1 .. k
    BY <1>5, <1>6, <2>1 DEF UpToTerm
  <2>2. CASE i = k + 1
    <3>1. w[i] = e
      BY <1>6, <2>2
    <3> QED
      BY <1>3, <3>1
  <2> QED
    BY <1>9, <2>1, <2>2
<1>11. Sorted(w)
  <2> SUFFICES ASSUME NEW i \in 1 .. Len(w), NEW j \in 1 .. Len(w), i <= j
               PROVE  w[i].Term <= w[j].Term
    BY DEF Sorted
  <2>1. CASE j \in 1 .. k
    <3>1. i \in 1 .. k
      BY <1>7, <2>1
    <3> QED
      BY <1>5, <1>6, <2>1, <3>1 DEF Sorted
  <2>2. CASE j = k + 1
    BY <1>3, <1>6, <1>10, <2>2 DEF UpToTerm
  <2> QED
    BY <1>9, <2>1, <2>2
<1>12. \A i \in 1 .. Len(w) : w[i].Term = t \/ Shares(w, L[w[i].Term], i)
  <2> SUFFICES ASSUME NEW i \in 1 .. Len(w)
               PROVE  w[i].Term = t \/ Shares(w, L[w[i].Term], i)
    OBVIOUS
  <2>1. CASE i \in 1 .. k
    <3>1. Shares(l, L[w[i].Term], i)
      BY <1>5, <1>6, <2>1 DEF Fits
    <3>2. Shares(w, l, i)
      <4>1. i <= Len(w) /\ i <= Len(l) /\ \A j \in 1 .. i : j \in 1 .. k
        BY <1>6, <1>7, <2>1
      <4> QED
        BY <1>6, <4>1 DEF Shares
    <3> QED
      BY <3>1, <3>2, SharesAcross
  <2>2. CASE i = k + 1
    BY <1>3, <1>6, <2>2
  <2> QED
    BY <1>9, <2>1, <2>2
<1>13. \A p \in Server \ {s} : \A d \in Command : ~Start(p, d)
  <2> SUFFICES ASSUME NEW p \in Server \ {s}, NEW d \in Command, Start(p, d)
               PROVE  FALSE
    OBVIOUS
  <2> DEFINE x == [Term |-> currentTerm[p], Command |-> d]
  <2>1. log'[p] = Append(log[p], x)
    BY DEF Start, TypeInv, TypeOK
  <2>2. log[p] \in Seq(Entry) /\ currentTerm[p] \in Nat
    BY DEF TypeInv, TypeOK
  <2>3. x \in Entry
    BY <2>2 DEF Entry
  <2> HIDE DEF x
  <2>4. Len(log'[p]) = Len(log[p]) + 1 /\ Len(log[p]) \in Nat
    <3>1. Len(log[p]) \in Nat
      BY <2>2, LenProperties
    <3>2. Len(Append(log[p], x)) = Len(log[p]) + 1
      BY <2>2, <2>3, AppendProperties
    <3> QED
      BY <2>1, <3>1, <3>2
  <2>5. log'[p] = log[p]
    BY <1>4
  <2>6. Len(log[p]) = Len(log[p]) + 1
    BY <2>4, <2>5
  <2> QED
    BY <2>4, <2>6
<1>14. \A p \in Server \ {s} :
         status'[p] = "up" /\ serverState'[p] = "Leader" =>
           /\ status[p] = "up" /\ serverState[p] = "Leader"
           /\ currentTerm'[p] = currentTerm[p] /\ log'[p] = log[p]
  <2> SUFFICES ASSUME NEW p \in Server \ {s},
                      status'[p] = "up", serverState'[p] = "Leader"
               PROVE  /\ status[p] = "up" /\ serverState[p] = "Leader"
                      /\ currentTerm'[p] = currentTerm[p] /\ log'[p] = log[p]
    OBVIOUS
  <2>1. status[p] = "up"
    BY OfficeSteps, <1>13, <1>1 DEF StaysInOffice, BecomeCandidate, Wins
  <2> QED
    BY <1>1, <1>4, <2>1
<1>15. PICK M : M = [L EXCEPT ![t] = w]
  OBVIOUS
<1>17. /\ M \in [Nat -> Seq(Entry)] /\ LeaderLogs(M)' /\ Grows(L, M)
  <2>1. <<t, s>> \in elected'
    BY <1>1, <1>20 DEF ElectedOnce
  <2>2. t <= stateFile'[s].CurrentTerm
    <3>1. stateFile[s].CurrentTerm = t
      BY <1>1, <1>20, DurableFields
    <3> QED
      BY <3>1, FileTermsGrow
  <2>3. Writes(L, s, t, w)
    BY <1>1, <1>8, <1>10, <1>11, <1>12, <1>13, <1>14, <1>20, <1>21, <2>1, <2>2 DEF Writes
  <2> QED
    BY <1>15, <2>3, LeaderWrites
<1>18. M[t] = w /\ \A u \in Nat \ {t} : M[u] = L[u]
  BY <1>15
<1>16. OnlyStartAdds(L, M)
  <2> SUFFICES ASSUME NEW u \in Nat, NEW n \in 1 .. Len(M[u]), ~(n <= Len(L[u]))
               PROVE  /\ Start(s, c) /\ u = currentTerm[s]
                      /\ n = Len(log'[s]) /\ n = Len(L[u]) + 1
    BY DEF OnlyStartAdds
  <2>1. u = t
    <3> SUFFICES ASSUME u # t PROVE FALSE
      OBVIOUS
    <3>1. M[u] = L[u]
      BY <1>18
    <3>2. n \in 1 .. Len(L[u]) /\ Len(L[u]) \in Nat
      BY <3>1, EntriesTyped
    <3> QED
      BY <3>2
  <2>2. n = k + 1
    <3>1. n \in 1 .. k + 1 /\ ~(n <= k)
      BY <1>5, <1>6, <1>18, <2>1
    <3> QED
      BY <1>7, <3>1
  <2> QED
    BY <1>5, <1>6, <1>20, <1>21, <2>1, <2>2
<1>19. StartWrites(M)
  BY <1>13, <1>18, <1>20, <1>21 DEF StartWrites
<1> QED
  BY <1>16, <1>17, <1>19

\* The step in which s wins term t gives that term the log s has.
LEMMA LogsOfWins ==
  ASSUME TornWrites = FALSE, SharedArrays = FALSE, TypeInv, DurableState, SavedLogs,
         ElectedOnce, ElectedOnce', ElectionSafety', Next,
         NEW L \in [Nat -> Seq(Entry)], LeaderLogs(L), NEW s \in Server, Wins(s)
  PROVE  \E M \in [Nat -> Seq(Entry)] :
           LeaderLogs(M)' /\ Grows(L, M) /\ OnlyStartAdds(L, M) /\ StartWrites(M)
<1>20. PICK t \in Nat : t = currentTerm[s]
  BY DEF TypeInv, TypeOK
<1>21. PICK w \in Seq(Entry) : w = log[s]
  BY DEF TypeInv, TypeOK
<1>1. /\ serverState[s] = "Candidate" /\ serverState'[s] = "Leader"
      /\ status[s] = "up" /\ status' = status
      /\ currentTerm' = currentTerm /\ log' = log
      /\ elected' = elected \cup {<<t, s>>}
  BY <1>20 DEF Wins, memory
<1>2. <<t, s>> \in elected' /\ <<t, s>> \notin elected
  BY <1>1, <1>20 DEF ElectedOnce
<1>3. \A e \in elected : e[1] # t
  <2> SUFFICES ASSUME NEW e \in elected, e[1] = t PROVE FALSE
    OBVIOUS
  <2>1. e = <<e[1], e[2]>>
    <3>1. e \in Nat \X Server
      BY DEF TypeInv, TypeOK
    <3> QED
      BY <3>1
  <2>2. e \in elected' /\ <<t, s>>[1] = t /\ <<t, s>>[2] = s
    BY <1>1
  <2>3. e[2] = s
    BY <1>2, <2>2 DEF ElectionSafety
  <2> QED
    BY <1>2, <2>1, <2>3
<1>4. L[t] = << >> /\ Len(L[t]) = 0
  <2>1. L[t] = << >>
    BY <1>3, <1>20 DEF LeaderLogs, TypeInv, TypeOK
  <2> QED
    BY <2>1
<1>5. Fits(w, L) /\ UpToTerm(w, stateFile[s].CurrentTerm)
  BY <1>21 DEF LeaderLogs
<1>6. stateFile[s].CurrentTerm = t /\ t <= stateFile'[s].CurrentTerm
  <2>1. stateFile[s].CurrentTerm = t
    BY <1>1, <1>20, DurableFields
  <2> QED
    BY <2>1, FileTermsGrow
<1>7. Sorted(w)
  BY <1>5, FittingLogsSorted DEF LeaderLogs
<1>8. Len(w) \in Nat /\ \A i \in 1 .. Len(w) : w[i].Term \in Nat
  BY EntriesTyped
<1>9. Shares(w, L[t], Len(L[t]))
  BY <1>4, <1>8 DEF Shares
<1>10. \A i \in 1 .. Len(w) : w[i].Term # t
  <2> SUFFICES ASSUME NEW i \in 1 .. Len(w), w[i].Term = t PROVE FALSE
    OBVIOUS
  <2>1. Shares(w, L[t], i)
    BY <1>5 DEF Fits
  <2> QED
    BY <1>4, <1>8, <2>1 DEF Shares
<1>11. \A i \in 1 .. Len(w) : w[i].Term = t \/ Shares(w, L[w[i].Term], i)
  BY <1>5 DEF Fits
<1>12. \A p \in Server, c \in Command : ~Start(p, c)
  BY <1>1, <1>2 DEF Start
<1>13. ASSUME NEW p \in Server \ {s}, status'[p] = "up", serverState'[p] = "Leader"
       PROVE  /\ status[p] = "up" /\ serverState[p] = "Leader"
              /\ currentTerm'[p] = currentTerm[p] /\ log'[p] = log[p]
  <2>1. ~BecomeCandidate(p)
    BY <1>1, <1>2 DEF BecomeCandidate
  <2>2. ~Wins(p)
    <3> SUFFICES ASSUME Wins(p) PROVE FALSE
      OBVIOUS
    <3>1. elected' = elected \cup {<<currentTerm[p], p>>}
      BY DEF Wins
    <3>2. <<t, s>> = <<currentTerm[p], p>>
      BY <1>2, <3>1
    <3> QED
      BY <3>2
  <2>3. StaysInOffice(p)
    BY <1>12, <2>1, <2>2, OfficeSteps
  <2> QED
    BY <1>1, <1>13, <2>3 DEF StaysInOffice
<1>15. PICK M : M = [L EXCEPT ![t] = w]
  OBVIOUS
<1>16. /\ M \in [Nat -> Seq(Entry)] /\ LeaderLogs(M)' /\ Grows(L, M)
  <2>1. Writes(L, s, t, w)
    BY <1>1, <1>2, <1>5, <1>6, <1>7, <1>9, <1>11, <1>12, <1>13, <1>20, <1>21 DEF Writes
  <2> QED
    BY <1>15, <2>1, LeaderWrites
<1>17. M[t] = w /\ \A u \in Nat \ {t} : M[u] = L[u]
  BY <1>15
<1>18. OnlyStartAdds(L, M)
  <2> SUFFICES ASSUME NEW u \in Nat, NEW n \in 1 .. Len(M[u]),
                      M[u][n].Term = u \/ \E e \in elected : e[1] = u
               PROVE  n <= Len(L[u])
    BY DEF OnlyStartAdds
  <2>1. u # t
    BY <1>3, <1>10, <1>17
  <2>2. M[u] = L[u] /\ Len(L[u]) \in Nat
    BY <1>17, <2>1, EntriesTyped
  <2> QED
    BY <2>2
<1>19. StartWrites(M)
  BY <1>12 DEF StartWrites
<1> QED
  BY <1>16, <1>18, <1>19

LEMMA LogsOfOthers ==
  ASSUME TornWrites = FALSE, SharedArrays = FALSE, TypeInv, DurableState, SavedLogs,
         ElectedOnce, ElectedOnce', Next,
         NEW L \in [Nat -> Seq(Entry)], LeaderLogs(L),
         \A s \in Server : ~Wins(s) /\ \A c \in Command : ~Start(s, c)
  PROVE  LeaderLogs(L)' /\ Grows(L, L) /\ OnlyStartAdds(L, L) /\ StartWrites(L)
<1>1. \A t \in Nat : L[t] \in Seq(Entry) /\ Len(L[t]) \in Nat
  BY EntriesTyped
<1>2. Grows(L, L)
  BY <1>1 DEF Grows, Shares
<1>3. OnlyStartAdds(L, L)
  BY <1>1 DEF OnlyStartAdds
<1>4. \A t \in Nat : L[t] # << >> => \E e \in elected' : e[1] = t
  BY ElectedGrows DEF LeaderLogs
<1>5. \A t \in Nat : Fits(L[t], L) /\ UpToTerm(L[t], t) /\ Sorted(L[t])
  BY DEF LeaderLogs
<1>6. ASSUME NEW s \in Server, status'[s] = "up", serverState'[s] = "Leader"
      PROVE  log'[s] = L[currentTerm'[s]]
  <2>1. ~BecomeCandidate(s)
    BY <1>6 DEF BecomeCandidate, TypeInv, TypeOK
  <2>2. StaysInOffice(s)
    BY <2>1, OfficeSteps
  <2>3. /\ status[s] = "up" /\ serverState[s] = "Leader"
        /\ currentTerm'[s] = currentTerm[s] /\ log'[s] = log[s]
    BY <1>6, <2>2 DEF StaysInOffice
  <2> QED
    BY <2>3 DEF LeaderLogs
<1>7. LeaderLogs(L)'
  BY <1>2, <1>4, <1>5, <1>6, LeaderLogsStay
<1>8. StartWrites(L)
  BY DEF StartWrites
<1> QED
  BY <1>2, <1>3, <1>7, <1>8

\* Every step leaves the leaders' logs as they are or makes one of them longer.
LEMMA LeaderLogsStep ==
  ASSUME TornWrites = FALSE, SharedArrays = FALSE, TypeInv, DurableState, SavedLogs,
         ElectedOnce, ElectionSafety', Next,
         NEW L \in [Nat -> Seq(Entry)], LeaderLogs(L)
  PROVE  /\ ElectedOnce' /\ SavedLogs'
         /\ \E M \in [Nat -> Seq(Entry)] :
              LeaderLogs(M)' /\ Grows(L, M) /\ OnlyStartAdds(L, M) /\ StartWrites(M)
<1>1. ElectedOnce'
  BY ElectedOnceStep
<1>2. SavedLogs'
  BY LogSteps DEF LogStep, SavedLogs
<1> DEFINE Goal == \E M \in [Nat -> Seq(Entry)] :
                     /\ LeaderLogs(M)' /\ Grows(L, M)
                     /\ OnlyStartAdds(L, M) /\ StartWrites(M)
<1>3. ASSUME NEW s \in Server, NEW c \in Command, Start(s, c)
      PROVE  Goal
  BY <1>1, <1>3, LogsOfStart
<1>4. ASSUME NEW s \in Server, Wins(s)
      PROVE  Goal
  BY <1>1, <1>4, LogsOfWins
<1>5. ASSUME \A s \in Server : ~Wins(s) /\ \A c \in Command : ~Start(s, c)
      PROVE  Goal
  <2>1. LeaderLogs(L)' /\ Grows(L, L) /\ OnlyStartAdds(L, L) /\ StartWrites(L)
    BY <1>1, <1>5, LogsOfOthers
  <2> QED
    BY <2>1
<1> HIDE DEF Goal
<1>6. Goal
  BY <1>3, <1>4, <1>5
<1> QED
  BY <1>1, <1>2, <1>6 DEF Goal

LEMMA LogInvInit == Init => LogInv
<1> SUFFICES ASSUME Init PROVE LogInv
  OBVIOUS
<1>1. ElectedOnce /\ SavedLogs
  BY DEF Init, ElectedOnce, SavedLogs, DefaultState
<1> DEFINE L == [t \in Nat |-> << >>]
<1>2. L \in [Nat -> Seq(Entry)] /\ \A t \in Nat : L[t] = << >>
  BY EmptySeq
<1> HIDE DEF L
<1>3. Fits(<< >>, L) /\ \A t : UpToTerm(<< >>, t) /\ Sorted(<< >>)
  BY DEF Fits, UpToTerm, Sorted
<1>4. LeaderLogs(L)
  BY <1>2, <1>3 DEF Init, LeaderLogs
<1> QED
  BY <1>1, <1>2, <1>4 DEF LogInv

LEMMA LogInvStep ==
  ASSUME TornWrites = FALSE, SharedArrays = FALSE, TypeInv, DurableState, LogInv,
         ElectionSafety', [Next]_vars
  PROVE  LogInv'
<1>1. CASE Next
  BY <1>1, LeaderLogsStep DEF LogInv
<1>2. CASE UNCHANGED vars
  BY <1>2 DEF LogInv, ElectedOnce, SavedLogs, LeaderLogs, vars, memory, appendCalls
<1> QED
  BY <1>1, <1>2

\* Logs that fit the leaders' match.
LEMMA LeaderLogsMatch ==
  ASSUME TypeInv, LogInv
  PROVE  LogMatching
<1> SUFFICES ASSUME NEW s \in Server, NEW t \in Server,
                    NEW i \in 1 .. MinInt(Len(log[s]), Len(stateFile[t].Log)),
                    log[s][i].Term = stateFile[t].Log[i].Term
             PROVE  SubSeq(log[s], 1, i) = SubSeq(stateFile[t].Log, 1, i)
  BY DEF LogMatching
<1> DEFINE v == log[s]
           w == stateFile[t].Log
<1>2. w = log[t]
  BY DEF LogInv, SavedLogs
<1>3. v \in Seq(Entry) /\ w \in Seq(Entry) /\ v[i].Term = w[i].Term
  BY <1>2 DEF TypeInv, TypeOK
<1> HIDE DEF v, w
<1>4. i \in 1 .. Len(v) /\ i \in 1 .. Len(w) /\ i \in Nat
  <2>1. Len(v) \in Nat /\ Len(w) \in Nat
    BY <1>3
  <2> QED
    BY <2>1 DEF MinInt, v, w
<1>5. \A j \in 1 .. i : v[j] = w[j]
  <2>1. PICK L \in [Nat -> Seq(Entry)] : LeaderLogs(L)
    BY DEF LogInv
  <2>2. Fits(v, L) /\ Fits(w, L)
    BY <1>2, <2>1 DEF LeaderLogs, v
  <2>3. Shares(v, w, i)
    BY <1>3, <1>4, <2>2, FittingLogsMatch
  <2> QED
    BY <2>3 DEF Shares
<1>6. /\ \A j \in 1 .. i : v[j] \in Entry
      /\ \A j \in 1 .. i : w[j] \in Entry
  BY <1>3, <1>4, ElementOfSeq
<1>7. /\ SubSeq(v, 1, i) \in Seq(Entry) /\ Len(SubSeq(v, 1, i)) = i
      /\ \A j \in 1 .. i : SubSeq(v, 1, i)[j] = v[j]
  BY <1>4, <1>6, SubSeqProperties
<1>8. /\ SubSeq(w, 1, i) \in Seq(Entry) /\ Len(SubSeq(w, 1, i)) = i
      /\ \A j \in 1 .. i : SubSeq(w, 1, i)[j] = w[j]
  BY <1>4, <1>6, SubSeqProperties
<1>9. SubSeq(v, 1, i) = SubSeq(w, 1, i)
  BY <1>5, <1>7, <1>8, SeqEqual
<1> QED
  BY <1>9 DEF v, w

-----------------------------------------------------------------------------
(***************************************************************************)
(* Theorems                                                                 *)
(***************************************************************************)

\* As long as no term has two leaders, however the servers are numbered, two
\* logs that share an entry are the same up to it, in memory and in the state
\* files, over crashes, restarts and any behaviour of the network.
THEOREM OneLeaderMakesLogsMatch ==
  ASSUME TornWrites = FALSE, SharedArrays = FALSE
  PROVE  Spec /\ []ElectionSafety => []LogMatching
<1>1. (TypeInv /\ DurableState /\ ElectionSafety /\ ElectionSafety' /\ LogInv
         /\ [Next]_vars)
        => LogInv'
  BY LogInvStep
<1>2. TypeInv /\ LogInv => LogMatching
  BY LeaderLogsMatch
<1>3. TypeInv /\ [Next]_vars => TypeInv'
  BY TypeInvStep
<1> QED
  BY <1>1, <1>2, <1>3, TypeInvInit, LogInvInit, DurableAlways, PTL DEF Spec

\* With distinct numbers there is one leader in a term, so that they match.
THEOREM LogsMatch ==
  ASSUME TornWrites = FALSE, SharedArrays = FALSE, DistinctNumbers
  PROVE  Spec => []LogMatching
BY OneLeaderMakesLogsMatch, ElectionSafe, PTL

=============================================================================
