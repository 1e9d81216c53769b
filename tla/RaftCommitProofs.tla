--------------------------- MODULE RaftCommitProofs ---------------------------
(***************************************************************************)
(* What the Raft peers commit and apply, for any number of servers and any  *)
(* commands, with processes killed at any point and restarted, links that   *)
(* never work, and any number of campaigns and commands.  Two things are    *)
(* asked of how the peers are used, and nothing of their handlers: that     *)
(* elections fall in two terms, each server campaigning in one of them,     *)
(* and that a leader's call is answered before the next one to that peer.   *)
(***************************************************************************)
EXTENDS RaftLogProofs

\* A success is counted in the term it is for.  In another one it is not taken
\* by a leader and commits nothing.  handleAppendEntriesResponse does not compare
\* the terms: that steps are like this is proved below (AnswersCount).
AnswerInTerm ==
  \A r \in appendEntriesResponses :
    HandleAppendEntriesResponse(r) /\ r.reply.Success =>
      \/ r.reply.Term = currentTerm[r.to]
      \/ serverState[r.to] # "Leader" /\ UNCHANGED application

\* No call takes back an entry that its own sender has made in the same term.
\* handleAppendEntries takes the entries of a late call in place of all that
\* follows: that no call is that late is proved below (NothingIsCut).
NothingCut ==
  \A s \in Server : \A i \in Len(log'[s]) + 1 .. Len(log[s]) :
    log[s][i].Term # currentTerm'[s]

-----------------------------------------------------------------------------
(***************************************************************************)
(* What is known of a set A of acknowledgements: <<p, t, m>> says that p    *)
(* has had the first m entries of the leader of term t in that term.  L is  *)
(* as in LeaderLogs.                                                        *)
(***************************************************************************)
Acked(A, p, t, n) == \E m \in Nat : m >= n /\ <<p, t, m>> \in A

\* The entry that the leader of term t made at position n.
EntryOf(L, t, n) == n \in 1 .. Len(L[t]) /\ L[t][n].Term = t

\* The entry is lost: a majority has gone on without having it.
Dead(A, t, n) ==
  \E Q \in SUBSET Server :
    /\ IsMajority(Q)
    /\ \A p \in Q : stateFile[p].CurrentTerm > t /\ ~Acked(A, p, t, n)

Chosen(L, A, t, n) ==
  /\ EntryOf(L, t, n)
  /\ \E Q \in SUBSET Server : IsMajority(Q) /\ \A p \in Q : Acked(A, p, t, n)

\* The first k entries of w are chosen in a term up to u.
Committed(L, A, u, w, k) ==
  \E t, n \in Nat :
    t <= u /\ k <= n /\ Chosen(L, A, t, n) /\ Shares(w, L[t], k)

-----------------------------------------------------------------------------
(***************************************************************************)
(* The inductive invariant                                                  *)
(***************************************************************************)

VotingInv ==
  /\ DurableState
  /\ CandidatesNameThemselves
  /\ SavedVotes
  /\ GrantsAreVotes
  /\ CountedVotesAreVotes
  /\ ElectedByMajority

\* s runs, and leads if it is in term t.
Waits(s, t) ==
  status[s] = "up" /\ (t = currentTerm[s] => serverState[s] = "Leader")

\* A goroutine that waits for an answer in the current term is the leader's.
OnlyLeadersWait ==
  /\ \A r \in appendEntriesRequests : r.waiting => Waits(r.from, r.args.Term)
  /\ \A r \in appendEntriesResponses :
       r.reply.Success =>
         <<r.reply.Term, r.to>> \in elected /\ Waits(r.to, r.reply.Term)

AcksWithinLogs(L, A) ==
  \A p \in Server, t, m \in Nat :
    <<p, t, m>> \in A => m <= Len(L[t]) /\ t <= stateFile[p].CurrentTerm

\* What is acknowledged in the current term is still there.
AcksOfTermHeld(L, A) ==
  \A p \in Server, m \in Nat :
    LET t == stateFile[p].CurrentTerm
    IN <<p, t, m>> \in A => Shares(log[p], L[t], m)

\* What is acknowledged in any term is still there or lost to all.
AcksHeld(L, A) ==
  \A p \in Server, t, n \in Nat :
    Acked(A, p, t, n) /\ EntryOf(L, t, n) => Shares(log[p], L[t], n) \/ Dead(A, t, n)

\* A leader has every entry of earlier leaders that is not lost.
LeadersComplete(L, A) ==
  \A e \in elected : \A t, n \in Nat :
    t < e[1] /\ EntryOf(L, t, n) => Shares(L[e[1]], L[t], n) \/ Dead(A, t, n)

\* The voters of a candidate have acknowledged nothing it is missing.
VotersKnowLess(L, A) ==
  \A v \in votes :
    /\ v.Term <= stateFile[v.candidate].CurrentTerm
    /\ /\ status[v.candidate] = "up" /\ serverState[v.candidate] = "Candidate"
       /\ v.Term = currentTerm[v.candidate]
       => \A t, n \in Nat :
            t < v.Term /\ EntryOf(L, t, n) /\ Acked(A, v.voter, t, n) =>
              Shares(log[v.candidate], L[t], n) \/ Dead(A, t, n)

\* A request tells the end of the candidate's log.
RequestsTellLog ==
  \A r \in requestVoteRequests :
    /\ r.args.Term <= stateFile[r.from].CurrentTerm
    /\ /\ status[r.from] = "up" /\ serverState[r.from] = "Candidate"
       /\ r.args.Term = currentTerm[r.from]
       => /\ r.args.LastLogIndex = LastLogIndex(log[r.from])
          /\ r.args.LastLogTerm = LastLogTerm(log[r.from])

SuccessesAreAcks(A) ==
  \A r \in appendEntriesResponses :
    r.reply.Success => <<r.server, r.reply.Term, r.lastLogIndex + 1>> \in A

MatchesAreAcks(A) ==
  \A s, p \in Server :
    status[s] = "up" /\ serverState[s] = "Leader" =>
      \/ matchIndex[s][p] = -1
      \/ <<p, currentTerm[s], matchIndex[s][p] + 1>> \in A

CommitsAreCommitted(L, A) ==
  \A s \in Server :
    /\ lastApplied[s] = commitIndex[s]
    /\ commitIndex[s] >= 0 =>
         Committed(L, A, stateFile[s].CurrentTerm, log[s], commitIndex[s] + 1)

CallsTellCommitted(L, A) ==
  \A r \in appendEntriesRequests :
    r.args.LeaderCommit >= 0 =>
      /\ r.args.LeaderCommit <= r.lastLogIndex
      /\ Committed(L, A, r.args.Term, L[r.args.Term], r.args.LeaderCommit + 1)

AppliedIsChosen(L, A) ==
  \A a \in applied :
    \E t, n \in Nat :
      Chosen(L, A, t, n) /\ a.Index \in 1 .. n /\ L[t][a.Index].Command = a.Command

\* The commands are applied one after the other.
AppliedUpTo(N) ==
  /\ \A a \in applied : a.Index \in 1 .. N
  /\ \A i \in 1 .. N : \E a \in applied : a.Index = i
  /\ \A s \in Server : lastApplied[s] + 1 <= N

\* What a leader has beyond the end of one of its calls it has made itself.
CallsCover(L) ==
  \A r \in appendEntriesRequests : \A i \in Nat :
    i > r.lastLogIndex + 1 /\ i <= Len(L[r.args.Term]) =>
      L[r.args.Term][i].Term = r.args.Term

CommitInv(L, A) ==
  /\ OnlyLeadersWait
  /\ AcksWithinLogs(L, A)
  /\ AcksOfTermHeld(L, A)
  /\ AcksHeld(L, A)
  /\ LeadersComplete(L, A)
  /\ VotersKnowLess(L, A)
  /\ RequestsTellLog
  /\ SuccessesAreAcks(A)
  /\ MatchesAreAcks(A)
  /\ CommitsAreCommitted(L, A)
  /\ CallsTellCommitted(L, A)
  /\ CallsCover(L)
  /\ AppliedIsChosen(L, A)
  /\ \E N \in Nat : AppliedUpTo(N)

Ack == Server \X Nat \X Nat

\* All that is known between two steps.
Known(L, A) ==
  /\ TypeInv /\ VotingInv /\ ElectionSafety /\ ElectedOnce /\ SavedLogs
  /\ L \in [Nat -> Seq(Entry)] /\ LeaderLogs(L)
  /\ A \subseteq Ack /\ CommitInv(L, A)

\* The acknowledgements of a step: of a follower for a call it takes, and of a
\* leader for the entry it makes.
NewAck(a) ==
  \/ \E r \in appendEntriesRequests :
       /\ HandleAppendEntries(r) /\ PrevEntryMatches(r.to, r.args)
       /\ a = <<r.to, r.args.Term, r.lastLogIndex + 1>>
  \/ \E s \in Server, c \in Command :
       Start(s, c) /\ a = <<s, currentTerm[s], Len(log'[s])>>

\* What is known of a step before the invariant is.
Step(L, A, M, B) ==
  /\ Next /\ AnswerInTerm /\ NothingCut
  /\ TypeInv' /\ VotingInv' /\ ElectionSafety' /\ ElectedOnce' /\ SavedLogs'
  /\ M \in [Nat -> Seq(Entry)] /\ LeaderLogs(M)' /\ Grows(L, M)
  /\ OnlyStartAdds(L, M) /\ StartWrites(M)
  /\ B \subseteq Ack /\ A \subseteq B
  /\ \A a \in Ack : a \in B => a \in A \/ NewAck(a)
  /\ \A a \in Ack : NewAck(a) => a \in B

-----------------------------------------------------------------------------
(***************************************************************************)
(* Acknowledgements, lost entries and chosen entries                        *)
(***************************************************************************)

LEMMA TermsTyped ==
  ASSUME TypeInv, NEW p \in Server
  PROVE  /\ stateFile[p].CurrentTerm \in Nat /\ currentTerm[p] \in Nat
         /\ log[p] \in Seq(Entry) /\ Len(log[p]) \in Nat
         /\ commitIndex[p] \in Int /\ commitIndex[p] >= -1
<1>1. log[p] \in Seq(Entry) /\ commitIndex[p] \in Index
  BY DEF TypeInv, TypeOK
<1>2. Len(log[p]) \in Nat
  BY <1>1, EntriesTyped
<1> QED
  BY <1>1, <1>2 DEF TypeInv, TypeOK, RaftPersistentData, Index

LEMMA FilesGrow ==
  ASSUME TornWrites = FALSE, NEW L, NEW A, NEW M, NEW B, Known(L, A), Step(L, A, M, B),
         NEW p \in Server
  PROVE  /\ stateFile[p].CurrentTerm \in Nat /\ stateFile'[p].CurrentTerm \in Nat
         /\ stateFile'[p].CurrentTerm >= stateFile[p].CurrentTerm
BY FileTermsGrow DEF Known, Step, VotingInv

\* A new acknowledgement is for the current term, and for what is there.
LEMMA NewAcks ==
  ASSUME TornWrites = FALSE, NEW L, NEW A, NEW M, NEW B, Known(L, A), Step(L, A, M, B),
         NEW p \in Server, NEW t \in Nat, NEW m \in Nat, NewAck(<<p, t, m>>)
  PROVE  /\ t = stateFile'[p].CurrentTerm /\ m <= Len(M[t])
         /\ Shares(log'[p], M[t], m)
<1>0. /\ TypeInv /\ DurableState /\ L \in [Nat -> Seq(Entry)] /\ LeaderLogs(L)
      /\ M \in [Nat -> Seq(Entry)] /\ Grows(L, M) /\ TypeInv' /\ StartWrites(M)
      /\ Next /\ SavedLogs
  BY DEF Known, VotingInv, Step
<1>4. log'[p] \in Seq(Entry) /\ Len(log'[p]) \in Nat
  BY <1>0, TermsTyped, EntriesTyped DEF TypeInv, TypeOK
<1>1. ASSUME NEW r \in appendEntriesRequests, HandleAppendEntries(r),
             PrevEntryMatches(r.to, r.args), p = r.to, t = r.args.Term,
             m = r.lastLogIndex + 1
      PROVE  t = stateFile'[p].CurrentTerm /\ Shares(log'[p], M[t], m)
  <2>1. log'[p] = LogAfter(r) /\ t = stateFile'[p].CurrentTerm
    BY <1>0, <1>1, HandleAppendEntriesFacts
  <2>2. Shares(log'[p], L[t], m)
    BY <1>0, <1>1, <2>1, FollowerTakesStretch
  <2>3. m \in Int
    OBVIOUS
  <2>4. Shares(log'[p], M[t], m)
    BY <1>0, <1>4, <2>2, <2>3, GrownShares
  <2> QED
    BY <2>1, <2>4
<1>2. ASSUME NEW c \in Command, Start(p, c), t = currentTerm[p], m = Len(log'[p])
      PROVE  t = stateFile'[p].CurrentTerm /\ Shares(log'[p], M[t], m)
  <2>1. M[t] = log'[p]
    BY <1>0, <1>2 DEF StartWrites
  <2>2. stateFile'[p].CurrentTerm = t
    <3>1. Persist(p) /\ UNCHANGED currentTerm
      BY <1>2 DEF Start
    <3>2. stateFile'[p] = [CurrentTerm |-> currentTerm'[p], VotedFor |-> votedFor'[p],
                           Log |-> log'[p]]
      BY <1>0, <3>1 DEF Persist, TypeInv, TypeOK
    <3> QED
      BY <1>2, <3>1, <3>2
  <2> QED
    BY <1>2, <1>4, <2>1, <2>2 DEF Shares
<1>3. t = stateFile'[p].CurrentTerm /\ Shares(log'[p], M[t], m)
  <2>1. CASE \E r \in appendEntriesRequests :
               /\ HandleAppendEntries(r) /\ PrevEntryMatches(r.to, r.args)
               /\ <<p, t, m>> = <<r.to, r.args.Term, r.lastLogIndex + 1>>
    BY <1>1, <2>1
  <2>2. CASE \E s \in Server, c \in Command :
               Start(s, c) /\ <<p, t, m>> = <<s, currentTerm[s], Len(log'[s])>>
    <3>1. PICK s \in Server, c \in Command :
            Start(s, c) /\ <<p, t, m>> = <<s, currentTerm[s], Len(log'[s])>>
      BY <2>2
    <3>2. p = s /\ t = currentTerm[p] /\ m = Len(log'[p])
      BY <3>1
    <3> QED
      BY <1>2, <3>1, <3>2
  <2> QED
    BY <2>1, <2>2 DEF NewAck
<1> QED
  BY <1>3 DEF Shares

LEMMA AckedStays ==
  ASSUME NEW A, NEW B, A \subseteq B, NEW p, NEW t, NEW n, Acked(A, p, t, n)
  PROVE  Acked(B, p, t, n)
BY DEF Acked

\* What is acknowledged of an earlier term was acknowledged before the step.
LEMMA OldAcked ==
  ASSUME TornWrites = FALSE, NEW L, NEW A, NEW M, NEW B, Known(L, A), Step(L, A, M, B),
         NEW p \in Server, NEW t \in Nat, NEW n \in Nat, Acked(B, p, t, n),
         t < stateFile'[p].CurrentTerm
  PROVE  Acked(A, p, t, n)
<1>1. PICK m \in Nat : m >= n /\ <<p, t, m>> \in B
  BY DEF Acked
<1>2. stateFile'[p].CurrentTerm \in Nat
  BY FilesGrow
<1>3. ~NewAck(<<p, t, m>>)
  <2> SUFFICES ASSUME NewAck(<<p, t, m>>) PROVE FALSE
    OBVIOUS
  <2>1. t = stateFile'[p].CurrentTerm
    BY NewAcks
  <2> QED
    BY <1>2, <2>1
<1>4. <<p, t, m>> \in A
  BY <1>1, <1>3 DEF Step, Ack
<1> QED
  BY <1>1, <1>4 DEF Acked

\* An acknowledged entry was made before.
LEMMA AckedEntryOf ==
  ASSUME NEW L, NEW A, NEW M, NEW B, Known(L, A), Step(L, A, M, B),
         NEW p \in Server, NEW t \in Nat, NEW n \in Nat, EntryOf(M, t, n),
         Acked(A, p, t, n)
  PROVE  EntryOf(L, t, n)
<1>0. /\ L \in [Nat -> Seq(Entry)] /\ M \in [Nat -> Seq(Entry)] /\ Grows(L, M)
      /\ AcksWithinLogs(L, A)
  BY DEF Known, CommitInv, Step
<1>1. PICK m \in Nat : m >= n /\ <<p, t, m>> \in A
  BY DEF Acked
<1>2. m <= Len(L[t])
  BY <1>0, <1>1 DEF AcksWithinLogs
<1>3. Len(L[t]) \in Nat /\ Len(M[t]) \in Nat
  BY <1>0, EntriesTyped
<1>4. n \in 1 .. Len(L[t])
  BY <1>1, <1>2, <1>3 DEF EntryOf
<1>5. M[t][n] = L[t][n]
  BY <1>0, <1>4 DEF Grows, Shares
<1> QED
  BY <1>4, <1>5 DEF EntryOf

LEMMA EntryStays ==
  ASSUME NEW L \in [Nat -> Seq(Entry)], NEW M \in [Nat -> Seq(Entry)], Grows(L, M),
         NEW t \in Nat, NEW n \in Nat, EntryOf(L, t, n)
  PROVE  EntryOf(M, t, n)
<1>1. Len(L[t]) \in Nat /\ Len(M[t]) \in Nat
  BY EntriesTyped
<1>2. n \in 1 .. Len(L[t]) /\ L[t][n].Term = t
  BY DEF EntryOf
<1>3. Len(L[t]) <= Len(M[t]) /\ M[t][n] = L[t][n]
  BY <1>2 DEF Grows, Shares
<1>4. n \in 1 .. Len(M[t])
  BY <1>1, <1>2, <1>3
<1> QED
  BY <1>2, <1>3, <1>4 DEF EntryOf

LEMMA DeadStays ==
  ASSUME TornWrites = FALSE, NEW L, NEW A, NEW M, NEW B, Known(L, A), Step(L, A, M, B),
         NEW t \in Nat, NEW n \in Nat, Dead(A, t, n)
  PROVE  Dead(B, t, n)'
<1>1. PICK Q \in SUBSET Server :
        IsMajority(Q) /\ \A p \in Q : stateFile[p].CurrentTerm > t /\ ~Acked(A, p, t, n)
  BY DEF Dead
<1>2. ASSUME NEW p \in Q
      PROVE  stateFile'[p].CurrentTerm > t /\ ~Acked(B, p, t, n)
  <2>1. p \in Server
    OBVIOUS
  <2>2. /\ stateFile[p].CurrentTerm \in Nat /\ stateFile'[p].CurrentTerm \in Nat
        /\ stateFile'[p].CurrentTerm >= stateFile[p].CurrentTerm
    BY <2>1, FilesGrow
  <2>3. stateFile'[p].CurrentTerm > t
    BY <1>1, <2>2
  <2> QED
    BY <1>1, <2>1, <2>2, <2>3, OldAcked
<1> QED
  BY <1>1, <1>2 DEF Dead

LEMMA ChosenStays ==
  ASSUME NEW L \in [Nat -> Seq(Entry)], NEW M \in [Nat -> Seq(Entry)], Grows(L, M),
         NEW A, NEW B, A \subseteq B, NEW t \in Nat, NEW n \in Nat, Chosen(L, A, t, n)
  PROVE  Chosen(M, B, t, n)
BY EntryStays, AckedStays DEF Chosen

LEMMA CommittedStays ==
  ASSUME NEW L \in [Nat -> Seq(Entry)], NEW M \in [Nat -> Seq(Entry)], Grows(L, M),
         NEW A, NEW B, A \subseteq B, NEW u \in Nat, NEW w \in Seq(Entry),
         NEW k \in Nat, Committed(L, A, u, w, k),
         NEW x \in Nat, u <= x
  PROVE  Committed(M, B, x, w, k)
<1>1. PICK t \in Nat, n \in Nat :
        t <= u /\ k <= n /\ Chosen(L, A, t, n) /\ Shares(w, L[t], k)
  BY DEF Committed
<1>2. Chosen(M, B, t, n)
  BY <1>1, ChosenStays
<1>4. Shares(w, M[t], k)
  <2>1. k \in Int
    OBVIOUS
  <2> QED
    BY <1>1, <2>1, GrownShares
<1>3. t <= x
  BY <1>1
<1> QED
  BY <1>1, <1>2, <1>3, <1>4 DEF Committed

\* Two majorities have a server in common.
LEMMA MajoritiesMeet ==
  ASSUME NEW P \in SUBSET Server, NEW Q \in SUBSET Server,
         IsMajority(P), IsMajority(Q)
  PROVE  \E p \in Server : p \in P /\ p \in Q
<1>1. /\ Cardinality(Q) \in Nat /\ Cardinality(P) \in Nat
      /\ Cardinality(Server) \in Nat
  BY ServerAssumption, FS_Subset, FS_CardinalityType
<1>2. Cardinality(P) + Cardinality(Q) > Cardinality(Server)
  BY <1>1 DEF IsMajority
<1>3. P \cap Q # {}
  BY <1>2, ServerAssumption, FS_MajoritiesIntersect
<1> QED
  BY <1>3

LEMMA ChosenNotDead ==
  ASSUME NEW L, NEW A, NEW t, NEW n, Chosen(L, A, t, n)
  PROVE  ~Dead(A, t, n)
BY MajoritiesMeet DEF Chosen, Dead
-----------------------------------------------------------------------------
(***************************************************************************)
(* What stays in a log                                                      *)
(***************************************************************************)

\* A call that agrees with w leaves its receiver with what it had of w.
LEMMA KeptByCall ==
  ASSUME TypeInv, NothingCut, NEW L \in [Nat -> Seq(Entry)], LeaderLogs(L),
         CallsCover(L), NEW r \in appendEntriesRequests, HandleAppendEntries(r),
         NEW w \in Seq(Entry), NEW n \in Nat,
         Shares(log[r.to], w, n), Shares(L[r.args.Term], w, n)
  PROVE  Shares(log'[r.to], w, n)
<1> DEFINE v == log'[r.to]
           l == log[r.to]
<1>1. r.to \in Server /\ r.args.Term \in Nat /\ v = LogAfter(r)
  BY AppendEntriesTyped, HandleAppendEntriesFacts
<1>2. CASE v = l
  BY <1>2
<1>3. CASE v # l
  <2>0. PICK m : m = r.lastLogIndex + 1
    OBVIOUS
  <2>1. PrevEntryMatches(r.to, r.args)
    BY <1>1, <1>3 DEF LogAfter
  <2>2. /\ v \in Seq(Entry) /\ Shares(v, L[r.args.Term], m) /\ Len(v) = m /\ m \in Nat
    BY <1>1, <1>3, <2>0, <2>1, FollowerTakesStretch
  <2>3. Len(L[r.args.Term]) \in Nat /\ Len(w) \in Nat /\ Len(l) \in Nat
    BY <1>1, EntriesTyped, TermsTyped
  <2> HIDE DEF v, l
  <2>4. n <= m
    <3> SUFFICES ASSUME m < n PROVE FALSE
      BY <2>2
    <3>1. m \in Nat /\ Len(v) = m /\ m < n
      BY <2>2
    <3>2. m + 1 \in 1 .. n /\ m + 1 \in Nat
      BY <3>1
    <3>3. n <= Len(l) /\ n <= Len(L[r.args.Term])
      BY DEF Shares, l
    <3>4. m + 1 \in Len(v) + 1 .. Len(l) /\ m + 1 <= Len(L[r.args.Term])
      <4>1. PICK a \in Nat, b \in Nat : a = Len(l) /\ b = Len(L[r.args.Term])
        BY <2>3
      <4>2. n <= a /\ n <= b
        BY <3>3, <4>1
      <4>3. m + 1 \in m + 1 .. a /\ m + 1 <= b
        BY <3>1, <4>2
      <4> QED
        BY <3>1, <4>1, <4>3
    <3>5. l[m + 1] = L[r.args.Term][m + 1]
      BY <3>2 DEF Shares, l
    <3>6. m + 1 > r.lastLogIndex + 1
      <4>1. m + 1 > m
        BY <3>1
      <4> QED
        BY <2>0, <4>1
    <3>7. L[r.args.Term][m + 1].Term = r.args.Term
      BY <3>2, <3>4, <3>6 DEF CallsCover
    <3>8. currentTerm'[r.to] = r.args.Term
      BY HandleAppendEntriesFacts
    <3>9. \A i \in Len(v) + 1 .. Len(l) : l[i].Term # currentTerm'[r.to]
      BY <1>1 DEF NothingCut, v, l
    <3> QED
      BY <3>4, <3>5, <3>7, <3>8, <3>9
  <2>5. Shares(v, L[r.args.Term], n)
    <3>1. n \in Int /\ m \in Int /\ Len(v) \in Nat
      BY <2>2
    <3> QED
      BY <2>2, <2>3, <2>4, <3>1, SharesLess
  <2> QED
    BY <2>5, SharesAcross DEF v
<1> QED
  BY <1>2, <1>3

LEMMA AppendShares ==
  ASSUME NEW l \in Seq(Entry), NEW e \in Entry, NEW w, NEW n \in Nat, Shares(l, w, n)
  PROVE  Shares(Append(l, e), w, n)
<1>1. /\ Len(Append(l, e)) = Len(l) + 1 /\ Len(l) \in Nat
      /\ \A i \in 1 .. Len(l) : Append(l, e)[i] = l[i]
  BY AppendProperties, LenProperties
<1> QED
  BY <1>1 DEF Shares

LEMMA SharesKept ==
  ASSUME TornWrites = FALSE, NEW L, NEW A, NEW M, NEW B, Known(L, A), Step(L, A, M, B),
         NEW p \in Server, NEW w \in Seq(Entry), NEW n \in Nat, Shares(log[p], w, n),
         \A r \in appendEntriesRequests :
           r.to = p /\ HandleAppendEntries(r) => Shares(L[r.args.Term], w, n)
  PROVE  Shares(log'[p], w, n)
<1>0. /\ TypeInv /\ SavedLogs /\ Next /\ NothingCut /\ CallsCover(L)
      /\ L \in [Nat -> Seq(Entry)] /\ LeaderLogs(L)
  BY DEF Known, Step, CommitInv
<1>1. CASE log'[p] = log[p]
  BY <1>1
<1>2. ASSUME NEW c \in Command, Start(p, c)
      PROVE  Shares(log'[p], w, n)
  <2> DEFINE e == [Term |-> currentTerm[p], Command |-> c]
  <2>1. log'[p] = Append(log[p], e)
    BY <1>0, <1>2 DEF Start, TypeInv, TypeOK
  <2>2. log[p] \in Seq(Entry) /\ e \in Entry
    BY <1>0, TermsTyped DEF Entry
  <2> HIDE DEF e
  <2> QED
    BY <2>1, <2>2, AppendShares
<1>3. ASSUME NEW r \in appendEntriesRequests, r.to = p, HandleAppendEntries(r)
      PROVE  Shares(log'[p], w, n)
  BY <1>0, <1>3, KeptByCall
<1> QED
  BY <1>0, <1>1, <1>2, <1>3, LogSteps DEF LogStep

\* The sender of a call that is taken has what its receiver acknowledged.
LEMMA CallsKnowAcked ==
  ASSUME NEW L, NEW A, Known(L, A),
         NEW r \in appendEntriesRequests, HandleAppendEntries(r),
         NEW t \in Nat, NEW n \in Nat, t <= stateFile[r.to].CurrentTerm, EntryOf(L, t, n)
  PROVE  Shares(L[r.args.Term], L[t], n) \/ Dead(A, t, n)
<1>0. /\ TypeInv /\ DurableState /\ L \in [Nat -> Seq(Entry)] /\ LeaderLogs(L)
      /\ LeadersComplete(L, A)
  BY DEF Known, VotingInv, CommitInv
<1>1. r.to \in Server /\ r.args.Term \in Nat
  BY <1>0, AppendEntriesTyped
<1>2. t <= r.args.Term
  <2>1. stateFile[r.to].CurrentTerm = currentTerm[r.to] /\ r.args.Term >= currentTerm[r.to]
    BY <1>0, <1>1, HandleAppendEntriesFacts, DurableFields
  <2>2. currentTerm[r.to] \in Nat
    BY <1>0, <1>1, TermsTyped
  <2> QED
    BY <1>1, <2>1, <2>2
<1>3. CASE t = r.args.Term
  BY <1>3 DEF EntryOf, Shares
<1>4. CASE t < r.args.Term
  <2>1. <<r.args.Term, r.from>> \in elected /\ <<r.args.Term, r.from>>[1] = r.args.Term
    BY <1>0 DEF LeaderLogs
  <2> QED
    BY <1>0, <1>4, <2>1 DEF LeadersComplete
<1> QED
  BY <1>1, <1>2, <1>3, <1>4

-----------------------------------------------------------------------------
(***************************************************************************)
(* Acknowledgements stay true                                               *)
(***************************************************************************)

LEMMA AcksWithinLogsStep ==
  ASSUME TornWrites = FALSE, NEW L, NEW A, NEW M, NEW B, Known(L, A), Step(L, A, M, B)
  PROVE  AcksWithinLogs(M, B)'
<1> SUFFICES ASSUME NEW p \in Server, NEW t \in Nat, NEW m \in Nat, <<p, t, m>> \in B
             PROVE  m <= Len(M[t]) /\ t <= stateFile'[p].CurrentTerm
  BY DEF AcksWithinLogs
<1>0. /\ L \in [Nat -> Seq(Entry)] /\ M \in [Nat -> Seq(Entry)] /\ Grows(L, M)
      /\ AcksWithinLogs(L, A)
  BY DEF Known, CommitInv, Step
<1>1. /\ stateFile[p].CurrentTerm \in Nat /\ stateFile'[p].CurrentTerm \in Nat
      /\ stateFile'[p].CurrentTerm >= stateFile[p].CurrentTerm
  BY FilesGrow
<1>2. CASE <<p, t, m>> \in A
  <2>1. m <= Len(L[t]) /\ t <= stateFile[p].CurrentTerm
    BY <1>0, <1>2 DEF AcksWithinLogs
  <2>2. Len(L[t]) <= Len(M[t]) /\ Len(L[t]) \in Nat /\ Len(M[t]) \in Nat
    BY <1>0, EntriesTyped DEF Grows, Shares
  <2> QED
    BY <1>1, <2>1, <2>2
<1>3. CASE NewAck(<<p, t, m>>)
  <2>1. t = stateFile'[p].CurrentTerm /\ m <= Len(M[t])
    BY <1>3, NewAcks
  <2> QED
    BY <1>1, <2>1
<1> QED
  BY <1>2, <1>3 DEF Step, Ack

LEMMA AcksOfTermHeldStep ==
  ASSUME TornWrites = FALSE, NEW L, NEW A, NEW M, NEW B, Known(L, A), Step(L, A, M, B)
  PROVE  AcksOfTermHeld(M, B)'
<1> SUFFICES ASSUME NEW p \in Server, NEW m \in Nat,
                    <<p, stateFile'[p].CurrentTerm, m>> \in B
             PROVE  Shares(log'[p], M[stateFile'[p].CurrentTerm], m)
  BY DEF AcksOfTermHeld
<1>0. /\ L \in [Nat -> Seq(Entry)] /\ M \in [Nat -> Seq(Entry)] /\ Grows(L, M)
      /\ AcksWithinLogs(L, A) /\ AcksOfTermHeld(L, A) /\ TypeInv /\ TypeInv'
  BY DEF Known, CommitInv, Step
<1>1. /\ stateFile[p].CurrentTerm \in Nat /\ stateFile'[p].CurrentTerm \in Nat
      /\ stateFile'[p].CurrentTerm >= stateFile[p].CurrentTerm
  BY FilesGrow
<1>10. PICK t \in Nat : t = stateFile'[p].CurrentTerm
  BY <1>1
<1>2. CASE <<p, t, m>> \in A
  <2>1. m <= Len(L[t]) /\ t <= stateFile[p].CurrentTerm
    BY <1>0, <1>2 DEF AcksWithinLogs
  <2>2. t = stateFile[p].CurrentTerm
    BY <1>1, <1>10, <2>1
  <2>3. Shares(log[p], L[t], m)
    BY <1>0, <1>2, <2>2 DEF AcksOfTermHeld
  <2>4. ASSUME NEW r \in appendEntriesRequests, r.to = p, HandleAppendEntries(r)
        PROVE  Shares(L[r.args.Term], L[t], m)
    <3>1. r.args.Term = t
      BY <1>0, <1>10, <2>4, HandleAppendEntriesFacts
    <3> QED
      BY <2>1, <3>1 DEF Shares
  <2>5. Shares(log'[p], L[t], m)
    <3>1. L[t] \in Seq(Entry)
      BY <1>0
    <3> QED
      BY <2>3, <2>4, <3>1, SharesKept
  <2>6. log'[p] \in Seq(Entry) /\ m \in Int
    BY <1>0 DEF TypeInv, TypeOK
  <2> QED
    BY <1>0, <1>10, <2>5, <2>6, GrownShares
<1>3. CASE NewAck(<<p, t, m>>)
  BY <1>10, <1>3, NewAcks
<1> QED
  BY <1>2, <1>3, <1>10 DEF Step, Ack

LEMMA AcksHeldStep ==
  ASSUME TornWrites = FALSE, NEW L, NEW A, NEW M, NEW B, Known(L, A), Step(L, A, M, B)
  PROVE  AcksHeld(M, B)'
<1> SUFFICES ASSUME NEW p \in Server, NEW t \in Nat, NEW n \in Nat,
                    Acked(B, p, t, n), EntryOf(M, t, n)
             PROVE  Shares(log'[p], M[t], n) \/ Dead(B, t, n)'
  BY DEF AcksHeld
<1>0. /\ L \in [Nat -> Seq(Entry)] /\ M \in [Nat -> Seq(Entry)] /\ Grows(L, M)
      /\ AcksWithinLogs(L, A) /\ AcksHeld(L, A) /\ TypeInv /\ TypeInv'
  BY DEF Known, CommitInv, Step
<1>4. n \in Int /\ log'[p] \in Seq(Entry)
  BY <1>0 DEF TypeInv, TypeOK
<1>1. PICK m \in Nat : m >= n /\ <<p, t, m>> \in B
  BY DEF Acked
<1>2. CASE <<p, t, m>> \in A
  <2>1. Acked(A, p, t, n) /\ t <= stateFile[p].CurrentTerm
    BY <1>0, <1>1, <1>2 DEF Acked, AcksWithinLogs
  <2>2. EntryOf(L, t, n)
    BY <2>1, AckedEntryOf
  <2>3. CASE Dead(A, t, n)
    BY <2>3, DeadStays
  <2>4. CASE ~Dead(A, t, n)
    <3>1. Shares(log[p], L[t], n)
      BY <1>0, <2>1, <2>2, <2>4 DEF AcksHeld
    <3>2. ASSUME NEW r \in appendEntriesRequests, r.to = p, HandleAppendEntries(r)
          PROVE  Shares(L[r.args.Term], L[t], n)
      BY <2>1, <2>2, <2>4, <3>2, CallsKnowAcked
    <3>3. Shares(log'[p], L[t], n)
      BY <1>0, <3>1, <3>2, SharesKept
    <3> QED
      BY <1>0, <1>4, <3>3, GrownShares
  <2> QED
    BY <2>3, <2>4
<1>3. CASE NewAck(<<p, t, m>>)
  <2>1. Shares(log'[p], M[t], m)
    BY <1>3, NewAcks
  <2>2. Len(log'[p]) \in Nat /\ Len(M[t]) \in Nat
    BY <1>0, <1>4, EntriesTyped
  <2> QED
    BY <1>1, <1>4, <2>1, <2>2, SharesLess
<1> QED
  BY <1>1, <1>2, <1>3 DEF Step, Ack

-----------------------------------------------------------------------------
(***************************************************************************)
(* Where votes and requests for them come from                              *)
(***************************************************************************)

OwnVote(v) ==
  /\ BecomeCandidate(v.candidate)
  /\ v.voter = v.candidate /\ v.Term = currentTerm[v.candidate] + 1

GrantedVote(v) ==
  \E r \in requestVoteRequests :
    /\ v.voter = r.to /\ v.candidate = r.from /\ v.Term = r.args.Term
    /\ ~MoreComplete(r.to, r.args)

LEMMA VoteSteps ==
  ASSUME TypeInv, Next, NEW v \in votes'
  PROVE  \/ v \in votes
         \/ (OwnVote(v) \/ GrantedVote(v)) /\ UNCHANGED elected
<1>1. ASSUME NEW s \in Server, BecomeCandidate(s)
      PROVE  v \in votes \/ (OwnVote(v) /\ UNCHANGED elected)
  <2>1. /\ votes' = votes \cup {[voter |-> s, Term |-> currentTerm[s] + 1, candidate |-> s]}
        /\ UNCHANGED elected
    BY <1>1 DEF BecomeCandidate
  <2>2. CASE v = [voter |-> s, Term |-> currentTerm[s] + 1, candidate |-> s]
    <3>1. v.voter = s /\ v.Term = currentTerm[s] + 1 /\ v.candidate = s
      BY <2>2
    <3> QED
      BY <1>1, <2>1, <3>1 DEF OwnVote
  <2> QED
    BY <2>1, <2>2
<1>2. ASSUME NEW r \in requestVoteRequests, HandleRequestVote(r)
      PROVE  v \in votes \/ (GrantedVote(v) /\ UNCHANGED elected)
  <2> DEFINE w == [voter |-> r.to, Term |-> r.args.Term, candidate |-> r.from]
  <2>1. /\ votes' = votes \/ (votes' = votes \cup {w} /\ ~MoreComplete(r.to, r.args))
        /\ UNCHANGED elected
    BY <1>2 DEF HandleRequestVote
  <2>2. w.voter = r.to /\ w.Term = r.args.Term /\ w.candidate = r.from
    OBVIOUS
  <2> HIDE DEF w
  <2>3. v \in votes \/ (v = w /\ ~MoreComplete(r.to, r.args))
    BY <2>1
  <2> QED
    <3>1. CASE v = w /\ ~MoreComplete(r.to, r.args)
      BY <2>1, <2>2, <3>1 DEF GrantedVote
    <3> QED
      BY <2>1, <2>3, <3>1
<1>3. CASE UNCHANGED votes
  BY <1>3
<1>4. \/ \E s \in Server : BecomeCandidate(s)
      \/ \E r \in requestVoteRequests : HandleRequestVote(r)
      \/ UNCHANGED votes
  <2>1. ASSUME NEW s \in Server, ServerStep(s)
        PROVE  BecomeCandidate(s) \/ UNCHANGED votes
    BY <2>1 DEF ServerStep, Heartbeat, IdleTick, Start, Crash,
                CrashAfterBecomeFollower, CrashInWriteFile, Kill, Restart
  <2>2. ASSUME MessageStep
        PROVE  (\E r \in requestVoteRequests : HandleRequestVote(r)) \/ UNCHANGED votes
    BY <2>2 DEF MessageStep, HandleRequestVoteResponse, RejectOutdatedAppendEntries,
                HandleAppendEntries, HandleAppendEntriesResponse, Retry, CallFails,
                EmptyAnswer
  <2> QED
    BY <2>1, <2>2 DEF Next
<1> QED
  BY <1>1, <1>2, <1>3, <1>4

OldRequest(q) == \E r \in requestVoteRequests : q.from = r.from /\ q.args = r.args

NewRequest(q) ==
  /\ BecomeCandidate(q.from) /\ q.args.Term = currentTerm[q.from] + 1
  /\ q.args.LastLogIndex = LastLogIndex(log[q.from])
  /\ q.args.LastLogTerm = LastLogTerm(log[q.from])

LEMMA RequestSteps ==
  ASSUME TypeInv, Next, NEW q \in requestVoteRequests'
  PROVE  OldRequest(q) \/ NewRequest(q)
<1>0. \A r \in requestVoteRequests :
        Abandoned(r).from = r.from /\ Abandoned(r).args = r.args
  BY DEF Abandoned, RequestVoteRequest, TypeInv, TypeOK
<1>1. \A s, how : Terminate(s, how) => OldRequest(q)
  BY <1>0 DEF Terminate, OldRequest
<1>2. \A s, l, requests : SendAppendEntriesToAll(s, l, requests) => OldRequest(q)
  BY <1>1 DEF SendAppendEntriesToAll, voteCalls, OldRequest
<1>3. ASSUME NEW s \in Server, ServerStep(s)
      PROVE  OldRequest(q) \/ NewRequest(q)
  <2>1. CASE BecomeCandidate(s)
    <3> DEFINE args == [Term |-> currentTerm[s] + 1, CandidateId |-> Me[s],
                        LastLogIndex |-> LastLogIndex(log[s]),
                        LastLogTerm |-> LastLogTerm(log[s])]
    <3>1. requestVoteRequests' = requestVoteRequests \cup
            { [from |-> s, to |-> p, args |-> args, waiting |-> TRUE]
                : p \in Server \ {s} }
      BY <2>1 DEF BecomeCandidate
    <3>2. /\ args.Term = currentTerm[s] + 1
          /\ args.LastLogIndex = LastLogIndex(log[s])
          /\ args.LastLogTerm = LastLogTerm(log[s])
      OBVIOUS
    <3> HIDE DEF args
    <3>3. OldRequest(q) \/ (q.from = s /\ q.args = args)
      BY <3>1 DEF OldRequest
    <3> QED
      BY <2>1, <3>2, <3>3 DEF NewRequest
  <2>2. CASE Heartbeat(s)
    BY <1>2, <2>2 DEF Heartbeat
  <2>3. CASE IdleTick(s) \/ Restart(s)
    BY <2>3 DEF IdleTick, Restart, voteCalls, OldRequest
  <2>4. CASE \E c \in Command : Start(s, c)
    <3>1. \E l, requests : SendAppendEntriesToAll(s, l, requests)
      BY <2>4 DEF Start
    <3> QED
      BY <1>2, <3>1
  <2>5. CASE Crash(s) \/ CrashAfterBecomeFollower(s) \/ CrashInWriteFile(s)
    <3>1. Terminate(s, "killed")
      BY <2>5 DEF Crash, CrashAfterBecomeFollower, CrashInWriteFile, Kill
    <3> QED
      BY <1>1, <3>1
  <2> QED
    BY <1>3, <2>1, <2>2, <2>3, <2>4, <2>5 DEF ServerStep
<1>4. ASSUME NEW r \in appendEntriesResponses, HandleAppendEntriesResponse(r)
      PROVE  OldRequest(q)
  <2>1. Terminate(r.to, "panicked") \/ UNCHANGED requestVoteRequests
    BY <1>4 DEF HandleAppendEntriesResponse, voteCalls
  <2> QED
    BY <1>1, <2>1 DEF OldRequest
<1>5. ASSUME Retry \/ CallFails \/ EmptyAnswer PROVE OldRequest(q)
  BY <1>0, <1>5 DEF Retry, CallFails, EmptyAnswer, voteCalls, OldRequest
<1>6. ASSUME \/ \E r \in requestVoteRequests : HandleRequestVote(r)
             \/ \E r \in requestVoteResponses : HandleRequestVoteResponse(r)
             \/ \E r \in appendEntriesRequests :
                  RejectOutdatedAppendEntries(r) \/ HandleAppendEntries(r)
      PROVE  OldRequest(q)
  BY <1>6 DEF HandleRequestVote, HandleRequestVoteResponse,
              RejectOutdatedAppendEntries, HandleAppendEntries, voteCalls, OldRequest
<1> QED
  BY <1>3, <1>4, <1>5, <1>6 DEF Next, MessageStep

\* A candidate that was none in this term, or one that was.
LEMMA CandidateSteps ==
  ASSUME TypeInv, Next, NEW p \in Server, status'[p] = "up", serverState'[p] = "Candidate"
  PROVE  \/ BecomeCandidate(p)
         \/ /\ status[p] = "up" /\ serverState[p] = "Candidate"
            /\ currentTerm'[p] = currentTerm[p] /\ log'[p] = log[p]
<1>1. ASSUME NEW c \in Command, Start(p, c)
      PROVE  FALSE
  BY <1>1 DEF Start
<1>2. ~Wins(p)
  BY DEF Wins
<1> QED
  BY <1>1, <1>2, OfficeSteps DEF StaysInOffice

LEMMA NewCandidate ==
  ASSUME TypeInv, DurableState, NEW p \in Server, BecomeCandidate(p)
  PROVE  /\ stateFile[p].CurrentTerm = currentTerm[p]
         /\ currentTerm'[p] = currentTerm[p] + 1
         /\ currentTerm'[p] > stateFile[p].CurrentTerm
         /\ stateFile'[p].CurrentTerm = currentTerm'[p]
         /\ log'[p] = log[p]
<1>1. /\ status[p] = "up" /\ Persist(p) /\ UNCHANGED log
      /\ currentTerm' = [currentTerm EXCEPT ![p] = currentTerm[p] + 1]
  BY DEF BecomeCandidate
<1>2. stateFile[p].CurrentTerm = currentTerm[p] /\ currentTerm[p] \in Nat
  BY <1>1, DurableFields, TermsTyped
<1>3. currentTerm'[p] = currentTerm[p] + 1
  BY <1>1 DEF TypeInv, TypeOK
<1>4. stateFile'[p] = [CurrentTerm |-> currentTerm'[p], VotedFor |-> votedFor'[p],
                       Log |-> log'[p]]
  BY <1>1 DEF Persist, TypeInv, TypeOK
<1>5. stateFile'[p].CurrentTerm = currentTerm'[p]
  BY <1>4
<1> QED
  BY <1>1, <1>2, <1>3, <1>5

LEMMA RequestsTellLogStep ==
  ASSUME TornWrites = FALSE, NEW L, NEW A, NEW M, NEW B, Known(L, A), Step(L, A, M, B)
  PROVE  RequestsTellLog'
<1> SUFFICES ASSUME NEW q \in requestVoteRequests'
             PROVE  /\ q.args.Term <= stateFile'[q.from].CurrentTerm
                    /\ /\ status'[q.from] = "up" /\ serverState'[q.from] = "Candidate"
                       /\ q.args.Term = currentTerm'[q.from]
                       => /\ q.args.LastLogIndex = LastLogIndex(log'[q.from])
                          /\ q.args.LastLogTerm = LastLogTerm(log'[q.from])
  BY DEF RequestsTellLog, LastLogIndex, LastLogTerm
<1>0. TypeInv /\ TypeInv' /\ Next /\ DurableState /\ RequestsTellLog
  BY DEF Known, Step, VotingInv, CommitInv
<1>1. /\ q.from \in Server /\ q.args.Term \in Nat
  BY <1>0 DEF TypeInv, TypeOK, RequestVoteRequest, RequestVoteArgs
<1> DEFINE p == q.from
<1>2. /\ stateFile[p].CurrentTerm \in Nat /\ stateFile'[p].CurrentTerm \in Nat
      /\ stateFile'[p].CurrentTerm >= stateFile[p].CurrentTerm
  BY <1>1, FilesGrow
<1>3. currentTerm[p] \in Nat /\ currentTerm'[p] \in Nat
  BY <1>0, <1>1 DEF TypeInv, TypeOK
<1>4. CASE OldRequest(q)
  <2>1. PICK r \in requestVoteRequests : q.from = r.from /\ q.args = r.args
    BY <1>4 DEF OldRequest
  <2>2. /\ q.args.Term <= stateFile[p].CurrentTerm
        /\ /\ status[p] = "up" /\ serverState[p] = "Candidate"
           /\ q.args.Term = currentTerm[p]
           => /\ q.args.LastLogIndex = LastLogIndex(log[p])
              /\ q.args.LastLogTerm = LastLogTerm(log[p])
    BY <1>0, <2>1 DEF RequestsTellLog
  <2>3. BecomeCandidate(p) => q.args.Term # currentTerm'[p]
    BY <1>0, <1>1, <1>2, <1>3, <2>2, NewCandidate
  <2>4. q.args.Term <= stateFile'[p].CurrentTerm
    BY <1>1, <1>2, <2>2
  <2>5. ASSUME status'[p] = "up", serverState'[p] = "Candidate",
               q.args.Term = currentTerm'[p]
        PROVE  /\ status[p] = "up" /\ serverState[p] = "Candidate"
               /\ currentTerm'[p] = currentTerm[p] /\ log'[p] = log[p]
    BY <1>0, <1>1, <2>3, <2>5, CandidateSteps
  <2> QED
    BY <2>2, <2>4, <2>5
<1>5. CASE NewRequest(q)
  <2>1. /\ BecomeCandidate(p) /\ q.args.Term = currentTerm[p] + 1
        /\ q.args.LastLogIndex = LastLogIndex(log[p])
        /\ q.args.LastLogTerm = LastLogTerm(log[p])
    BY <1>5 DEF NewRequest
  <2>2. log'[p] = log[p] /\ stateFile'[p].CurrentTerm = currentTerm[p] + 1
    BY <1>0, <1>1, <2>1, NewCandidate
  <2> QED
    BY <1>1, <2>1, <2>2
<1> QED
  BY <1>0, <1>4, <1>5, RequestSteps

-----------------------------------------------------------------------------
(***************************************************************************)
(* Leaders have what is not lost                                            *)
(***************************************************************************)

\* A log that is not behind v has what v has, or it is lost.
LEMMA NotBehind ==
  ASSUME NEW L, NEW A, Known(L, A), NEW v \in Seq(Entry), NEW w \in Seq(Entry),
         Fits(v, L), Fits(w, L),
         NEW t \in Nat, NEW n \in Nat, EntryOf(L, t, n), Shares(v, L[t], n),
         ~(LastLogTerm(w) < LastLogTerm(v)),
         LastLogTerm(w) = LastLogTerm(v) => ~(LastLogIndex(w) < LastLogIndex(v))
  PROVE  Shares(w, L[t], n) \/ Dead(A, t, n)
<1>0. /\ L \in [Nat -> Seq(Entry)] /\ LeadersComplete(L, A)
      /\ \A u \in Nat : Fits(L[u], L) /\ Sorted(L[u])
      /\ \A u \in Nat : L[u] # << >> => \E e \in elected : e[1] = u
  BY DEF Known, CommitInv, LeaderLogs
<1>1. PICK a : a = Len(v)
  OBVIOUS
<1>2. PICK k : k = Len(w)
  OBVIOUS
<1>3. a \in Nat /\ k \in Nat
  BY <1>1, <1>2, EntriesTyped
<1>4. n \in 1 .. a /\ a \in 1 .. a /\ v[n].Term = t
  BY <1>1, <1>3 DEF EntryOf, Shares
<1>5. v[a].Term \in Nat /\ t <= v[a].Term
  <2>1. Sorted(v)
    BY <1>0, FittingLogsSorted
  <2> QED
    BY <1>1, <1>4, <2>1, EntriesTyped DEF Sorted
<1>6. LastLogTerm(v) = v[a].Term /\ LastLogIndex(v) = a - 1
  BY <1>1, <1>4 DEF LastLogTerm, LastLogIndex
<1>7. k # 0
  <2>1. k = 0 => LastLogTerm(w) = -1
    BY <1>2 DEF LastLogTerm
  <2> QED
    BY <1>5, <1>6, <2>1
<1>8. PICK u : u = w[k].Term
  OBVIOUS
<1>9. k \in 1 .. k /\ u \in Nat
  <2>1. k \in 1 .. k
    BY <1>3, <1>7
  <2> QED
    BY <1>2, <1>8, <2>1, EntriesTyped
<1>10. LastLogTerm(w) = u /\ LastLogIndex(w) = k - 1
  BY <1>2, <1>8, <1>9 DEF LastLogTerm, LastLogIndex
<1>11. u >= t /\ (u = t => k >= n)
  <2>1. u >= v[a].Term /\ (u = v[a].Term => k >= a)
    BY <1>3, <1>5, <1>6, <1>9, <1>10
  <2> QED
    BY <1>3, <1>4, <1>5, <1>9, <2>1
<1>12. Shares(w, L[u], k)
  BY <1>2, <1>8, <1>9 DEF Fits
<1>13. Len(L[u]) \in Nat
  BY <1>0, <1>9, EntriesTyped
<1>14. ASSUME Shares(L[u], L[t], n), k >= n
       PROVE  Shares(w, L[t], n)
  <2>1. Shares(w, L[u], n)
    BY <1>2, <1>3, <1>12, <1>13, <1>14, SharesLess
  <2> QED
    BY <1>14, <2>1, SharesAcross
<1>15. CASE u = t
  <2>1. Shares(L[u], L[t], n)
    BY <1>15 DEF EntryOf, Shares
  <2> QED
    BY <1>11, <1>14, <1>15, <2>1
<1>16. CASE u > t
  <2>1. Shares(L[u], L[t], n) \/ Dead(A, t, n)
    <3>1. L[u] # << >>
      BY <1>7, <1>3, <1>12 DEF Shares
    <3>2. PICK e \in elected : e[1] = u
      BY <1>0, <1>9, <3>1
    <3> QED
      BY <1>0, <1>16, <3>2 DEF LeadersComplete
  <2>2. ASSUME Shares(L[u], L[t], n)
        PROVE  k >= n
    <3> SUFFICES ASSUME k < n PROVE FALSE
      BY <1>3
    <3>1. n \in 1 .. Len(L[u]) /\ k \in 1 .. Len(L[u]) /\ k <= n
      BY <1>3, <1>4, <1>9, <1>13, <2>2 DEF Shares
    <3>2. L[u][k].Term <= L[u][n].Term
      BY <1>0, <1>9, <3>1 DEF Sorted
    <3>3. n \in 1 .. n
      BY <1>4
    <3>4. L[u][k].Term = u /\ L[u][n].Term = t
      BY <1>8, <1>9, <1>12, <2>2, <3>3 DEF EntryOf, Shares
    <3> QED
      BY <1>9, <1>16, <3>2, <3>4
  <2> QED
    BY <1>14, <2>1, <2>2
<1> QED
  BY <1>9, <1>11, <1>15, <1>16

\* The voters of a later leader do not have an entry that is made only now.
LEMMA NewEntryDead ==
  ASSUME TornWrites = FALSE, NEW L, NEW A, NEW M, NEW B, Known(L, A), Step(L, A, M, B),
         NEW e \in elected', NEW t \in Nat, NEW n \in Nat, t < e[1],
         EntryOf(M, t, n), ~EntryOf(L, t, n)
  PROVE  Dead(B, t, n)'
<1>0. TypeInv' /\ SavedVotes' /\ ElectedByMajority'
  BY DEF Step, VotingInv
<1>1. PICK Q \in SUBSET Server :
        /\ IsMajority(Q)
        /\ \A q \in Q : [voter |-> q, Term |-> e[1], candidate |-> e[2]] \in votes'
  BY <1>0 DEF ElectedByMajority, IsMajority
<1>2. ASSUME NEW p \in Q
      PROVE  stateFile'[p].CurrentTerm > t /\ ~Acked(B, p, t, n)
  <2>1. p \in Server /\ e[1] \in Nat /\ stateFile'[p].CurrentTerm \in Nat
    <3>1. e \in Nat \X Server
      BY <1>0 DEF TypeInv, TypeOK
    <3> QED
      BY <3>1, FilesGrow
  <2>2. e[1] <= stateFile'[p].CurrentTerm
    <3> DEFINE v == [voter |-> p, Term |-> e[1], candidate |-> e[2]]
    <3>1. v \in votes' /\ v.Term = e[1] /\ v.voter = p
      BY <1>1
    <3> HIDE DEF v
    <3> QED
      BY <1>0, <3>1 DEF SavedVotes
  <2>3. stateFile'[p].CurrentTerm > t
    BY <2>1, <2>2
  <2>4. ASSUME Acked(B, p, t, n)
        PROVE  FALSE
    <3>1. Acked(A, p, t, n)
      BY <2>1, <2>3, <2>4, OldAcked
    <3> QED
      BY <2>1, <3>1, AckedEntryOf
  <2> QED
    BY <2>3, <2>4
<1> QED
  BY <1>1, <1>2 DEF Dead

\* A server that wins has what its voters acknowledged, and what they did not
\* acknowledge is lost.
LEMMA WinnerComplete ==
  ASSUME TornWrites = FALSE, NEW L, NEW A, NEW M, NEW B, Known(L, A), Step(L, A, M, B),
         NEW e \in elected', e \notin elected, NEW t \in Nat, NEW n \in Nat, t < e[1],
         EntryOf(L, t, n)
  PROVE  Shares(M[e[1]], L[t], n) \/ Dead(A, t, n)
<1>0. /\ TypeInv /\ TypeInv' /\ Next /\ ElectedOnce /\ SavedVotes /\ CountedVotesAreVotes'
      /\ LeaderLogs(M)' /\ VotersKnowLess(L, A)
  BY DEF Known, Step, VotingInv, CommitInv
<1>1. PICK s \in Server :
        /\ elected' = elected \cup {<<currentTerm[s], s>>}
        /\ IsMajority(receivedVote'[s]) /\ currentTerm'[s] = currentTerm[s]
        /\ status'[s] = "up" /\ serverState'[s] = "Leader"
  BY <1>0, NewLeadersHaveMajority
<1>2. PICK u \in Nat : u = currentTerm[s]
  BY <1>0, TermsTyped
<1>3. e = <<u, s>> /\ <<u, s>> \notin elected
  BY <1>1, <1>2
<1>4. e[1] = u
  BY <1>3
<1>5. Wins(s)
  <2>1. ~StaysInOffice(s)
    <3> SUFFICES ASSUME StaysInOffice(s) PROVE FALSE
      OBVIOUS
    <3>1. status[s] = "up" /\ serverState[s] = "Leader"
      BY <1>1 DEF StaysInOffice
    <3> QED
      BY <1>0, <1>2, <1>3, <3>1 DEF ElectedOnce
  <2>2. ~BecomeCandidate(s) /\ \A c \in Command : ~Start(s, c)
    BY <1>1, <1>2, <1>3 DEF BecomeCandidate, Start
  <2> QED
    BY <1>0, <2>1, <2>2, OfficeSteps
<1>6. /\ status[s] = "up" /\ serverState[s] = "Candidate" /\ log'[s] = log[s]
  BY <1>5 DEF Wins, memory
<1>7. log[s] = M[u]
  BY <1>0, <1>1, <1>2, <1>6 DEF LeaderLogs
<1>8. ASSUME NEW q \in receivedVote'[s]
      PROVE  [voter |-> q, Term |-> u, candidate |-> s] \in votes
  <2> DEFINE v == [voter |-> q, Term |-> u, candidate |-> s]
  <2>1. v \in votes'
    BY <1>0, <1>1, <1>2 DEF CountedVotesAreVotes
  <2> HIDE DEF v
  <2>2. v \in votes
    BY <1>0, <1>1, <1>2, <1>3, <2>1, VoteSteps
  <2> QED
    BY <2>2 DEF v
<1>9. ASSUME NEW q \in receivedVote'[s], Acked(A, q, t, n)
      PROVE  Shares(log[s], L[t], n) \/ Dead(A, t, n)
  <2> DEFINE v == [voter |-> q, Term |-> u, candidate |-> s]
  <2>1. v \in votes /\ v.voter = q /\ v.Term = u /\ v.candidate = s
    BY <1>8
  <2> HIDE DEF v
  <2> QED
    BY <1>0, <1>2, <1>4, <1>6, <1>9, <2>1 DEF VotersKnowLess
<1>10. ASSUME \A q \in receivedVote'[s] : ~Acked(A, q, t, n)
       PROVE  Dead(A, t, n)
  <2>1. receivedVote'[s] \in SUBSET Server
    BY <1>0 DEF TypeInv, TypeOK
  <2>2. ASSUME NEW q \in receivedVote'[s]
        PROVE  stateFile[q].CurrentTerm > t
    <3> DEFINE v == [voter |-> q, Term |-> u, candidate |-> s]
    <3>1. v \in votes /\ v.voter = q /\ v.Term = u
      BY <1>8
    <3> HIDE DEF v
    <3>2. u <= stateFile[q].CurrentTerm
      BY <1>0, <3>1 DEF SavedVotes
    <3>3. stateFile[q].CurrentTerm \in Nat
      BY <2>1, FilesGrow
    <3> QED
      BY <1>4, <3>2, <3>3
  <2> QED
    BY <1>1, <1>10, <2>1, <2>2 DEF Dead
<1> QED
  BY <1>4, <1>7, <1>9, <1>10

LEMMA LeadersCompleteStep ==
  ASSUME TornWrites = FALSE, NEW L, NEW A, NEW M, NEW B, Known(L, A), Step(L, A, M, B)
  PROVE  LeadersComplete(M, B)'
<1> SUFFICES ASSUME NEW e \in elected', NEW t \in Nat, NEW n \in Nat,
                    t < e[1], EntryOf(M, t, n)
             PROVE  Shares(M[e[1]], M[t], n) \/ Dead(B, t, n)'
  BY DEF LeadersComplete
<1>0. /\ L \in [Nat -> Seq(Entry)] /\ M \in [Nat -> Seq(Entry)] /\ Grows(L, M)
      /\ LeadersComplete(L, A) /\ TypeInv'
  BY DEF Known, CommitInv, Step
<1>1. e[1] \in Nat /\ n \in Int
  <2>1. e \in Nat \X Server
    BY <1>0 DEF TypeInv, TypeOK
  <2> QED
    BY <2>1
<1>2. CASE EntryOf(L, t, n)
  <2>1. Shares(M[e[1]], L[t], n) \/ Dead(A, t, n)
    <3>1. CASE e \in elected
      <4>1. Shares(L[e[1]], L[t], n) \/ Dead(A, t, n)
        BY <1>0, <1>2, <3>1 DEF LeadersComplete
      <4>2. ASSUME Shares(L[e[1]], L[t], n)
            PROVE  Shares(M[e[1]], L[t], n)
        <5>1. Shares(L[t], L[e[1]], n)
          BY <4>2, SharesBack
        <5>2. Shares(L[t], M[e[1]], n)
          BY <1>0, <1>1, <5>1, GrownShares
        <5> QED
          BY <5>2, SharesBack
      <4> QED
        BY <4>1, <4>2
    <3> QED
      BY <1>2, <3>1, WinnerComplete
  <2>2. ASSUME Shares(M[e[1]], L[t], n)
        PROVE  Shares(M[e[1]], M[t], n)
    BY <1>0, <1>1, <2>2, GrownShares
  <2> QED
    BY <2>1, <2>2, DeadStays
<1> QED
  BY <1>2, NewEntryDead

LEMMA VotersKnowLessStep ==
  ASSUME TornWrites = FALSE, NEW L, NEW A, NEW M, NEW B, Known(L, A), Step(L, A, M, B)
  PROVE  VotersKnowLess(M, B)'
<1> SUFFICES ASSUME NEW v \in votes'
             PROVE  /\ v.Term <= stateFile'[v.candidate].CurrentTerm
                    /\ /\ status'[v.candidate] = "up"
                       /\ serverState'[v.candidate] = "Candidate"
                       /\ v.Term = currentTerm'[v.candidate]
                       => \A t, n \in Nat :
                            t < v.Term /\ EntryOf(M, t, n) /\ Acked(B, v.voter, t, n) =>
                              Shares(log'[v.candidate], M[t], n) \/ Dead(B, t, n)'
  BY DEF VotersKnowLess
<1>0. /\ TypeInv /\ TypeInv' /\ Next /\ DurableState /\ SavedVotes'
      /\ L \in [Nat -> Seq(Entry)] /\ M \in [Nat -> Seq(Entry)] /\ Grows(L, M)
      /\ LeaderLogs(L) /\ AcksHeld(L, A) /\ VotersKnowLess(L, A) /\ RequestsTellLog
  BY DEF Known, CommitInv, Step, VotingInv
<1> DEFINE c == v.candidate
<1>1. /\ v.voter \in Server /\ c \in Server /\ v.Term \in Nat
  BY <1>0 DEF TypeInv, TypeOK
<1>2. /\ stateFile[c].CurrentTerm \in Nat /\ stateFile'[c].CurrentTerm \in Nat
      /\ stateFile'[c].CurrentTerm >= stateFile[c].CurrentTerm
      /\ stateFile'[v.voter].CurrentTerm \in Nat
  BY <1>1, FilesGrow
<1>3. v \in votes \/ OwnVote(v) \/ GrantedVote(v)
  BY <1>0, VoteSteps
<1>4. v.Term <= stateFile'[v.voter].CurrentTerm
  BY <1>0 DEF SavedVotes
<1>5. v \in votes \/ GrantedVote(v) => v.Term <= stateFile[c].CurrentTerm
  BY <1>0 DEF VotersKnowLess, GrantedVote, RequestsTellLog
<1>6. v.Term <= stateFile'[c].CurrentTerm
  <2>1. OwnVote(v) => c = v.voter
    BY DEF OwnVote
  <2> QED
    BY <1>1, <1>2, <1>3, <1>4, <1>5, <2>1
<1> SUFFICES ASSUME status'[c] = "up", serverState'[c] = "Candidate",
                    v.Term = currentTerm'[c],
                    NEW t \in Nat, NEW n \in Nat, t < v.Term, EntryOf(M, t, n),
                    Acked(B, v.voter, t, n)
             PROVE  Shares(log'[c], M[t], n) \/ Dead(B, t, n)'
  BY <1>6
<1>7. Acked(A, v.voter, t, n) /\ EntryOf(L, t, n)
  <2>1. t < stateFile'[v.voter].CurrentTerm
    BY <1>1, <1>2, <1>4
  <2>2. Acked(A, v.voter, t, n)
    BY <1>1, <2>1, OldAcked
  <2> QED
    BY <1>1, <2>2, AckedEntryOf
<1>8. log[c] \in Seq(Entry) /\ log[v.voter] \in Seq(Entry) /\ log'[c] \in Seq(Entry)
  BY <1>0, <1>1 DEF TypeInv, TypeOK
<1>9. Shares(log[v.voter], L[t], n) \/ Dead(A, t, n)
  BY <1>0, <1>1, <1>7 DEF AcksHeld
<1>10. log'[c] = log[c] /\ (Shares(log[c], L[t], n) \/ Dead(A, t, n))
  <2>1. CASE BecomeCandidate(c)
    <3>1. currentTerm'[c] > stateFile[c].CurrentTerm /\ log'[c] = log[c]
      BY <1>0, <1>1, <2>1, NewCandidate
    <3>2. ~(v.Term <= stateFile[c].CurrentTerm)
      BY <1>1, <1>2, <3>1
    <3>3. v.voter = c
      BY <1>3, <1>5, <3>2 DEF OwnVote
    <3> QED
      BY <1>9, <3>1, <3>3
  <2>2. CASE /\ status[c] = "up" /\ serverState[c] = "Candidate" /\ ~BecomeCandidate(c)
             /\ currentTerm'[c] = currentTerm[c] /\ log'[c] = log[c]
    <3>1. CASE v \in votes
      BY <1>0, <1>7, <2>2, <3>1 DEF VotersKnowLess
    <3>2. CASE GrantedVote(v)
      <4>1. PICK r \in requestVoteRequests :
              /\ v.voter = r.to /\ c = r.from /\ v.Term = r.args.Term
              /\ ~MoreComplete(r.to, r.args)
        BY <3>2 DEF GrantedVote
      <4>2. /\ r.args.LastLogIndex = LastLogIndex(log[c])
            /\ r.args.LastLogTerm = LastLogTerm(log[c])
        BY <1>0, <2>2, <4>1 DEF RequestsTellLog
      <4>3. /\ ~(LastLogTerm(log[c]) < LastLogTerm(log[v.voter]))
            /\ LastLogTerm(log[c]) = LastLogTerm(log[v.voter]) =>
                 ~(LastLogIndex(log[c]) < LastLogIndex(log[v.voter]))
        BY <4>1, <4>2 DEF MoreComplete
      <4>4. Fits(log[c], L) /\ Fits(log[v.voter], L)
        BY <1>0, <1>1 DEF LeaderLogs
      <4> QED
        BY <1>7, <1>8, <1>9, <2>2, <4>3, <4>4, NotBehind
    <3>3. ~OwnVote(v)
      BY <2>2 DEF OwnVote
    <3> QED
      BY <1>3, <3>1, <3>2, <3>3
  <2> QED
    BY <1>0, <1>1, <2>1, <2>2, CandidateSteps
<1>11. ASSUME Shares(log[c], L[t], n)
       PROVE  Shares(log[c], M[t], n)
  <2>1. n \in Int
    OBVIOUS
  <2> QED
    BY <1>0, <1>8, <1>11, <2>1, GrownShares
<1> QED
  BY <1>10, <1>11, DeadStays

-----------------------------------------------------------------------------
(***************************************************************************)
(* Who waits for an answer                                                  *)
(***************************************************************************)

LEMMA DownSteps ==
  ASSUME TypeInv, Next, NEW p \in Server, status[p] = "up", status'[p] # "up"
  PROVE  \E how : Terminate(p, how)
<1>1. ASSUME NEW s \in Server, NEW how, Terminate(s, how) PROVE Terminate(p, how)
  <2>1. status' = [status EXCEPT ![s] = how]
    BY <1>1 DEF Terminate
  <2>2. p = s
    BY <2>1 DEF TypeInv, TypeOK
  <2> QED
    BY <1>1, <2>2
<1>2. ASSUME NEW s \in Server, NEW l, NEW requests, SendAppendEntriesToAll(s, l, requests)
      PROVE  Terminate(p, "panicked")
  BY <1>1, <1>2 DEF SendAppendEntriesToAll
<1>3. ASSUME NEW s \in Server, ServerStep(s) PROVE \E how : Terminate(p, how)
  <2>1. CASE BecomeCandidate(s) \/ IdleTick(s) \/ Restart(s)
    BY <2>1 DEF BecomeCandidate, IdleTick, Restart, TypeInv, TypeOK
  <2>2. CASE Heartbeat(s) \/ \E c \in Command : Start(s, c)
    <3>1. \E l, requests : SendAppendEntriesToAll(s, l, requests)
      BY <2>2 DEF Heartbeat, Start
    <3> QED
      BY <1>2, <3>1
  <2>3. CASE Crash(s) \/ CrashAfterBecomeFollower(s) \/ CrashInWriteFile(s)
    <3>1. Terminate(s, "killed")
      BY <2>3 DEF Crash, CrashAfterBecomeFollower, CrashInWriteFile, Kill
    <3> QED
      BY <1>1, <3>1
  <2> QED
    BY <1>3, <2>1, <2>2, <2>3 DEF ServerStep
<1>4. ASSUME NEW r \in appendEntriesResponses, HandleAppendEntriesResponse(r)
      PROVE  Terminate(p, "panicked")
  <2>1. r.to \in Server
    BY DEF TypeInv, TypeOK, AppendEntriesResponse
  <2>2. Terminate(r.to, "panicked") \/ UNCHANGED status
    BY <1>4 DEF HandleAppendEntriesResponse
  <2> QED
    BY <1>1, <2>1, <2>2
<1>5. \/ \E s \in Server : ServerStep(s)
      \/ \E r \in appendEntriesResponses : HandleAppendEntriesResponse(r)
      \/ UNCHANGED status
  BY DEF Next, MessageStep, HandleRequestVote, HandleRequestVoteResponse,
         RejectOutdatedAppendEntries, HandleAppendEntries, Retry, CallFails, EmptyAnswer
<1> QED
  BY <1>3, <1>4, <1>5

OldAnswer(q) == q \in appendEntriesResponses

NewAnswer(q) ==
  \E r \in appendEntriesRequests :
    /\ r.waiting /\ q.to = r.from /\ q.server = r.to /\ q.lastLogIndex = r.lastLogIndex
    /\ HandleAppendEntries(r) /\ PrevEntryMatches(r.to, r.args)
    /\ q.reply.Term = r.args.Term

\* A success is the answer to a call that is taken.
LEMMA AnswerSteps ==
  ASSUME Next, NEW q \in appendEntriesResponses', q.reply.Success = TRUE
  PROVE  OldAnswer(q) \/ NewAnswer(q)
<1>1. \A s, how : Terminate(s, how) => OldAnswer(q)
  BY DEF Terminate, OldAnswer
<1>2. \A s, l, requests : SendAppendEntriesToAll(s, l, requests) => OldAnswer(q)
  BY <1>1 DEF SendAppendEntriesToAll, OldAnswer
<1>3. ASSUME NEW s \in Server, ServerStep(s) PROVE OldAnswer(q)
  <2>1. CASE BecomeCandidate(s) \/ IdleTick(s) \/ Restart(s)
    BY <2>1 DEF BecomeCandidate, IdleTick, Restart, appendCalls, OldAnswer
  <2>2. CASE Heartbeat(s) \/ \E c \in Command : Start(s, c)
    <3>1. \E l, requests : SendAppendEntriesToAll(s, l, requests)
      BY <2>2 DEF Heartbeat, Start
    <3> QED
      BY <1>2, <3>1
  <2>3. CASE Crash(s) \/ CrashAfterBecomeFollower(s) \/ CrashInWriteFile(s)
    <3>1. Terminate(s, "killed")
      BY <2>3 DEF Crash, CrashAfterBecomeFollower, CrashInWriteFile, Kill
    <3> QED
      BY <1>1, <3>1
  <2> QED
    BY <1>3, <2>1, <2>2, <2>3 DEF ServerStep
<1>4. ASSUME NEW r \in appendEntriesRequests, NEW requests, NEW term, NEW success,
             AnswerAppendEntries(r, requests, term, success)
      PROVE  \/ OldAnswer(q)
             \/ /\ r.waiting /\ q.to = r.from /\ q.server = r.to
                /\ q.lastLogIndex = r.lastLogIndex
                /\ q.reply.Term = term /\ q.reply.Success = success
  <2> DEFINE a == [to |-> r.from, server |-> r.to, lastLogIndex |-> r.lastLogIndex,
                   reply |-> [Term |-> term, Success |-> success]]
  <2>1. OldAnswer(q) \/ (r.waiting /\ q = a)
    BY <1>4 DEF AnswerAppendEntries, OldAnswer
  <2>2. /\ a.to = r.from /\ a.server = r.to /\ a.lastLogIndex = r.lastLogIndex
        /\ a.reply.Term = term /\ a.reply.Success = success
    OBVIOUS
  <2> HIDE DEF a
  <2> QED
    BY <2>1, <2>2
<1>5. ASSUME NEW r \in appendEntriesRequests, HandleAppendEntries(r)
      PROVE  OldAnswer(q) \/ NewAnswer(q)
  <2> DEFINE matches == ~LeadsStill(r.to) /\ PrevEntryMatches(r.to, r.args)
  <2>1. PICK requests : AnswerAppendEntries(r, requests, r.args.Term, matches)
    BY <1>5 DEF HandleAppendEntries
  <2> HIDE DEF matches
  <2>2. \/ OldAnswer(q)
        \/ /\ r.waiting /\ q.to = r.from /\ q.server = r.to
           /\ q.lastLogIndex = r.lastLogIndex
           /\ q.reply.Term = r.args.Term
           /\ q.reply.Success = matches
    BY <1>4, <2>1
  <2>3. matches => PrevEntryMatches(r.to, r.args)
    BY DEF matches
  <2> QED
    BY <1>5, <2>2, <2>3 DEF NewAnswer
<1>6. ASSUME NEW r \in appendEntriesRequests, RejectOutdatedAppendEntries(r)
      PROVE  OldAnswer(q)
  <2>1. AnswerAppendEntries(r, appendEntriesRequests, currentTerm[r.to], FALSE)
    BY <1>6 DEF RejectOutdatedAppendEntries
  <2> QED
    BY <1>4, <2>1
<1>7. ASSUME NEW r \in appendEntriesResponses, HandleAppendEntriesResponse(r)
      PROVE  OldAnswer(q)
  <2>1. \/ Terminate(r.to, "panicked")
        \/ appendEntriesResponses' = appendEntriesResponses \ {r}
    BY <1>7 DEF HandleAppendEntriesResponse
  <2> QED
    BY <1>1, <2>1 DEF OldAnswer
<1>8. ASSUME EmptyAnswer PROVE OldAnswer(q)
  <2>1. CASE UNCHANGED appendEntriesResponses
    BY <2>1 DEF OldAnswer
  <2>2. CASE \E r \in appendEntriesRequests :
               appendEntriesResponses' = appendEntriesResponses \cup
                 {[to |-> r.from, server |-> r.to, lastLogIndex |-> r.lastLogIndex,
                   reply |-> [Term |-> 0, Success |-> FALSE]]}
    BY <2>2 DEF OldAnswer
  <2> QED
    BY <1>8, <2>1, <2>2 DEF EmptyAnswer, appendCalls
<1>9. \/ \E s \in Server : ServerStep(s)
      \/ \E r \in appendEntriesRequests : RejectOutdatedAppendEntries(r)
      \/ \E r \in appendEntriesRequests : HandleAppendEntries(r)
      \/ \E r \in appendEntriesResponses : HandleAppendEntriesResponse(r)
      \/ EmptyAnswer
      \/ UNCHANGED appendEntriesResponses
  BY DEF Next, MessageStep, HandleRequestVote, HandleRequestVoteResponse, appendCalls,
         Retry, CallFails
<1> QED
  BY <1>3, <1>5, <1>6, <1>7, <1>8, <1>9 DEF OldAnswer

\* Only a later term or a kill ends a leadership.
LEMMA LeaderStays ==
  ASSUME TypeInv, ElectedOnce, ElectionSafety, NEW L, LeaderLogs(L), Next,
         NEW p \in Server, status[p] = "up", serverState[p] = "Leader",
         status'[p] = "up", currentTerm'[p] = currentTerm[p]
  PROVE  serverState'[p] = "Leader"
<1> SUFFICES ASSUME serverState'[p] # serverState[p] PROVE FALSE
  OBVIOUS
<1>0. /\ serverState \in [Server -> {"Follower", "Candidate", "Leader"}]
      /\ currentTerm \in [Server -> Nat]
  BY DEF TypeInv, TypeOK
<1>1. ASSUME NEW s \in Server, NEW term, NEW keep, BecomeFollower(s, term, keep)
      PROVE  s = p /\ currentTerm[p] = term
  BY <1>0, <1>1 DEF BecomeFollower
<1>2. ASSUME NEW s \in Server, BecomeCandidate(s) PROVE FALSE
  <2>1. /\ serverState' = [serverState EXCEPT ![s] = "Candidate"]
        /\ serverState[s] # "Leader"
    BY <1>2 DEF BecomeCandidate
  <2> QED
    BY <1>0, <2>1
<1>3. ASSUME NEW s \in Server, Restart(s) PROVE FALSE
  <2>1. /\ serverState' = [serverState EXCEPT ![s] = "Follower"] /\ status[s] # "up"
    BY <1>3 DEF Restart
  <2> QED
    BY <1>0, <2>1
<1>4. ASSUME NEW r \in requestVoteRequests, HandleRequestVote(r) PROVE FALSE
  <2> DEFINE s == r.to
             newer == r.args.Term > currentTerm[s]
  <2>1. /\ serverState' = [serverState EXCEPT ![s] = IF newer THEN "Follower" ELSE @]
        /\ currentTerm' = [currentTerm EXCEPT ![s] = IF newer THEN r.args.Term
                                                              ELSE currentTerm[s]]
    BY <1>4 DEF HandleRequestVote
  <2>2. r.args.Term \in Nat
    BY DEF TypeInv, TypeOK, RequestVoteRequest, RequestVoteArgs
  <2>3. newer /\ s = p
    BY <1>0, <2>1
  <2>4. currentTerm'[p] = r.args.Term
    BY <1>0, <2>1, <2>3
  <2> QED
    BY <1>0, <2>2, <2>3, <2>4
<1>5. ASSUME NEW r \in requestVoteResponses, HandleRequestVoteResponse(r) PROVE FALSE
  <2>1. r.to \in Server /\ r.reply.Term \in Nat
    BY DEF TypeInv, TypeOK, RequestVoteResponse
  <2>2. \/ r.reply.Term > currentTerm[r.to] /\ BecomeFollower(r.to, r.reply.Term, FALSE)
        \/ serverState' = [serverState EXCEPT ![r.to] = "Leader"]
        \/ UNCHANGED serverState
    BY <1>5 DEF HandleRequestVoteResponse, BecomeLeader
  <2>3. CASE r.reply.Term > currentTerm[r.to] /\ BecomeFollower(r.to, r.reply.Term, FALSE)
    <3>1. r.to = p /\ currentTerm[p] = r.reply.Term
      BY <1>1, <2>1, <2>3
    <3> QED
      BY <2>1, <2>3, <3>1
  <2> QED
    BY <1>0, <2>2, <2>3
<1>6. ASSUME NEW r \in appendEntriesRequests, HandleAppendEntries(r) PROVE FALSE
  <2>1. /\ r.to \in Server
        /\ BecomeFollower(r.to, r.args.Term, r.args.Term = currentTerm[r.to])
    BY <1>6, AppendEntriesTyped DEF HandleAppendEntries
  <2>2. r.to = p /\ currentTerm[p] = r.args.Term
    BY <1>1, <2>1
  <2>3. <<r.args.Term, r.from>> \in elected /\ r.from # r.to
    BY DEF LeaderLogs
  <2>4. <<currentTerm[p], p>> \in elected
    BY DEF ElectedOnce
  <2>5. <<r.args.Term, r.from>>[2] = <<currentTerm[p], p>>[2]
    BY <2>2, <2>3, <2>4 DEF ElectionSafety
  <2> QED
    BY <2>2, <2>3, <2>5
<1>7. ASSUME NEW r \in appendEntriesResponses, HandleAppendEntriesResponse(r) PROVE FALSE
  <2>1. r.to \in Server /\ r.reply.Term \in Nat
    BY DEF TypeInv, TypeOK, AppendEntriesResponse
  <2>2. \/ r.reply.Term > currentTerm[r.to] /\ BecomeFollower(r.to, r.reply.Term, FALSE)
        \/ UNCHANGED serverState
    BY <1>7 DEF HandleAppendEntriesResponse
  <2>3. CASE r.reply.Term > currentTerm[r.to] /\ BecomeFollower(r.to, r.reply.Term, FALSE)
    <3>1. r.to = p /\ currentTerm[p] = r.reply.Term
      BY <1>1, <2>1, <2>3
    <3> QED
      BY <2>1, <2>3, <3>1
  <2> QED
    BY <2>2, <2>3
<1>8. \/ \E s \in Server : BecomeCandidate(s) \/ Restart(s)
      \/ \E r \in requestVoteRequests : HandleRequestVote(r)
      \/ \E r \in requestVoteResponses : HandleRequestVoteResponse(r)
      \/ \E r \in appendEntriesRequests : HandleAppendEntries(r)
      \/ \E r \in appendEntriesResponses : HandleAppendEntriesResponse(r)
      \/ UNCHANGED serverState
  BY DEF Next, ServerStep, MessageStep, Heartbeat, IdleTick, Start, Crash,
         CrashAfterBecomeFollower, CrashInWriteFile, Kill,
         RejectOutdatedAppendEntries, Retry, CallFails, EmptyAnswer
<1> QED
  BY <1>2, <1>3, <1>4, <1>5, <1>6, <1>7, <1>8

LEMMA WaitsOn ==
  ASSUME TornWrites = FALSE, NEW L, NEW A, NEW M, NEW B, Known(L, A), Step(L, A, M, B),
         NEW p \in Server, NEW t \in Nat, <<t, p>> \in elected, Waits(p, t),
         status'[p] = "up"
  PROVE  Waits(p, t)'
<1>0. /\ TypeInv /\ TypeInv' /\ Next /\ ElectedOnce /\ ElectionSafety /\ LeaderLogs(L)
      /\ DurableState /\ DurableState'
  BY DEF Known, Step, VotingInv
<1> SUFFICES ASSUME t = currentTerm'[p] PROVE serverState'[p] = "Leader"
  BY DEF Waits
<1>1. status[p] = "up"
  BY DEF Waits
<1>2. /\ stateFile[p].CurrentTerm = currentTerm[p]
      /\ stateFile'[p].CurrentTerm = currentTerm'[p]
  <2>1. stateFile'[p] = [CurrentTerm |-> currentTerm'[p], VotedFor |-> votedFor'[p],
                         Log |-> log'[p]]
    BY <1>0 DEF DurableState
  <2>2. stateFile'[p].CurrentTerm = currentTerm'[p]
    BY <2>1
  <2> QED
    BY <1>0, <1>1, <2>2, DurableFields
<1>3. /\ stateFile[p].CurrentTerm \in Nat /\ stateFile'[p].CurrentTerm \in Nat
      /\ stateFile'[p].CurrentTerm >= stateFile[p].CurrentTerm
  BY FilesGrow
<1>4. t <= stateFile[p].CurrentTerm
  <2>1. <<t, p>>[1] = t /\ <<t, p>>[2] = p
    OBVIOUS
  <2> QED
    BY <1>0, <2>1 DEF ElectedOnce
<1>5. currentTerm[p] = t /\ currentTerm'[p] = currentTerm[p]
  BY <1>2, <1>3, <1>4
<1> QED
  BY <1>0, <1>1, <1>5, LeaderStays DEF Waits

LEMMA OnlyLeadersWaitStep ==
  ASSUME TornWrites = FALSE, SharedArrays = FALSE,
         NEW L, NEW A, NEW M, NEW B, Known(L, A), Step(L, A, M, B)
  PROVE  OnlyLeadersWait'
<1>0. /\ TypeInv /\ TypeInv' /\ Next /\ OnlyLeadersWait /\ LeaderLogs(L)
  BY DEF Known, Step, CommitInv
<1>1. ASSUME NEW q \in appendEntriesRequests', q.waiting
      PROVE  Waits(q.from, q.args.Term)'
  <2>1. CASE \E s \in Server : NewCall(q, s)
    BY <2>1 DEF NewCall, Waits
  <2>2. CASE \E r \in appendEntriesRequests : SameCall(q, r)
    <3>1. PICK r \in appendEntriesRequests : SameCall(q, r)
      BY <2>2
    <3>2. /\ q.from \in Server /\ q.args.Term \in Nat
          /\ <<q.args.Term, q.from>> \in elected
          /\ Waits(q.from, q.args.Term)
      BY <1>0, <1>1, <3>1, AppendEntriesTyped DEF SameCall, LeaderLogs, OnlyLeadersWait
    <3>3. status'[q.from] = "up"
      <4> SUFFICES ASSUME status'[q.from] # "up" PROVE FALSE
        OBVIOUS
      <4>1. PICK how : Terminate(q.from, how)
        BY <1>0, <3>2, DownSteps DEF Waits
      <4>2. PICK r2 \in appendEntriesRequests :
              q = IF r2.from = q.from THEN Abandoned(r2) ELSE r2
        BY <4>1 DEF Terminate
      <4>3. q = Abandoned(r2)
        BY <4>2
      <4>4. ~Abandoned(r2).waiting
        BY <1>0 DEF Abandoned, TypeInv, TypeOK, AppendEntriesRequest
      <4> QED
        BY <1>1, <4>3, <4>4
    <3> QED
      BY <3>2, <3>3, WaitsOn
  <2> QED
    BY <1>0, <2>1, <2>2, CallSteps DEF CallStep
<1>2. ASSUME NEW q \in appendEntriesResponses', q.reply.Success
      PROVE  <<q.reply.Term, q.to>> \in elected' /\ Waits(q.to, q.reply.Term)'
  <2>1. q.to \in Server /\ q.reply.Term \in Nat /\ q.reply.Success = TRUE
    BY <1>0, <1>2 DEF TypeInv, TypeOK, AppendEntriesResponse
  <2>2. CASE OldAnswer(q)
    <3>1. <<q.reply.Term, q.to>> \in elected /\ Waits(q.to, q.reply.Term)
      BY <1>0, <1>2, <2>2 DEF OldAnswer, OnlyLeadersWait
    <3>2. status'[q.to] = "up"
      <4> SUFFICES ASSUME status'[q.to] # "up" PROVE FALSE
        OBVIOUS
      <4>1. PICK how : Terminate(q.to, how)
        BY <1>0, <2>1, <3>1, DownSteps DEF Waits
      <4> QED
        BY <4>1 DEF Terminate
    <3> QED
      BY <1>0, <2>1, <3>1, <3>2, WaitsOn, ElectedGrows
  <2>3. CASE NewAnswer(q)
    <3>1. PICK r \in appendEntriesRequests :
            r.waiting /\ q.to = r.from /\ HandleAppendEntries(r) /\ q.reply.Term = r.args.Term
      BY <2>3 DEF NewAnswer
    <3>2. <<q.reply.Term, q.to>> \in elected /\ Waits(q.to, q.reply.Term)
      BY <1>0, <3>1 DEF LeaderLogs, OnlyLeadersWait
    <3>3. status'[q.to] = "up"
      BY <3>1, <3>2 DEF HandleAppendEntries, Waits
    <3> QED
      BY <1>0, <2>1, <3>2, <3>3, WaitsOn, ElectedGrows
  <2> QED
    BY <1>0, <2>1, <2>2, <2>3, AnswerSteps
<1> QED
  BY <1>1, <1>2 DEF OnlyLeadersWait, Waits

LEMMA SuccessesAreAcksStep ==
  ASSUME NEW L, NEW A, NEW M, NEW B, Known(L, A), Step(L, A, M, B)
  PROVE  SuccessesAreAcks(B)'
<1> SUFFICES ASSUME NEW q \in appendEntriesResponses', q.reply.Success
             PROVE  <<q.server, q.reply.Term, q.lastLogIndex + 1>> \in B
  BY DEF SuccessesAreAcks
<1>0. /\ TypeInv /\ TypeInv' /\ Next /\ SuccessesAreAcks(A) /\ A \subseteq B
      /\ \A a \in Ack : NewAck(a) => a \in B
  BY DEF Known, Step, CommitInv
<1>1. /\ q.server \in Server /\ q.reply.Term \in Nat /\ q.reply.Success = TRUE
      /\ q.lastLogIndex + 1 \in Nat
  <2>1. /\ q.server \in Server /\ q.reply.Term \in Nat /\ q.reply.Success = TRUE
        /\ q.lastLogIndex \in Nat \cup {-1}
    BY <1>0 DEF TypeInv, TypeOK, AppendEntriesResponse, Index
  <2>2. q.lastLogIndex + 1 \in Nat
    BY <2>1
  <2> QED
    BY <2>1, <2>2
<1>2. CASE OldAnswer(q)
  BY <1>0, <1>2 DEF OldAnswer, SuccessesAreAcks
<1>3. CASE NewAnswer(q)
  <2>1. NewAck(<<q.server, q.reply.Term, q.lastLogIndex + 1>>)
    BY <1>3 DEF NewAnswer, NewAck
  <2> QED
    BY <1>0, <1>1, <2>1 DEF Ack
<1> QED
  BY <1>0, <1>1, <1>2, <1>3, AnswerSteps

-----------------------------------------------------------------------------
(***************************************************************************)
(* What a leader counts                                                     *)
(***************************************************************************)

Counts(s, p) ==
  \E r \in appendEntriesResponses :
    /\ HandleAppendEntriesResponse(r) /\ r.reply.Success
    /\ s = r.to /\ p = r.server /\ matchIndex'[s][p] = r.lastLogIndex

LEMMA MatchSteps ==
  ASSUME TypeInv, Next, NEW s \in Server, NEW p \in Server, serverState'[s] = "Leader"
  PROVE  \/ matchIndex'[s][p] = -1
         \/ /\ serverState[s] = "Leader"
            /\ \/ matchIndex'[s][p] = matchIndex[s][p]
               \/ /\ \E c \in Command : Start(s, c)
                  /\ p = s /\ matchIndex'[s][p] = LastLogIndex(log'[s])
               \/ Counts(s, p)
<1> DEFINE Stays == serverState[s] = "Leader" /\ matchIndex'[s] = matchIndex[s]
<1>0. /\ serverState \in [Server -> {"Follower", "Candidate", "Leader"}]
      /\ matchIndex \in [Server -> [Server -> Index]] /\ log \in [Server -> Seq(Entry)]
  BY DEF TypeInv, TypeOK
<1>1. ASSUME NEW q \in Server, BecomeCandidate(q) PROVE Stays
  <2>1. serverState' = [serverState EXCEPT ![q] = "Candidate"] /\ UNCHANGED matchIndex
    BY <1>1 DEF BecomeCandidate, leadership
  <2> QED
    BY <1>0, <2>1
<1>2. ASSUME NEW q \in Server, NEW c \in Command, Start(q, c)
      PROVE  \/ Stays
             \/ /\ Start(s, c) /\ serverState[s] = "Leader"
                /\ p = s /\ matchIndex'[s][p] = LastLogIndex(log'[s])
             \/ matchIndex'[s][p] = matchIndex[s][p] /\ serverState[s] = "Leader"
  <2> DEFINE newLog == Append(log[q], [Term |-> currentTerm[q], Command |-> c])
  <2>1. /\ matchIndex' = [matchIndex EXCEPT ![q][q] = LastLogIndex(newLog)]
        /\ log' = [log EXCEPT ![q] = newLog] /\ UNCHANGED serverState
    BY <1>2 DEF Start
  <2> HIDE DEF newLog
  <2>2. CASE q = s
    <3>1. log'[s] = newLog
      BY <1>0, <2>1, <2>2
    <3>2. matchIndex'[s] = [matchIndex[s] EXCEPT ![s] = LastLogIndex(newLog)]
      BY <1>0, <2>1, <2>2
    <3>3. matchIndex[s] \in [Server -> Index]
      BY <1>0
    <3> QED
      BY <1>2, <2>1, <2>2, <3>1, <3>2, <3>3
  <2>3. CASE q # s
    BY <1>0, <2>1, <2>3
  <2> QED
    BY <2>2, <2>3
<1>3. ASSUME NEW q \in Server, Restart(q) PROVE Stays
  <2>1. /\ serverState' = [serverState EXCEPT ![q] = "Follower"]
        /\ matchIndex' = [matchIndex EXCEPT ![q] = [x \in Server |-> 0]]
    BY <1>3 DEF Restart
  <2> QED
    BY <1>0, <2>1
<1>4. ASSUME NEW r \in requestVoteRequests, HandleRequestVote(r) PROVE Stays
  <2>1. /\ serverState' =
             [serverState EXCEPT ![r.to] = IF r.args.Term > currentTerm[r.to]
                                             THEN "Follower" ELSE serverState[r.to]]
        /\ UNCHANGED matchIndex
    BY <1>4 DEF HandleRequestVote, leadership
  <2> QED
    BY <1>0, <2>1
<1>5. ASSUME NEW r \in requestVoteResponses, HandleRequestVoteResponse(r)
      PROVE  Stays \/ matchIndex'[s][p] = -1
  <2>1. CASE BecomeFollower(r.to, r.reply.Term, FALSE) /\ UNCHANGED leadership
    BY <1>0, <2>1 DEF BecomeFollower, leadership
  <2>2. CASE BecomeLeader(r.to)
    <3>1. /\ serverState' = [serverState EXCEPT ![r.to] = "Leader"]
          /\ matchIndex' = [matchIndex EXCEPT ![r.to] = [x \in Server |-> -1]]
      BY <2>2 DEF BecomeLeader
    <3>2. CASE r.to = s
      <4>1. matchIndex'[s] = [x \in Server |-> -1]
        BY <1>0, <3>1, <3>2
      <4> QED
        BY <4>1
    <3>3. CASE r.to # s
      BY <1>0, <3>1, <3>3
    <3> QED
      BY <3>2, <3>3
  <2>3. CASE UNCHANGED <<serverState, leadership>>
    BY <2>3 DEF leadership
  <2> QED
    BY <1>5, <2>1, <2>2, <2>3 DEF HandleRequestVoteResponse
<1>6. ASSUME NEW r \in appendEntriesRequests, HandleAppendEntries(r) PROVE Stays
  <2>1. /\ BecomeFollower(r.to, r.args.Term, r.args.Term = currentTerm[r.to])
        /\ UNCHANGED leadership
    BY <1>6 DEF HandleAppendEntries
  <2> QED
    BY <1>0, <2>1 DEF BecomeFollower, leadership
<1>7. ASSUME NEW r \in appendEntriesResponses, HandleAppendEntriesResponse(r)
      PROVE  \/ serverState[s] = "Leader" /\ matchIndex'[s][p] = matchIndex[s][p]
             \/ serverState[s] = "Leader" /\ Counts(s, p)
  <2>1. CASE UNCHANGED <<serverState, leadership>> \/ UNCHANGED <<serverState, matchIndex>>
    BY <2>1 DEF leadership
  <2>2. CASE BecomeFollower(r.to, r.reply.Term, FALSE) /\ UNCHANGED leadership
    BY <1>0, <2>2 DEF BecomeFollower, leadership
  <2>3. CASE /\ r.reply.Success /\ UNCHANGED serverState
             /\ matchIndex' = [matchIndex EXCEPT ![r.to][r.server] = r.lastLogIndex]
    <3>1. CASE r.to = s
      <4>1. matchIndex'[s] = [matchIndex[s] EXCEPT ![r.server] = r.lastLogIndex]
        BY <1>0, <2>3, <3>1
      <4>2. matchIndex[s] \in [Server -> Index]
        BY <1>0
      <4>3. \/ matchIndex'[s][p] = matchIndex[s][p]
            \/ p = r.server /\ matchIndex'[s][p] = r.lastLogIndex
        BY <4>1, <4>2
      <4> QED
        BY <1>7, <2>3, <3>1, <4>3 DEF Counts
    <3>2. CASE r.to # s
      BY <1>0, <2>3, <3>2
    <3> QED
      BY <3>1, <3>2
  <2>4. \/ UNCHANGED <<serverState, leadership>>
        \/ UNCHANGED <<serverState, matchIndex>>
        \/ BecomeFollower(r.to, r.reply.Term, FALSE) /\ UNCHANGED leadership
        \/ /\ r.reply.Success /\ UNCHANGED serverState
           /\ matchIndex' = [matchIndex EXCEPT ![r.to][r.server] = r.lastLogIndex]
    BY <1>7 DEF HandleAppendEntriesResponse
  <2> QED
    BY <2>1, <2>2, <2>3, <2>4
<1>8. \/ \E q \in Server : BecomeCandidate(q) \/ Restart(q)
      \/ \E q \in Server, c \in Command : Start(q, c)
      \/ \E r \in requestVoteRequests : HandleRequestVote(r)
      \/ \E r \in requestVoteResponses : HandleRequestVoteResponse(r)
      \/ \E r \in appendEntriesRequests : HandleAppendEntries(r)
      \/ \E r \in appendEntriesResponses : HandleAppendEntriesResponse(r)
      \/ UNCHANGED <<serverState, leadership>>
  BY DEF Next, ServerStep, MessageStep, Heartbeat, IdleTick, Crash,
         CrashAfterBecomeFollower, CrashInWriteFile, Kill,
         RejectOutdatedAppendEntries, Retry, CallFails, EmptyAnswer
<1> QED
  BY <1>1, <1>2, <1>3, <1>4, <1>5, <1>6, <1>7, <1>8 DEF leadership

\* A leader that was one before, in the same term.
LEMMA SameLeader ==
  ASSUME TypeInv, Next, NEW s \in Server, serverState[s] = "Leader",
         serverState'[s] = "Leader", status'[s] = "up"
  PROVE  status[s] = "up" /\ currentTerm'[s] = currentTerm[s]
<1>1. ASSUME NEW c \in Command, Start(s, c)
      PROVE  status[s] = "up" /\ currentTerm'[s] = currentTerm[s]
  BY <1>1 DEF Start
<1>2. ~BecomeCandidate(s) /\ ~Wins(s)
  BY DEF BecomeCandidate, Wins
<1> QED
  BY <1>1, <1>2, OfficeSteps DEF StaysInOffice

LEMMA MatchesAreAcksStep ==
  ASSUME NEW L, NEW A, NEW M, NEW B, Known(L, A), Step(L, A, M, B)
  PROVE  MatchesAreAcks(B)'
<1> SUFFICES ASSUME NEW s \in Server, NEW p \in Server,
                    status'[s] = "up", serverState'[s] = "Leader",
                    matchIndex'[s][p] # -1
             PROVE  <<p, currentTerm'[s], matchIndex'[s][p] + 1>> \in B
  BY DEF MatchesAreAcks
<1>0. /\ TypeInv /\ TypeInv' /\ Next /\ MatchesAreAcks(A) /\ SuccessesAreAcks(A)
      /\ AnswerInTerm /\ A \subseteq B /\ \A a \in Ack : NewAck(a) => a \in B
  BY DEF Known, Step, CommitInv
<1>1. /\ serverState[s] = "Leader"
      /\ \/ matchIndex'[s][p] = matchIndex[s][p]
         \/ /\ \E c \in Command : Start(s, c)
            /\ p = s /\ matchIndex'[s][p] = LastLogIndex(log'[s])
         \/ Counts(s, p)
  BY <1>0, MatchSteps
<1>2. status[s] = "up" /\ currentTerm'[s] = currentTerm[s]
  BY <1>0, <1>1, SameLeader
<1>3. CASE matchIndex'[s][p] = matchIndex[s][p]
  BY <1>0, <1>1, <1>2, <1>3 DEF MatchesAreAcks
<1>4. ASSUME NEW c \in Command, Start(s, c), p = s, matchIndex'[s][p] = LastLogIndex(log'[s])
      PROVE  <<p, currentTerm'[s], matchIndex'[s][p] + 1>> \in B
  <2>1. Len(log'[s]) \in Nat /\ currentTerm[s] \in Nat
    BY <1>0, TermsTyped, EntriesTyped DEF TypeInv, TypeOK
  <2>2. LastLogIndex(log'[s]) + 1 = Len(log'[s])
    BY <2>1 DEF LastLogIndex
  <2>3. NewAck(<<s, currentTerm[s], Len(log'[s])>>)
    BY <1>4 DEF NewAck
  <2> QED
    BY <1>0, <1>2, <1>4, <2>1, <2>2, <2>3 DEF Ack
<1>5. CASE Counts(s, p)
  <2>1. PICK r \in appendEntriesResponses :
          /\ HandleAppendEntriesResponse(r) /\ r.reply.Success
          /\ s = r.to /\ p = r.server /\ matchIndex'[s][p] = r.lastLogIndex
    BY <1>5 DEF Counts
  <2>2. r.reply.Term = currentTerm[s]
    BY <1>0, <1>1, <2>1 DEF AnswerInTerm
  <2>3. <<r.server, r.reply.Term, r.lastLogIndex + 1>> \in A
    BY <1>0, <2>1 DEF SuccessesAreAcks
  <2> QED
    BY <1>0, <1>2, <2>1, <2>2, <2>3
<1> QED
  BY <1>1, <1>3, <1>4, <1>5

-----------------------------------------------------------------------------
(***************************************************************************)
(* What is committed                                                        *)
(***************************************************************************)

\* What a leader finds on a majority is chosen.
LEMMA CountedIsChosen ==
  ASSUME NEW L, NEW A, Known(L, A), NEW s \in Server, NEW k \in Nat,
         status[s] = "up", serverState[s] = "Leader",
         NEW match \in [Server -> Index], IsMajority({p \in Server : match[p] >= k}),
         \A p \in Server : match[p] = -1 \/ <<p, currentTerm[s], match[p] + 1>> \in A,
         k < Len(log[s]), OfCurrentTerm(s, k)
  PROVE  Committed(L, A, currentTerm[s], log[s], k + 1)
<1>0. /\ TypeInv /\ LeaderLogs(L)
  BY DEF Known
<1>1. PICK t \in Nat : t = currentTerm[s]
  BY <1>0, TermsTyped
<1>2. log[s] = L[t] /\ Len(log[s]) \in Nat
  BY <1>0, <1>1, TermsTyped DEF LeaderLogs
<1>3. EntryOf(L, t, k + 1)
  BY <1>1, <1>2 DEF EntryOf, OfCurrentTerm
<1>4. ASSUME NEW p \in Server, match[p] >= k
      PROVE  Acked(A, p, t, k + 1)
  <2>1. match[p] \in Int /\ match[p] # -1 /\ match[p] + 1 \in Nat /\ match[p] + 1 >= k + 1
    BY <1>4 DEF Index
  <2> QED
    BY <1>1, <2>1 DEF Acked
<1>5. Chosen(L, A, t, k + 1)
  BY <1>3, <1>4 DEF Chosen
<1>6. Shares(log[s], L[t], k + 1)
  BY <1>2 DEF Shares
<1> QED
  BY <1>1, <1>5, <1>6 DEF Committed

\* A commit index that goes up goes to what is committed.
CommitsAt(M, B, s, k) ==
  /\ k > commitIndex[s] /\ CommitAndApply(s, k, log'[s])
  /\ Committed(M, B, stateFile'[s].CurrentTerm, log'[s], k + 1)

LEMMA LeaderCommits ==
  ASSUME TornWrites = FALSE, NEW L, NEW A, NEW M, NEW B, Known(L, A), Step(L, A, M, B),
         NEW r \in appendEntriesResponses, HandleAppendEntriesResponse(r)
  PROVE  UNCHANGED application \/ \E s \in Server, k \in Nat : CommitsAt(M, B, s, k)
<1> SUFFICES ASSUME ~UNCHANGED application
             PROVE  \E s \in Server, k \in Nat : CommitsAt(M, B, s, k)
  OBVIOUS
<1>0. /\ TypeInv /\ TypeInv' /\ OnlyLeadersWait /\ AnswerInTerm /\ DurableState
      /\ SuccessesAreAcks(A) /\ MatchesAreAcks(A) /\ A \subseteq B
      /\ L \in [Nat -> Seq(Entry)] /\ M \in [Nat -> Seq(Entry)] /\ Grows(L, M)
  BY DEF Known, Step, CommitInv, VotingInv
<1> DEFINE s == r.to
           match == [matchIndex EXCEPT ![s][r.server] = r.lastLogIndex]
<1>1. /\ r \in AppendEntriesResponse /\ s \in Server /\ r.server \in Server
      /\ r.lastLogIndex \in Index
  BY <1>0 DEF TypeInv, TypeOK, AppendEntriesResponse
<1>2. /\ r.reply.Success /\ UNCHANGED <<memory, stateFile>>
      /\ \E m \in {match[s][p] : p \in Server} :
           /\ IsMinMatch(match[s], m)
           /\ AdvancesCommit(s, m) /\ OfCurrentTerm(s, m) /\ ~(m >= Len(log[s]))
           /\ CommitAndApply(s, m, log[s])
  BY DEF HandleAppendEntriesResponse
<1>3. Waits(s, r.reply.Term) /\ r.reply.Term = currentTerm[s]
  BY <1>0, <1>2 DEF OnlyLeadersWait, AnswerInTerm
<1>4. status[s] = "up" /\ serverState[s] = "Leader"
  BY <1>3 DEF Waits
<1>5. matchIndex[s] \in [Server -> Index] /\ matchIndex \in [Server -> [Server -> Index]]
  BY <1>0, <1>1 DEF TypeInv, TypeOK
<1>6. match[s] = [matchIndex[s] EXCEPT ![r.server] = r.lastLogIndex]
  BY <1>1, <1>5
<1>7. PICK k \in {match[s][p] : p \in Server} :
        /\ IsMinMatch(match[s], k)
        /\ AdvancesCommit(s, k) /\ OfCurrentTerm(s, k) /\ ~(k >= Len(log[s]))
        /\ CommitAndApply(s, k, log[s])
  BY <1>2
<1> HIDE DEF match
<1>8. match[s] \in [Server -> Index]
  BY <1>1, <1>5, <1>6
<1>9. k \in Nat /\ k > commitIndex[s] /\ k < Len(log[s])
  <2>1. /\ commitIndex[s] \in Int /\ commitIndex[s] >= -1
        /\ Len(log[s]) \in Nat
    BY <1>0, <1>1, TermsTyped
  <2>2. k \in Index
    BY <1>8
  <2>3. k \in Int /\ k > commitIndex[s] /\ ~(k >= Len(log[s]))
    BY <1>7, <2>2 DEF AdvancesCommit, Index
  <2> QED
    BY <2>1, <2>3
<1>10. IsMajority({p \in Server : match[s][p] >= k})
  BY <1>7 DEF IsMinMatch
<1>11. ASSUME NEW p \in Server
       PROVE  match[s][p] = -1 \/ <<p, currentTerm[s], match[s][p] + 1>> \in A
  <2>1. CASE p = r.server
    <3>1. <<r.server, r.reply.Term, r.lastLogIndex + 1>> \in A
      BY <1>0, <1>2 DEF SuccessesAreAcks
    <3> QED
      BY <1>1, <1>3, <1>5, <1>6, <2>1, <3>1
  <2>2. CASE p # r.server
    BY <1>0, <1>1, <1>4, <1>5, <1>6, <2>2 DEF MatchesAreAcks
  <2> QED
    BY <2>1, <2>2
<1>12. Committed(L, A, currentTerm[s], log[s], k + 1)
  BY <1>1, <1>4, <1>7, <1>8, <1>9, <1>10, <1>11, CountedIsChosen
<1>13. /\ stateFile'[s].CurrentTerm = currentTerm[s] /\ log'[s] = log[s]
       /\ currentTerm[s] \in Nat /\ log[s] \in Seq(Entry)
  BY <1>0, <1>1, <1>2, <1>4, DurableFields, TermsTyped DEF memory
<1>14. Committed(M, B, currentTerm[s], log[s], k + 1)
  <2>1. k + 1 \in Nat /\ currentTerm[s] <= currentTerm[s]
    BY <1>9, <1>13
  <2> QED
    BY <1>0, <1>12, <1>13, <2>1, CommittedStays
<1> QED
  BY <1>1, <1>7, <1>9, <1>13, <1>14 DEF CommitsAt

LEMMA FollowerCommits ==
  ASSUME TornWrites = FALSE, NEW L, NEW A, NEW M, NEW B, Known(L, A), Step(L, A, M, B),
         NEW r \in appendEntriesRequests, HandleAppendEntries(r)
  PROVE  UNCHANGED application \/ \E s \in Server, k \in Nat : CommitsAt(M, B, s, k)
<1> SUFFICES ASSUME ~UNCHANGED application
             PROVE  \E s \in Server, k \in Nat : CommitsAt(M, B, s, k)
  OBVIOUS
<1>0. /\ TypeInv /\ TypeInv' /\ CallsTellCommitted(L, A) /\ A \subseteq B /\ LeaderLogs(L)
      /\ L \in [Nat -> Seq(Entry)] /\ M \in [Nat -> Seq(Entry)] /\ Grows(L, M)
  BY DEF Known, Step, CommitInv
<1>1. /\ r.to \in Server /\ r.args.LeaderCommit \in Int /\ r.lastLogIndex \in Int
      /\ r.args.Term \in Nat
  BY <1>0, AppendEntriesTyped
<1>2. PICK s \in Server, t \in Nat, c \in Int, e \in Int :
        s = r.to /\ t = r.args.Term /\ c = r.args.LeaderCommit /\ e = r.lastLogIndex
  BY <1>1
<1>3. log'[s] = LogAfter(r) /\ stateFile'[s].CurrentTerm = t
  BY <1>0, <1>2, HandleAppendEntriesFacts
<1>4. /\ PrevEntryMatches(r.to, r.args) /\ AdvancesCommit(s, c)
      /\ CommitAndApply(s, MinInt(c, LastLogIndex(LogAfter(r))), LogAfter(r))
  BY <1>0, <1>2, LeadsNoMore DEF HandleAppendEntries, LogAfter, TypeInv
<1>5. c > commitIndex[s] /\ c \in Nat
  <2>1. commitIndex[s] \in Int /\ commitIndex[s] >= -1
    BY <1>0, TermsTyped
  <2> QED
    BY <1>4, <2>1 DEF AdvancesCommit
<1>6. c <= e /\ Committed(L, A, t, L[t], c + 1)
  BY <1>0, <1>2, <1>5 DEF CallsTellCommitted
<1>7. /\ log'[s] \in Seq(Entry) /\ Shares(log'[s], L[t], e + 1)
      /\ Len(log'[s]) \in Nat /\ Len(L[t]) \in Nat
  BY <1>0, <1>2, <1>3, <1>4, FollowerTakesStretch, EntriesTyped
<1>8. MinInt(c, LastLogIndex(LogAfter(r))) = c
  <2>1. e + 1 <= Len(log'[s])
    BY <1>7 DEF Shares
  <2>2. c <= Len(log'[s]) - 1
    BY <1>2, <1>6, <1>7, <2>1
  <2>3. LastLogIndex(LogAfter(r)) \in Int /\ c <= LastLogIndex(LogAfter(r))
    BY <1>3, <1>7, <2>2 DEF LastLogIndex
  <2> QED
    BY <1>2, <2>3 DEF MinInt
<1>9. Shares(log'[s], L[t], c + 1)
  <2>1. c + 1 \in Int /\ e + 1 \in Int /\ c + 1 <= e + 1
    BY <1>6
  <2> QED
    BY <1>7, <2>1, SharesLess
<1>10. Committed(L, A, t, log'[s], c + 1)
  BY <1>6, <1>9, SharesAcross DEF Committed
<1>11. Committed(M, B, t, log'[s], c + 1)
  <2>1. c + 1 \in Nat /\ t <= t
    BY <1>5
  <2> QED
    BY <1>0, <1>7, <1>10, <2>1, CommittedStays
<1> QED
  BY <1>3, <1>4, <1>5, <1>8, <1>11 DEF CommitsAt

LEMMA CommitSteps ==
  ASSUME TornWrites = FALSE, NEW L, NEW A, NEW M, NEW B, Known(L, A), Step(L, A, M, B)
  PROVE  \/ UNCHANGED application
         \/ \E s \in Server : Restart(s)
         \/ \E s \in Server, k \in Nat : CommitsAt(M, B, s, k)
<1>1. Next
  BY DEF Step
<1>2. \/ UNCHANGED application
      \/ \E s \in Server : Restart(s)
      \/ \E r \in appendEntriesRequests : HandleAppendEntries(r)
      \/ \E r \in appendEntriesResponses : HandleAppendEntriesResponse(r)
  <2>1. ASSUME NEW s \in Server, ServerStep(s)
        PROVE  UNCHANGED application \/ Restart(s)
    BY <2>1 DEF ServerStep, BecomeCandidate, Heartbeat, IdleTick, Start, Crash,
                CrashAfterBecomeFollower, CrashInWriteFile, Kill
  <2>2. ASSUME MessageStep
        PROVE  \/ UNCHANGED application
               \/ \E r \in appendEntriesRequests : HandleAppendEntries(r)
               \/ \E r \in appendEntriesResponses : HandleAppendEntriesResponse(r)
    BY <2>2 DEF MessageStep, HandleRequestVote, HandleRequestVoteResponse,
                RejectOutdatedAppendEntries, Retry, CallFails, EmptyAnswer
  <2> QED
    BY <1>1, <2>1, <2>2 DEF Next
<1> QED
  BY <1>2, LeaderCommits, FollowerCommits

\* What is committed stays in the log.
LEMMA CommittedKept ==
  ASSUME TornWrites = FALSE, NEW L, NEW A, NEW M, NEW B, Known(L, A), Step(L, A, M, B),
         NEW p \in Server, NEW k \in Nat,
         Committed(L, A, stateFile[p].CurrentTerm, log[p], k)
  PROVE  Committed(M, B, stateFile'[p].CurrentTerm, log'[p], k)
<1>0. /\ TypeInv' /\ A \subseteq B
      /\ L \in [Nat -> Seq(Entry)] /\ M \in [Nat -> Seq(Entry)] /\ Grows(L, M)
  BY DEF Known, Step
<1>1. /\ stateFile[p].CurrentTerm \in Nat /\ stateFile'[p].CurrentTerm \in Nat
      /\ stateFile'[p].CurrentTerm >= stateFile[p].CurrentTerm
      /\ log'[p] \in Seq(Entry)
  BY <1>0, FilesGrow DEF TypeInv, TypeOK
<1>2. PICK t \in Nat, n \in Nat :
        /\ t <= stateFile[p].CurrentTerm /\ k <= n /\ Chosen(L, A, t, n)
        /\ Shares(log[p], L[t], k)
  BY DEF Committed
<1>3. ASSUME NEW r \in appendEntriesRequests, r.to = p, HandleAppendEntries(r)
      PROVE  Shares(L[r.args.Term], L[t], k)
  <2>1. EntryOf(L, t, n) /\ ~Dead(A, t, n)
    BY <1>2, ChosenNotDead DEF Chosen
  <2>2. Shares(L[r.args.Term], L[t], n)
    BY <1>2, <1>3, <2>1, CallsKnowAcked
  <2>3. r.args.Term \in Nat
    BY AppendEntriesTyped DEF Known
  <2>4. L[r.args.Term] \in Seq(Entry) /\ L[t] \in Seq(Entry)
    BY <1>0, <2>3
  <2>5. Len(L[r.args.Term]) \in Nat /\ Len(L[t]) \in Nat
    BY <2>4, EntriesTyped
  <2>6. n \in Int /\ k \in Int
    OBVIOUS
  <2> QED
    BY <1>2, <2>2, <2>5, <2>6, SharesLess
<1>4. L[t] \in Seq(Entry)
  BY <1>0
<1>5. Shares(log'[p], L[t], k)
  BY <1>2, <1>3, <1>4, SharesKept
<1>6. Committed(L, A, stateFile[p].CurrentTerm, log'[p], k)
  BY <1>2, <1>5 DEF Committed
<1>7. PICK u \in Nat, x \in Nat :
        u = stateFile[p].CurrentTerm /\ x = stateFile'[p].CurrentTerm /\ u <= x
  BY <1>1
<1>8. Committed(L, A, u, log'[p], k)
  BY <1>6, <1>7
<1>9. Committed(M, B, x, log'[p], k)
  <2>1. log'[p] \in Seq(Entry)
    BY <1>1
  <2>2. u <= x
    BY <1>7
  <2> QED
    BY <1>0, <1>8, <2>1, <2>2, CommittedStays
<1> QED
  BY <1>7, <1>9

LEMMA ApplicationTyped ==
  ASSUME TypeInv
  PROVE  /\ commitIndex \in [Server -> Index] /\ lastApplied \in [Server -> Index]
         /\ \A s \in Server : /\ commitIndex[s] \in Int /\ commitIndex[s] >= -1
                              /\ lastApplied[s] \in Int /\ lastApplied[s] >= -1
<1>1. commitIndex \in [Server -> Index] /\ lastApplied \in [Server -> Index]
  BY DEF TypeInv, TypeOK
<1> QED
  BY <1>1 DEF Index

\* What CommitAndApply does to the indexes, where none is ahead of the other.
LEMMA CommitMoves ==
  ASSUME TypeInv, NEW s \in Server, NEW k \in Nat, NEW l, k > commitIndex[s],
         lastApplied[s] = commitIndex[s], CommitAndApply(s, k, l)
  PROVE  /\ commitIndex'[s] = k /\ lastApplied'[s] = k
         /\ \A p \in Server \ {s} : /\ commitIndex'[p] = commitIndex[p]
                                    /\ lastApplied'[p] = lastApplied[p]
<1>1. /\ commitIndex' = [commitIndex EXCEPT ![s] = k]
      /\ lastApplied' = [lastApplied EXCEPT ![s] = MaxInt(lastApplied[s], k)]
  BY DEF CommitAndApply
<1>2. MaxInt(lastApplied[s], k) = k
  BY ApplicationTyped DEF MaxInt
<1> QED
  BY <1>1, <1>2, ApplicationTyped

LEMMA CommitsAreCommittedStep ==
  ASSUME TornWrites = FALSE, NEW L, NEW A, NEW M, NEW B, Known(L, A), Step(L, A, M, B)
  PROVE  CommitsAreCommitted(M, B)'
<1>0. TypeInv /\ CommitsAreCommitted(L, A)
  BY DEF Known, CommitInv
<1> SUFFICES ASSUME NEW p \in Server
             PROVE  /\ lastApplied'[p] = commitIndex'[p]
                    /\ commitIndex'[p] >= 0 =>
                         Committed(M, B, stateFile'[p].CurrentTerm, log'[p],
                                   commitIndex'[p] + 1)
  BY DEF CommitsAreCommitted
<1>1. ASSUME commitIndex'[p] = commitIndex[p], lastApplied'[p] = lastApplied[p]
      PROVE  /\ lastApplied'[p] = commitIndex'[p]
             /\ commitIndex'[p] >= 0 =>
                  Committed(M, B, stateFile'[p].CurrentTerm, log'[p],
                            commitIndex'[p] + 1)
  <2>1. commitIndex[p] \in Int
    BY <1>0, ApplicationTyped
  <2>2. ASSUME commitIndex[p] >= 0
        PROVE  Committed(M, B, stateFile'[p].CurrentTerm, log'[p], commitIndex[p] + 1)
    <3>1. commitIndex[p] + 1 \in Nat
      BY <2>1, <2>2
    <3>2. Committed(L, A, stateFile[p].CurrentTerm, log[p], commitIndex[p] + 1)
      BY <1>0, <2>2 DEF CommitsAreCommitted
    <3> QED
      BY <3>1, <3>2, CommittedKept
  <2> QED
    BY <1>0, <1>1, <2>2 DEF CommitsAreCommitted
<1>2. CASE UNCHANGED application
  BY <1>1, <1>2 DEF application
<1>3. ASSUME NEW s \in Server, Restart(s)
      PROVE  /\ lastApplied'[p] = commitIndex'[p]
             /\ commitIndex'[p] >= 0 =>
                  Committed(M, B, stateFile'[p].CurrentTerm, log'[p],
                            commitIndex'[p] + 1)
  <2>1. /\ commitIndex' = [commitIndex EXCEPT ![s] = -1]
        /\ lastApplied' = [lastApplied EXCEPT ![s] = -1]
    BY <1>3 DEF Restart
  <2>2. CASE p = s
    BY <1>0, <2>1, <2>2, ApplicationTyped
  <2>3. CASE p # s
    BY <1>0, <1>1, <2>1, <2>3, ApplicationTyped
  <2> QED
    BY <2>2, <2>3
<1>4. ASSUME NEW s \in Server, NEW k \in Nat, CommitsAt(M, B, s, k)
      PROVE  /\ lastApplied'[p] = commitIndex'[p]
             /\ commitIndex'[p] >= 0 =>
                  Committed(M, B, stateFile'[p].CurrentTerm, log'[p],
                            commitIndex'[p] + 1)
  <2>1. /\ commitIndex'[s] = k /\ lastApplied'[s] = k
        /\ p # s => commitIndex'[p] = commitIndex[p] /\ lastApplied'[p] = lastApplied[p]
        /\ Committed(M, B, stateFile'[s].CurrentTerm, log'[s], k + 1)
    BY <1>0, <1>4, CommitMoves DEF CommitsAt, CommitsAreCommitted
  <2> QED
    BY <1>1, <2>1
<1> QED
  BY <1>2, <1>3, <1>4, CommitSteps

LEMMA CommittedGrown ==
  ASSUME NEW L \in [Nat -> Seq(Entry)], NEW M \in [Nat -> Seq(Entry)], Grows(L, M),
         NEW A, NEW B, A \subseteq B, NEW u \in Nat, NEW k \in Nat,
         Committed(L, A, u, L[u], k)
  PROVE  Committed(M, B, u, M[u], k)
<1>1. PICK t \in Nat, n \in Nat :
        t <= u /\ k <= n /\ Chosen(L, A, t, n) /\ Shares(L[u], L[t], k)
  BY DEF Committed
<1>2. Chosen(M, B, t, n)
  BY <1>1, ChosenStays
<1>3. k \in Int /\ L[t] \in Seq(Entry) /\ M[u] \in Seq(Entry)
  OBVIOUS
<1>4. Shares(L[t], M[u], k)
  BY <1>1, <1>3, SharesBack, GrownShares
<1>5. Shares(M[u], M[t], k)
  BY <1>3, <1>4, SharesBack, GrownShares
<1> QED
  BY <1>1, <1>2, <1>5 DEF Committed

LEMMA CallsTellCommittedStep ==
  ASSUME TornWrites = FALSE, SharedArrays = FALSE,
         NEW L, NEW A, NEW M, NEW B, Known(L, A), Step(L, A, M, B)
  PROVE  CallsTellCommitted(M, B)'
<1> SUFFICES ASSUME NEW q \in appendEntriesRequests', q.args.LeaderCommit >= 0
             PROVE  /\ q.args.LeaderCommit <= q.lastLogIndex
                    /\ Committed(M, B, q.args.Term, M[q.args.Term],
                                 q.args.LeaderCommit + 1)
  BY DEF CallsTellCommitted
<1>0. /\ TypeInv /\ TypeInv' /\ Next /\ CallsTellCommitted(L, A) /\ A \subseteq B
      /\ L \in [Nat -> Seq(Entry)] /\ M \in [Nat -> Seq(Entry)] /\ Grows(L, M)
      /\ LeaderLogs(M)' /\ DurableState'
  BY DEF Known, Step, CommitInv, VotingInv
<1>1. ASSUME NEW r \in appendEntriesRequests, SameCall(q, r)
      PROVE  /\ q.args.LeaderCommit <= q.lastLogIndex
             /\ Committed(M, B, q.args.Term, M[q.args.Term], q.args.LeaderCommit + 1)
  <2>1. /\ q.args.LeaderCommit <= q.lastLogIndex
        /\ Committed(L, A, q.args.Term, L[q.args.Term], q.args.LeaderCommit + 1)
    BY <1>0, <1>1 DEF CallsTellCommitted, SameCall
  <2>2. q.args.Term \in Nat /\ q.args.LeaderCommit \in Int
    BY <1>0, <1>1, AppendEntriesTyped DEF SameCall
  <2>3. q.args.LeaderCommit + 1 \in Nat
    BY <2>2
  <2> QED
    BY <1>0, <2>1, <2>2, <2>3, CommittedGrown
<1>2. ASSUME NEW s \in Server, NewCall(q, s)
      PROVE  /\ q.args.LeaderCommit <= q.lastLogIndex
             /\ Committed(M, B, q.args.Term, M[q.args.Term], q.args.LeaderCommit + 1)
  <2>1. /\ status'[s] = "up" /\ serverState'[s] = "Leader"
        /\ q.args.Term = currentTerm'[s] /\ q.args.LeaderCommit = commitIndex'[s]
        /\ q.lastLogIndex = Len(log'[s]) - 1
    BY <1>2 DEF NewCall
  <2>2. log'[s] = M[currentTerm'[s]]
    BY <1>0, <2>1 DEF LeaderLogs
  <2>3. stateFile'[s].CurrentTerm = currentTerm'[s]
    <3>1. stateFile'[s] = [CurrentTerm |-> currentTerm'[s], VotedFor |-> votedFor'[s],
                           Log |-> log'[s]]
      BY <1>0, <2>1 DEF DurableState
    <3> QED
      BY <3>1
  <2>4. Committed(M, B, stateFile'[s].CurrentTerm, log'[s], commitIndex'[s] + 1)
    BY <2>1, CommitsAreCommittedStep DEF CommitsAreCommitted
  <2>5. commitIndex'[s] + 1 <= Len(log'[s])
    BY <2>4 DEF Committed, Shares
  <2>6. commitIndex'[s] \in Int /\ Len(log'[s]) \in Nat
    BY <1>0, EntriesTyped DEF TypeInv, TypeOK, Index
  <2>7. commitIndex'[s] <= Len(log'[s]) - 1
    BY <2>5, <2>6
  <2> QED
    BY <2>1, <2>2, <2>3, <2>4, <2>7
<1> QED
  BY <1>0, <1>1, <1>2, CallSteps DEF CallStep

LEMMA CallsCoverStep ==
  ASSUME TornWrites = FALSE, SharedArrays = FALSE,
         NEW L, NEW A, NEW M, NEW B, Known(L, A), Step(L, A, M, B)
  PROVE  CallsCover(M)'
<1> SUFFICES ASSUME NEW q \in appendEntriesRequests', NEW i \in Nat,
                    i > q.lastLogIndex + 1, i <= Len(M[q.args.Term])
             PROVE  M[q.args.Term][i].Term = q.args.Term
  BY DEF CallsCover
<1>0. /\ TypeInv /\ TypeInv' /\ Next /\ CallsCover(L)
      /\ L \in [Nat -> Seq(Entry)] /\ M \in [Nat -> Seq(Entry)] /\ Grows(L, M)
      /\ LeaderLogs(L) /\ LeaderLogs(M)' /\ OnlyStartAdds(L, M) /\ StartWrites(M)
  BY DEF Known, Step, CommitInv
<1>1. ASSUME NEW r \in appendEntriesRequests, SameCall(q, r)
      PROVE  M[q.args.Term][i].Term = q.args.Term
  <2>1. q.args.Term = r.args.Term /\ q.lastLogIndex = r.lastLogIndex
    BY <1>1 DEF SameCall
  <2>2. PICK t \in Nat, e \in Int : t = r.args.Term /\ e = r.lastLogIndex
    BY <1>0, AppendEntriesTyped
  <2>3. \E x \in elected : x[1] = t
    <3>1. <<t, r.from>> \in elected /\ <<t, r.from>>[1] = t
      BY <1>0, <2>2 DEF LeaderLogs
    <3> QED
      BY <3>1
  <2>4. IsStretch(r, L[t])
    BY <1>0, <2>2 DEF LeaderLogs
  <2>5. /\ Len(L[t]) \in Nat /\ Len(M[t]) \in Nat
        /\ e < Len(L[t]) /\ e >= -1
    <3>1. Len(L[t]) \in Nat /\ Len(M[t]) \in Nat
      BY <1>0, EntriesTyped
    <3>2. e < Len(L[t])
      BY <2>2, <2>4 DEF IsStretch
    <3>3. e \in Index
      BY <1>0, <2>2 DEF TypeInv, TypeOK, AppendEntriesRequest
    <3> QED
      BY <3>1, <3>2, <3>3 DEF Index
  <2>6. i \in 1 .. Len(M[t]) /\ i > e + 1
    BY <2>1, <2>2, <2>5
  <2>7. CASE i <= Len(L[t])
    <3>1. i \in 1 .. Len(L[t])
      BY <2>5, <2>6, <2>7
    <3>2. M[t][i] = L[t][i]
      BY <1>0, <3>1 DEF Grows, Shares
    <3>3. L[t][i].Term = t
      BY <1>0, <2>2, <2>6, <2>7 DEF CallsCover
    <3> QED
      BY <2>1, <2>2, <3>2, <3>3
  <2>8. CASE ~(i <= Len(L[t]))
    <3>1. PICK s \in Server, c \in Command :
            Start(s, c) /\ t = currentTerm[s] /\ i = Len(log'[s])
      BY <1>0, <2>3, <2>6, <2>8 DEF OnlyStartAdds
    <3>2. M[t] = log'[s]
      BY <1>0, <3>1 DEF StartWrites
    <3> DEFINE x == [Term |-> currentTerm[s], Command |-> c]
    <3>3. log'[s] = Append(log[s], x) /\ log[s] \in Seq(Entry)
      BY <1>0, <3>1 DEF Start, TypeInv, TypeOK
    <3>4. x.Term = t
      BY <3>1
    <3> HIDE DEF x
    <3>5. log'[s][Len(log'[s])] = x
      BY <3>3
    <3> QED
      BY <2>1, <2>2, <3>1, <3>2, <3>4, <3>5
  <2> QED
    BY <2>7, <2>8
<1>2. ASSUME NEW s \in Server, NewCall(q, s)
      PROVE  FALSE
  <2>1. /\ status'[s] = "up" /\ serverState'[s] = "Leader"
        /\ q.args.Term = currentTerm'[s] /\ q.lastLogIndex = Len(log'[s]) - 1
    BY <1>2 DEF NewCall
  <2>2. log'[s] = M[q.args.Term]
    BY <1>0, <2>1 DEF LeaderLogs
  <2>3. Len(log'[s]) \in Nat
    BY <1>0, EntriesTyped DEF TypeInv, TypeOK
  <2> QED
    BY <2>1, <2>2, <2>3
<1> QED
  BY <1>0, <1>1, <1>2, CallSteps DEF CallStep

LEMMA AppliedIsChosenStep ==
  ASSUME TornWrites = FALSE, NEW L, NEW A, NEW M, NEW B, Known(L, A), Step(L, A, M, B)
  PROVE  AppliedIsChosen(M, B)'
<1> SUFFICES ASSUME NEW a \in applied'
             PROVE  \E t, n \in Nat : /\ Chosen(M, B, t, n) /\ a.Index \in 1 .. n
                                      /\ M[t][a.Index].Command = a.Command
  BY DEF AppliedIsChosen, Chosen
<1>0. /\ TypeInv /\ A \subseteq B /\ AppliedIsChosen(L, A)
      /\ L \in [Nat -> Seq(Entry)] /\ M \in [Nat -> Seq(Entry)] /\ Grows(L, M)
  BY DEF Known, Step, CommitInv
<1>1. CASE a \in applied
  <2>1. PICK t \in Nat, n \in Nat : /\ Chosen(L, A, t, n) /\ a.Index \in 1 .. n
                                    /\ L[t][a.Index].Command = a.Command
    BY <1>0, <1>1 DEF AppliedIsChosen
  <2>2. Chosen(M, B, t, n)
    BY <1>0, <2>1, ChosenStays
  <2>3. L[t] \in Seq(Entry)
    BY <1>0
  <2>4. Len(L[t]) \in Nat
    BY <2>3, EntriesTyped
  <2>5. a.Index \in 1 .. Len(L[t])
    BY <2>1, <2>4 DEF Chosen, EntryOf
  <2>6. M[t][a.Index] = L[t][a.Index]
    BY <1>0, <2>5 DEF Grows, Shares
  <2> QED
    BY <2>1, <2>2, <2>6
<1>2. ASSUME NEW s \in Server, NEW k \in Nat, CommitsAt(M, B, s, k), a \notin applied
      PROVE  \E t, n \in Nat : /\ Chosen(M, B, t, n) /\ a.Index \in 1 .. n
                               /\ M[t][a.Index].Command = a.Command
  <2>1. PICK i \in (lastApplied[s] + 1) .. k :
          a = [Index |-> i + 1, Command |-> log'[s][i + 1].Command]
    BY <1>2 DEF CommitsAt, CommitAndApply
  <2>2. a.Index = i + 1 /\ a.Command = log'[s][i + 1].Command
    BY <2>1
  <2>3. PICK t \in Nat, n \in Nat :
          k + 1 <= n /\ Chosen(M, B, t, n) /\ Shares(log'[s], M[t], k + 1)
    BY <1>2 DEF CommitsAt, Committed
  <2>4. lastApplied[s] \in Int /\ lastApplied[s] >= -1
    BY <1>0, ApplicationTyped
  <2>5. i + 1 \in 1 .. k + 1 /\ i + 1 \in 1 .. n
    BY <2>1, <2>3, <2>4
  <2>6. log'[s][i + 1] = M[t][i + 1]
    BY <2>3, <2>5 DEF Shares
  <2> QED
    BY <2>2, <2>3, <2>5, <2>6
<1>3. CASE applied' = applied
  BY <1>1, <1>3
<1> QED
  BY <1>1, <1>2, <1>3, CommitSteps DEF application, Restart

LEMMA AppliedUpToStep ==
  ASSUME TornWrites = FALSE, NEW L, NEW A, NEW M, NEW B, Known(L, A), Step(L, A, M, B),
         NEW N \in Nat, AppliedUpTo(N)
  PROVE  \E K \in Nat : AppliedUpTo(K)'
<1>0. TypeInv /\ CommitsAreCommitted(L, A)
  BY DEF Known, CommitInv
<1>1. CASE UNCHANGED application
  BY <1>1 DEF application, AppliedUpTo
<1>2. ASSUME NEW s \in Server, Restart(s)
      PROVE  AppliedUpTo(N)'
  <2>1. lastApplied' = [lastApplied EXCEPT ![s] = -1] /\ UNCHANGED applied
    BY <1>2 DEF Restart
  <2>2. ASSUME NEW p \in Server
        PROVE  lastApplied'[p] + 1 <= N
    BY <1>0, <2>1, ApplicationTyped DEF AppliedUpTo
  <2> QED
    BY <2>1, <2>2 DEF AppliedUpTo
<1>3. ASSUME NEW s \in Server, NEW k \in Nat, CommitsAt(M, B, s, k)
      PROVE  \E K \in Nat : AppliedUpTo(K)'
  <2>1. PICK K \in Nat : K = IF k + 1 > N THEN k + 1 ELSE N
    OBVIOUS
  <2>2. K >= N /\ K >= k + 1 /\ (K = N \/ K = k + 1)
    BY <2>1
  <2>3. PICK d \in Int : d = lastApplied[s]
    BY <1>0, ApplicationTyped
  <2>4. d >= -1 /\ d + 1 <= N
    BY <1>0, <2>3, ApplicationTyped DEF AppliedUpTo
  <2> DEFINE msg(i) == [Index |-> i + 1, Command |-> log'[s][i + 1].Command]
  <2>5. applied' = applied \cup {msg(i) : i \in d + 1 .. k}
    BY <1>3, <2>3 DEF CommitsAt, CommitAndApply
  <2>6. \A i : msg(i).Index = i + 1
    OBVIOUS
  <2> HIDE DEF msg
  <2>7. ASSUME NEW a \in applied'
        PROVE  a.Index \in 1 .. K
    <3>1. CASE a \in applied
      BY <2>2, <3>1 DEF AppliedUpTo
    <3>2. ASSUME NEW i \in d + 1 .. k, a = msg(i)
          PROVE  a.Index \in 1 .. K
      BY <2>2, <2>4, <2>6, <3>2
    <3> QED
      BY <2>5, <3>1, <3>2
  <2>8. ASSUME NEW j \in 1 .. K
        PROVE  \E a \in applied' : a.Index = j
    <3>1. CASE j <= N
      <4>1. j \in 1 .. N
        BY <3>1
      <4> QED
        BY <2>5, <4>1 DEF AppliedUpTo
    <3>2. CASE j > N
      <4>1. j - 1 \in d + 1 .. k /\ j - 1 + 1 = j
        BY <2>2, <2>4, <3>2
      <4>2. msg(j - 1) \in applied' /\ msg(j - 1).Index = j
        BY <2>5, <2>6, <4>1
      <4> QED
        BY <4>2
    <3> QED
      BY <3>1, <3>2
  <2>9. ASSUME NEW p \in Server
        PROVE  lastApplied'[p] + 1 <= K
    <3>1. /\ lastApplied'[s] = k
          /\ p # s => lastApplied'[p] = lastApplied[p]
      BY <1>0, <1>3, CommitMoves DEF CommitsAt, CommitsAreCommitted
    <3>2. lastApplied[p] \in Int /\ lastApplied[p] + 1 <= N
      BY <1>0, ApplicationTyped DEF AppliedUpTo
    <3> QED
      BY <2>2, <3>1, <3>2
  <2> QED
    BY <2>7, <2>8, <2>9 DEF AppliedUpTo
<1> QED
  BY <1>1, <1>2, <1>3, CommitSteps

-----------------------------------------------------------------------------
(***************************************************************************)
(* The invariant is inductive                                               *)
(***************************************************************************)

LEMMA CommitInvInit ==
  ASSUME Init
  PROVE  \E L, A : Known(L, A)
<1> DEFINE L == [t \in Nat |-> << >>]
<1>1. TypeInv
  BY TypeInvInit
<1>2. /\ L \in [Nat -> Seq(Entry)] /\ \A t \in Nat : L[t] = << >>
  OBVIOUS
<1> HIDE DEF L
<1>3. VotingInv /\ ElectionSafety
  BY ElectionInvInit DEF ElectionInv, VotingInv, Init, ElectionSafety
<1>4. ElectedOnce /\ SavedLogs
  BY LogInvInit DEF LogInv
<1>5. LeaderLogs(L)
  <2>1. \A s \in Server : log[s] = << >> /\ serverState[s] = "Follower"
    BY DEF Init
  <2>2. appendEntriesRequests = {}
    BY DEF Init
  <2>3. \A t, u : Fits(<< >>, L) /\ UpToTerm(<< >>, u) /\ Sorted(<< >>)
    BY DEF Fits, UpToTerm, Sorted
  <2> QED
    BY <1>2, <2>1, <2>2, <2>3 DEF LeaderLogs
<1>6. CommitInv(L, {})
  <2>1. /\ requestVoteRequests = {} /\ appendEntriesRequests = {}
        /\ appendEntriesResponses = {} /\ votes = {} /\ elected = {} /\ applied = {}
        /\ \A s \in Server : /\ serverState[s] = "Follower"
                             /\ commitIndex[s] = -1 /\ lastApplied[s] = -1
    BY DEF Init
  <2>2. OnlyLeadersWait /\ VotersKnowLess(L, {}) /\ RequestsTellLog
        /\ SuccessesAreAcks({}) /\ LeadersComplete(L, {}) /\ CallsTellCommitted(L, {})
        /\ CallsCover(L)
        /\ AppliedIsChosen(L, {})
    BY <2>1 DEF OnlyLeadersWait, VotersKnowLess, RequestsTellLog, SuccessesAreAcks,
                LeadersComplete, CallsTellCommitted, CallsCover, AppliedIsChosen
  <2>3. MatchesAreAcks({}) /\ CommitsAreCommitted(L, {})
    BY <2>1 DEF MatchesAreAcks, CommitsAreCommitted
  <2>4. AcksWithinLogs(L, {}) /\ AcksOfTermHeld(L, {}) /\ AcksHeld(L, {})
    BY DEF AcksWithinLogs, AcksOfTermHeld, AcksHeld, Acked
  <2>5. AppliedUpTo(0)
    BY <2>1 DEF AppliedUpTo
  <2> QED
    BY <2>2, <2>3, <2>4, <2>5 DEF CommitInv
<1> QED
  BY <1>1, <1>2, <1>3, <1>4, <1>5, <1>6 DEF Known

\* Every step keeps what is known, and leaves the leaders' logs and the
\* acknowledgements as Step says.
LEMMA KnownStep ==
  ASSUME TornWrites = FALSE, SharedArrays = FALSE, NEW L, NEW A, Known(L, A), Next,
         AnswerInTerm, NothingCut, ElectionSafety'
  PROVE  \E M, B : Step(L, A, M, B) /\ Known(M, B)'
<1>0. /\ TypeInv /\ TypeInv' /\ VotingInv /\ ElectedOnce /\ SavedLogs
      /\ L \in [Nat -> Seq(Entry)] /\ LeaderLogs(L) /\ A \subseteq Ack
  BY TypeInvStep DEF Known
<1>1. PICK M \in [Nat -> Seq(Entry)] :
        LeaderLogs(M)' /\ Grows(L, M) /\ OnlyStartAdds(L, M) /\ StartWrites(M)
  BY <1>0, LeaderLogsStep DEF VotingInv
<1>2. PICK B : B = A \cup {a \in Ack : NewAck(a)}
  OBVIOUS
<1>3. ElectedOnce' /\ SavedLogs'
  BY <1>0, LeaderLogsStep DEF VotingInv
<1>4. VotingInv'
  <2>1. DurableState' /\ CandidatesNameThemselves' /\ SavedVotes'
    BY <1>0, FilesAdvance, CandidatesNameThemselvesStep, SavedVotesStep DEF VotingInv
  <2>2. GrantsAreVotes' /\ CountedVotesAreVotes'
    BY <1>0, GrantsAreVotesStep, CountedVotesStep DEF VotingInv
  <2>3. ElectedByMajority'
    BY <1>0, <2>2, ElectedByMajorityStep DEF VotingInv
  <2> QED
    BY <2>1, <2>2, <2>3 DEF VotingInv
<1>5. B \subseteq Ack /\ A \subseteq B /\ \A a \in Ack : a \in B <=> a \in A \/ NewAck(a)
  BY <1>0, <1>2
<1> HIDE <1>2
<1>6. Step(L, A, M, B)
  BY <1>0, <1>1, <1>3, <1>4, <1>5 DEF Step
<1>7. CommitInv(M, B)'
  <2>1. /\ OnlyLeadersWait' /\ AcksWithinLogs(M, B)' /\ AcksOfTermHeld(M, B)'
        /\ AcksHeld(M, B)'
    BY <1>6, OnlyLeadersWaitStep, AcksWithinLogsStep, AcksOfTermHeldStep, AcksHeldStep
  <2>2. LeadersComplete(M, B)' /\ VotersKnowLess(M, B)' /\ RequestsTellLog'
    BY <1>6, LeadersCompleteStep, VotersKnowLessStep, RequestsTellLogStep
  <2>3. SuccessesAreAcks(B)' /\ MatchesAreAcks(B)'
    BY <1>6, SuccessesAreAcksStep, MatchesAreAcksStep
  <2>4. /\ CommitsAreCommitted(M, B)' /\ CallsTellCommitted(M, B)'
        /\ CallsCover(M)' /\ AppliedIsChosen(M, B)'
    BY <1>6, CommitsAreCommittedStep, CallsTellCommittedStep, CallsCoverStep,
       AppliedIsChosenStep
  <2>5. PICK N \in Nat : AppliedUpTo(N)
    BY DEF Known, CommitInv
  <2>6. \E K \in Nat : AppliedUpTo(K)'
    BY <1>6, <2>5, AppliedUpToStep
  <2> QED
    BY <2>1, <2>2, <2>3, <2>4, <2>6 DEF CommitInv
<1>8. Known(M, B)'
  BY <1>0, <1>1, <1>3, <1>4, <1>5, <1>7 DEF Known
<1> QED
  BY <1>6, <1>8

CommittedInv == \E L, A : Known(L, A)

-----------------------------------------------------------------------------
(***************************************************************************)
(* What it says of the logs and of what is applied                          *)
(***************************************************************************)

LEMMA SharedIsSame ==
  ASSUME NEW v \in Seq(Entry), NEW w \in Seq(Entry), NEW n \in Nat, Shares(v, w, n)
  PROVE  SubSeq(v, 1, n) = SubSeq(w, 1, n)
<1>1. Len(v) \in Nat /\ Len(w) \in Nat
  BY EntriesTyped
<1>2. n <= Len(v) /\ n <= Len(w) /\ \A j \in 1 .. n : v[j] = w[j]
  BY DEF Shares
<1>3. (\A j \in 1 .. n : v[j] \in Entry) /\ (\A j \in 1 .. n : w[j] \in Entry)
  <2>1. \A j \in 1 .. n : j \in 1 .. Len(v) /\ j \in 1 .. Len(w)
    BY <1>1, <1>2
  <2> QED
    BY <2>1, EntriesTyped
<1>4. /\ SubSeq(v, 1, n) \in Seq(Entry) /\ Len(SubSeq(v, 1, n)) = n
      /\ \A j \in 1 .. n : SubSeq(v, 1, n)[j] = v[j]
  BY <1>3, SubSeqProperties
<1>5. /\ SubSeq(w, 1, n) \in Seq(Entry) /\ Len(SubSeq(w, 1, n)) = n
      /\ \A j \in 1 .. n : SubSeq(w, 1, n)[j] = w[j]
  BY <1>3, SubSeqProperties
<1> QED
  BY <1>2, <1>4, <1>5, SeqEqual

LEMMA MatchedFromKnown ==
  ASSUME CommittedInv
  PROVE  MatchedIsReplicated
<1>1. PICK L, A : Known(L, A)
  BY DEF CommittedInv
<1>2. /\ TypeInv /\ SavedLogs /\ LeaderLogs(L) /\ AcksOfTermHeld(L, A) /\ MatchesAreAcks(A)
  BY <1>1 DEF Known, CommitInv
<1> SUFFICES ASSUME NEW s \in Server, status[s] = "up", serverState[s] = "Leader",
                    NEW p \in Server \ {s}, stateFile[p].CurrentTerm = currentTerm[s],
                    NEW n, n = matchIndex[s][p] + 1
             PROVE  /\ n <= Len(log[s]) /\ n <= Len(stateFile[p].Log)
                    /\ SubSeq(log[s], 1, n) = SubSeq(stateFile[p].Log, 1, n)
  BY DEF MatchedIsReplicated
<1>3. log[s] = L[currentTerm[s]] /\ stateFile[p].Log = log[p]
  BY <1>2 DEF LeaderLogs, SavedLogs
<1>4. log[s] \in Seq(Entry) /\ log[p] \in Seq(Entry) /\ n \in Nat
  <2>1. matchIndex[s][p] \in Nat \cup {-1}
    BY <1>2 DEF TypeInv, TypeOK, Index
  <2>2. n \in Nat
    BY <2>1
  <2> QED
    BY <1>2, <2>2, TermsTyped
<1>5. Shares(log[p], log[s], n)
  <2>1. CASE matchIndex[s][p] = -1
    <3>1. n = 0 /\ Len(log[p]) \in Nat /\ Len(log[s]) \in Nat
      BY <1>2, <2>1, TermsTyped
    <3> QED
      BY <3>1 DEF Shares
  <2>2. CASE <<p, currentTerm[s], n>> \in A
    BY <1>2, <1>3, <1>4, <2>2 DEF AcksOfTermHeld
  <2> QED
    BY <1>2, <2>1, <2>2 DEF MatchesAreAcks
<1>6. SubSeq(log[p], 1, n) = SubSeq(log[s], 1, n)
  BY <1>4, <1>5, SharedIsSame
<1> QED
  BY <1>3, <1>5, <1>6 DEF Shares

LEMMA AppliedFromKnown ==
  ASSUME CommittedInv
  PROVE  AppliedOnMajority
<1>1. PICK L, A : Known(L, A)
  BY DEF CommittedInv
<1>2. /\ TypeInv /\ SavedLogs /\ AcksHeld(L, A) /\ AppliedIsChosen(L, A)
  BY <1>1 DEF Known, CommitInv
<1> SUFFICES ASSUME NEW a \in applied
             PROVE  IsMajority({s \in Server :
                                  /\ Len(stateFile[s].Log) >= a.Index
                                  /\ stateFile[s].Log[a.Index].Command = a.Command})
  BY DEF AppliedOnMajority
<1> DEFINE Holders == {s \in Server : /\ Len(stateFile[s].Log) >= a.Index
                                      /\ stateFile[s].Log[a.Index].Command = a.Command}
<1>3. PICK t \in Nat, n \in Nat :
        /\ Chosen(L, A, t, n) /\ a.Index \in 1 .. n
        /\ L[t][a.Index].Command = a.Command
  BY <1>2 DEF AppliedIsChosen
<1>4. PICK Q \in SUBSET Server : IsMajority(Q) /\ \A p \in Q : Acked(A, p, t, n)
  BY <1>3 DEF Chosen
<1>5. EntryOf(L, t, n) /\ ~Dead(A, t, n)
  BY <1>3, ChosenNotDead DEF Chosen
<1>6. ASSUME NEW p \in Q
      PROVE  p \in Holders
  <2>1. Shares(log[p], L[t], n)
    BY <1>2, <1>4, <1>5 DEF AcksHeld
  <2>2. Len(log[p]) \in Nat
    BY <1>2, TermsTyped
  <2>3. Len(log[p]) >= a.Index /\ log[p][a.Index] = L[t][a.Index]
    BY <1>3, <2>1, <2>2 DEF Shares
  <2> QED
    BY <1>2, <1>3, <2>3 DEF SavedLogs
<1>7. Q \in SUBSET Holders /\ Holders \in SUBSET Server
  BY <1>6
<1> HIDE DEF Holders
<1>8. /\ IsFiniteSet(Holders) /\ Cardinality(Holders) \in Nat /\ Cardinality(Q) \in Nat
      /\ Cardinality(Q) <= Cardinality(Holders) /\ Cardinality(Server) \in Nat
  BY <1>7, ServerAssumption, FS_Subset, FS_CardinalityType
<1>9. IsMajority(Holders)
  BY <1>4, <1>8 DEF IsMajority
<1> QED
  BY <1>9 DEF Holders

\* Two entries that are chosen agree as far as both logs go.
LEMMA ChosenAgree ==
  ASSUME NEW L, NEW A, Known(L, A), NEW t \in Nat, NEW n \in Nat, NEW u \in Nat,
         NEW m \in Nat, Chosen(L, A, t, n), Chosen(L, A, u, m), t <= u,
         NEW i \in 1 .. n, i \in 1 .. m
  PROVE  L[t][i] = L[u][i]
<1>1. CASE t = u
  BY <1>1
<1>2. CASE t < u
  <2>1. LeadersComplete(L, A) /\ LeaderLogs(L) /\ L \in [Nat -> Seq(Entry)]
    BY DEF Known, CommitInv
  <2>2. L[u] # << >>
    BY DEF Chosen, EntryOf
  <2>3. PICK e \in elected : e[1] = u
    BY <2>1, <2>2 DEF LeaderLogs
  <2>4. EntryOf(L, t, n) /\ ~Dead(A, t, n)
    BY ChosenNotDead DEF Chosen
  <2>5. Shares(L[u], L[t], n)
    BY <1>2, <2>1, <2>3, <2>4 DEF LeadersComplete
  <2> QED
    BY <2>5 DEF Shares
<1> QED
  BY <1>1, <1>2

LEMMA AgreeFromKnown ==
  ASSUME CommittedInv
  PROVE  AppliedAgree
<1>1. PICK L, A : Known(L, A)
  BY DEF CommittedInv
<1>2. AppliedIsChosen(L, A)
  BY <1>1 DEF Known, CommitInv
<1> SUFFICES ASSUME NEW a \in applied, NEW b \in applied, a.Index = b.Index
             PROVE  a.Command = b.Command
  BY DEF AppliedAgree
<1>3. PICK t \in Nat, n \in Nat :
        Chosen(L, A, t, n) /\ a.Index \in 1 .. n /\ L[t][a.Index].Command = a.Command
  BY <1>2 DEF AppliedIsChosen
<1>4. PICK u \in Nat, m \in Nat :
        Chosen(L, A, u, m) /\ b.Index \in 1 .. m /\ L[u][b.Index].Command = b.Command
  BY <1>2 DEF AppliedIsChosen
<1>5. t <= u \/ u <= t
  OBVIOUS
<1>6. L[t][a.Index] = L[u][a.Index]
  BY <1>1, <1>3, <1>4, <1>5, ChosenAgree
<1> QED
  BY <1>3, <1>4, <1>6

-----------------------------------------------------------------------------
(***************************************************************************)
(* The replicated log                                                       *)
(***************************************************************************)

\* AgreedLog, of any set of messages.
AgreedOf(S) ==
  [i \in 1 .. Cardinality({a.Index : a \in S}) |-> (CHOOSE a \in S : a.Index = i).Command]

LEMMA AgreedIsSeq ==
  ASSUME NEW S \in SUBSET [Index : Nat, Command : Command], NEW N \in Nat,
         \A a \in S : a.Index \in 1 .. N, \A i \in 1 .. N : \E a \in S : a.Index = i
  PROVE  /\ AgreedOf(S) \in Seq(Command) /\ Len(AgreedOf(S)) = N
         /\ \A i \in 1 .. N : \E a \in S : a.Index = i /\ AgreedOf(S)[i] = a.Command
<1>1. {a.Index : a \in S} = 1 .. N
  OBVIOUS
<1>2. Cardinality(1 .. N) = N
  BY FS_Interval
<1> DEFINE Of(i) == CHOOSE a \in S : a.Index = i
<1>3. AgreedOf(S) = [i \in 1 .. N |-> Of(i).Command]
  BY <1>1, <1>2 DEF AgreedOf
<1>4. ASSUME NEW i \in 1 .. N
      PROVE  Of(i) \in S /\ Of(i).Index = i
  OBVIOUS
<1> HIDE DEF Of
<1>5. ASSUME NEW i \in 1 .. N
      PROVE  Of(i).Command \in Command
  BY <1>4
<1>6. AgreedOf(S) \in [1 .. N -> Command]
  BY <1>3, <1>5
<1>7. AgreedOf(S) \in Seq(Command) /\ Len(AgreedOf(S)) = N
  BY <1>6
<1> QED
  BY <1>3, <1>4, <1>7

LEMMA AgreedGrows ==
  ASSUME NEW S \in SUBSET [Index : Nat, Command : Command], NEW N \in Nat,
         \A a \in S : a.Index \in 1 .. N, \A i \in 1 .. N : \E a \in S : a.Index = i,
         NEW T \in SUBSET [Index : Nat, Command : Command], NEW K \in Nat,
         \A a \in T : a.Index \in 1 .. K, \A i \in 1 .. K : \E a \in T : a.Index = i,
         S \subseteq T, N <= K,
         \A a, b \in T : a.Index = b.Index => a.Command = b.Command
  PROVE  Service!IsPrefix(AgreedOf(S), AgreedOf(T))
<1> DEFINE v == AgreedOf(S)
           w == AgreedOf(T)
<1>1. /\ v \in Seq(Command) /\ Len(v) = N
      /\ \A i \in 1 .. N : \E a \in S : a.Index = i /\ v[i] = a.Command
  BY AgreedIsSeq
<1>2. /\ w \in Seq(Command) /\ Len(w) = K
      /\ \A i \in 1 .. K : \E a \in T : a.Index = i /\ w[i] = a.Command
  BY AgreedIsSeq
<1> HIDE DEF v, w
<1>3. ASSUME NEW i \in 1 .. N
      PROVE  v[i] = w[i] /\ v[i] \in Command /\ w[i] \in Command
  <2>1. i \in 1 .. K
    OBVIOUS
  <2>2. PICK a \in S : a.Index = i /\ v[i] = a.Command
    BY <1>1
  <2>3. PICK b \in T : b.Index = i /\ w[i] = b.Command
    BY <1>2, <2>1
  <2>4. a.Command = b.Command /\ a.Command \in Command
    BY <2>2, <2>3
  <2> QED
    BY <2>2, <2>3, <2>4
<1>4. /\ SubSeq(v, 1, N) \in Seq(Command) /\ Len(SubSeq(v, 1, N)) = N
      /\ \A j \in 1 .. N : SubSeq(v, 1, N)[j] = v[j]
  BY <1>3, SubSeqProperties
<1>5. /\ SubSeq(w, 1, N) \in Seq(Command) /\ Len(SubSeq(w, 1, N)) = N
      /\ \A j \in 1 .. N : SubSeq(w, 1, N)[j] = w[j]
  BY <1>3, SubSeqProperties
<1>6. SubSeq(v, 1, N) = SubSeq(w, 1, N)
  BY <1>3, <1>4, <1>5, SeqEqual
<1> QED
  BY <1>1, <1>2, <1>6 DEF Service!IsPrefix, v, w

LEMMA ServiceInit ==
  ASSUME Init
  PROVE  Service!Init
<1>1. applied = {} /\ lastApplied = [s \in Server |-> -1]
  BY DEF Init
<1>2. AgreedLog = AgreedOf(applied)
  BY DEF AgreedLog, AgreedOf
<1>3. Len(AgreedOf(applied)) = 0 /\ AgreedOf(applied) \in Seq(Command)
  BY <1>1, AgreedIsSeq
<1>4. AgreedLog = << >>
  BY <1>2, <1>3
<1>5. [s \in Server |-> lastApplied[s] + 1] = [s \in Server |-> 0]
  BY <1>1
<1> QED
  BY <1>4, <1>5 DEF Service!Init

LEMMA ServiceStep ==
  ASSUME TornWrites = FALSE, NEW L, NEW A, NEW M, NEW B, Known(L, A), Step(L, A, M, B),
         Known(M, B)', AppliedAgree'
  PROVE  [Service!Next]_(Service!vars)
<1> DEFINE done == [s \in Server |-> lastApplied[s] + 1]
<1>0. /\ TypeInv /\ TypeInv' /\ CommitsAreCommitted(L, A)
      /\ applied \in SUBSET [Index : Nat, Command : Command]
      /\ applied' \in SUBSET [Index : Nat, Command : Command]
  BY DEF Known, Step, CommitInv, TypeInv, TypeOK
<1>1. AgreedLog = AgreedOf(applied) /\ AgreedLog' = AgreedOf(applied')
  BY DEF AgreedLog, AgreedOf
<1>2. CASE UNCHANGED application
  <2>1. AgreedLog' = AgreedLog /\ done' = done
    BY <1>1, <1>2 DEF application
  <2> QED
    BY <2>1 DEF Service!vars
<1>3. ASSUME NEW s \in Server, Restart(s)
      PROVE  Service!Restart(s)
  <2>1. lastApplied' = [lastApplied EXCEPT ![s] = -1] /\ applied' = applied
    BY <1>3 DEF Restart
  <2>2. AgreedLog' = AgreedLog
    BY <1>1, <2>1
  <2>3. ASSUME NEW p \in Server
        PROVE  lastApplied'[p] + 1 = IF p = s THEN 0 ELSE lastApplied[p] + 1
    <3>1. lastApplied \in [Server -> Int]
      BY <1>0, ApplicationTyped
    <3>2. CASE p = s
      BY <2>1, <3>1, <3>2
    <3>3. CASE p # s
      BY <2>1, <3>1, <3>3
    <3> QED
      BY <3>2, <3>3
  <2>4. done' = [p \in Server |-> IF p = s THEN 0 ELSE done[p]]
    BY <2>3
  <2>5. done' = [done EXCEPT ![s] = 0]
    BY <2>4
  <2> QED
    BY <2>2, <2>5 DEF Service!Restart
<1>4. ASSUME NEW s \in Server, NEW k \in Nat, CommitsAt(M, B, s, k)
      PROVE  Service!Apply(s)
  <2>1. /\ k > commitIndex[s] /\ lastApplied[s] = commitIndex[s]
        /\ CommitAndApply(s, k, log'[s])
    BY <1>0, <1>4 DEF CommitsAt, CommitsAreCommitted
  <2>2. /\ lastApplied'[s] = k
        /\ \A p \in Server \ {s} : lastApplied'[p] = lastApplied[p]
        /\ lastApplied[s] \in Int /\ k > lastApplied[s]
    BY <1>0, <2>1, CommitMoves, ApplicationTyped
  <2>3. PICK N \in Nat : AppliedUpTo(N)
    BY DEF Known, CommitInv
  <2>4. PICK K \in Nat : AppliedUpTo(K)'
    BY DEF Known, CommitInv
  <2>5. /\ \A a \in applied : a.Index \in 1 .. N
        /\ \A i \in 1 .. N : \E a \in applied : a.Index = i
        /\ lastApplied[s] + 1 <= N
    BY <2>3 DEF AppliedUpTo
  <2>6. /\ \A a \in applied' : a.Index \in 1 .. K
        /\ \A i \in 1 .. K : \E a \in applied' : a.Index = i
        /\ k + 1 <= K
    BY <2>2, <2>4 DEF AppliedUpTo
  <2> DEFINE msg(i) == [Index |-> i + 1, Command |-> log'[s][i + 1].Command]
  <2>7. applied' = applied \cup {msg(i) : i \in lastApplied[s] + 1 .. k}
    BY <2>1 DEF CommitAndApply
  <2>8. \A i : msg(i).Index = i + 1
    OBVIOUS
  <2> HIDE DEF msg
  <2>9. K = IF k + 1 > N THEN k + 1 ELSE N
    <3>1. N <= K
      <4>1. CASE N = 0
        BY <4>1
      <4>2. CASE N # 0
        <5>1. N \in 1 .. N
          BY <4>2
        <5>2. PICK a \in applied : a.Index = N
          BY <2>5, <5>1
        <5> QED
          BY <2>6, <2>7, <5>2
      <4> QED
        BY <4>1, <4>2
    <3>2. K <= N \/ K <= k + 1
      <4>1. K \in 1 .. K
        BY <2>6
      <4>2. PICK a \in applied' : a.Index = K
        BY <2>6, <4>1
      <4>3. CASE a \in applied
        <5>1. a.Index \in 1 .. N
          BY <2>5, <4>3
        <5> QED
          BY <4>2, <5>1
      <4>4. ASSUME NEW i \in lastApplied[s] + 1 .. k, a = msg(i)
            PROVE  K <= k + 1
        <5>1. K = i + 1
          BY <2>8, <4>2, <4>4
        <5> QED
          BY <2>2, <5>1
      <4> QED
        BY <2>7, <4>2, <4>3, <4>4
    <3> QED
      BY <2>6, <3>1, <3>2
  <2>10. Service!IsPrefix(AgreedLog, AgreedLog')
    <3>1. \A a, b \in applied' : a.Index = b.Index => a.Command = b.Command
      BY DEF AppliedAgree
    <3>2. N <= K /\ applied \subseteq applied'
      BY <2>6, <2>7, <2>9
    <3> QED
      BY <1>0, <1>1, <2>5, <2>6, <3>1, <3>2, AgreedGrows
  <2>11. /\ AgreedLog' \in Seq(Command) /\ Len(AgreedLog') = K /\ Len(AgreedLog) = N
    BY <1>0, <1>1, <2>5, <2>6, AgreedIsSeq
  <2>12. /\ done' \in [Server -> Nat] /\ done' = [done EXCEPT ![s] = done'[s]]
         /\ done'[s] > done[s] /\ done'[s] = k + 1
    <3>1. \A p \in Server : lastApplied'[p] \in Int /\ lastApplied'[p] + 1 \in Nat
      <4>1. lastApplied' \in [Server -> Index]
        BY <1>0 DEF TypeInv, TypeOK
      <4>2. \A i \in Index : i \in Int /\ i + 1 \in Nat
        BY DEF Index
      <4> QED
        BY <4>1, <4>2
    <3>2. done' \in [Server -> Nat]
      BY <3>1
    <3>3. done'[s] = lastApplied'[s] + 1 /\ done[s] = lastApplied[s] + 1
      OBVIOUS
    <3>4. done'[s] = k + 1 /\ done'[s] > done[s]
      BY <2>2, <3>3
    <3>5. ASSUME NEW p \in Server
          PROVE  lastApplied'[p] + 1 = IF p = s THEN lastApplied'[s] + 1 ELSE lastApplied[p] + 1
      BY <2>2
    <3>6. done' = [p \in Server |-> IF p = s THEN done'[s] ELSE done[p]]
      BY <3>5
    <3>7. done' = [done EXCEPT ![s] = done'[s]]
      BY <3>6
    <3> QED
      BY <3>2, <3>4, <3>7
  <2> QED
    BY <2>9, <2>10, <2>11, <2>12 DEF Service!Apply
<1> QED
  BY <1>2, <1>3, <1>4, CommitSteps DEF Service!Next

-----------------------------------------------------------------------------
(***************************************************************************)
(* Two elections, and one call to a peer at a time                          *)
(***************************************************************************)

\* No term can have two leaders: the servers go by distinct numbers, or one
\* server at most campaigns in a term.
OneLeaderATerm ==
  DistinctNumbers \/ \A c, d \in Campaigns : c[2] = d[2] => c = d

\* There are elections in two terms at most, and no server campaigns in both.
TwoElections ==
  /\ \E t, u \in Nat : \A c \in Campaigns : c[2] \in {t, u}
  /\ \A c, d \in Campaigns : c[1] = d[1] => c = d

\* A leader calls a peer again once the last call is answered, and no attempt at
\* a call fails.
CallsInTurn == Outstanding \subseteq {0} /\ Faults = {}

\* Who has campaigned was allowed to.
CampaignsMade ==
  /\ \A e \in elected : <<e[2], e[1]>> \in Campaigns
  /\ \A s \in Server :
       status[s] = "up" /\ serverState[s] = "Candidate" => <<s, currentTerm[s]>> \in Campaigns

FinitelyManyCalls ==
  IsFiniteSet(appendEntriesRequests) /\ IsFiniteSet(appendEntriesResponses)

SameRoute(q, r) == q.from = r.from /\ q.to = r.to /\ q.args.Term = r.args.Term

\* A leader has one call at most on its way to a peer it can reach, and waits for it.
OneCallAPeer ==
  /\ \A q, r \in appendEntriesRequests :
       SameRoute(q, r) /\ <<r.from, r.to>> \in AppendLinks => q = r
  /\ \A r \in appendEntriesRequests :
       /\ status[r.from] = "up" /\ serverState[r.from] = "Leader"
       /\ r.args.Term = currentTerm[r.from]
       => r.waiting

\* Nothing that the peer has of the term lies beyond the end of a call to it.
CallsReach ==
  \A r \in appendEntriesRequests :
    /\ <<r.from, r.to>> \in AppendLinks
    /\ r.args.Term = stateFile[r.to].CurrentTerm
    => \A i \in 1 .. Len(log[r.to]) :
         log[r.to][i].Term = r.args.Term => i <= r.lastLogIndex + 1

\* s waits for an answer to a call of its term t, or has one to take.
Awaits(s, t) ==
  \/ \E r \in appendEntriesRequests : r.waiting /\ r.from = s /\ r.args.Term = t
  \/ \E r \in appendEntriesResponses : r.reply.Success /\ r.to = s /\ r.reply.Term = t

\* As long as it does, its matches are of that term, whether it still leads or not.
AwaitedMatches(A) ==
  \A s, p \in Server, t \in Nat :
    Awaits(s, t) => matchIndex[s][p] = -1 \/ <<p, t, matchIndex[s][p] + 1>> \in A

InTurn(A) ==
  /\ CampaignsMade
  /\ FinitelyManyCalls
  /\ OneCallAPeer
  /\ CallsReach
  /\ AwaitedMatches(A)

LEMMA Meets ==
  ASSUME NEW a \in Nat, NEW b \in Nat, a <= b, b <= a
  PROVE  a = b
OBVIOUS

\* A server leads in one term only.
LEMMA LeadsOnce ==
  ASSUME TwoElections, NEW E, \A e \in E : <<e[2], e[1]>> \in Campaigns,
         NEW s, NEW t, NEW u, <<t, s>> \in E, <<u, s>> \in E
  PROVE  t = u
<1>1. <<s, t>> \in Campaigns /\ <<s, u>> \in Campaigns
  OBVIOUS
<1>2. <<s, t>> = <<s, u>>
  BY <1>1 DEF TwoElections
<1> QED
  BY <1>2

LEMMA CampaignsMadeStep ==
  ASSUME TypeInv, CampaignsMade, Next
  PROVE  CampaignsMade'
<1>1. ASSUME NEW p \in Server, status'[p] = "up", serverState'[p] = "Candidate"
      PROVE  <<p, currentTerm'[p]>> \in Campaigns
  <2>1. CASE BecomeCandidate(p)
    <3>1. /\ <<p, currentTerm[p] + 1>> \in Campaigns
          /\ currentTerm' = [currentTerm EXCEPT ![p] = currentTerm[p] + 1]
      BY <2>1 DEF BecomeCandidate
    <3>2. currentTerm'[p] = currentTerm[p] + 1
      BY <3>1 DEF TypeInv, TypeOK
    <3> QED
      BY <3>1, <3>2
  <2>2. CASE /\ status[p] = "up" /\ serverState[p] = "Candidate"
             /\ currentTerm'[p] = currentTerm[p]
    BY <2>2 DEF CampaignsMade
  <2> QED
    BY <1>1, <2>1, <2>2, CandidateSteps
<1>2. ASSUME NEW e \in elected'
      PROVE  <<e[2], e[1]>> \in Campaigns
  <2>1. CASE e \in elected
    BY <2>1 DEF CampaignsMade
  <2>2. CASE e \notin elected
    <3>1. PICK r \in requestVoteResponses :
            HandleRequestVoteResponse(r) /\ ~UNCHANGED elected
      BY <1>2, <2>2 DEF Next, ServerStep, MessageStep, BecomeCandidate, Heartbeat, IdleTick,
         Start, Crash, CrashAfterBecomeFollower, CrashInWriteFile, Kill, Restart,
         HandleRequestVote, RejectOutdatedAppendEntries, HandleAppendEntries,
         HandleAppendEntriesResponse, Retry, CallFails, EmptyAnswer
    <3>2. /\ status[r.to] = "up" /\ serverState[r.to] = "Candidate"
          /\ elected' = elected \cup {<<currentTerm[r.to], r.to>>}
      BY <3>1 DEF HandleRequestVoteResponse, BecomeLeader
    <3>3. r.to \in Server
      BY DEF TypeInv, TypeOK, RequestVoteResponse
    <3>4. e = <<currentTerm[r.to], r.to>>
      BY <1>2, <2>2, <3>2
    <3> QED
      BY <3>2, <3>3, <3>4 DEF CampaignsMade
  <2> QED
    BY <2>1, <2>2
<1> QED
  BY <1>1, <1>2 DEF CampaignsMade

\* s begins a round of calls, as the leader it is or becomes.
Calls(s) ==
  /\ status[s] = "up" /\ UNCHANGED <<status, currentTerm>>
  /\ \/ serverState[s] = "Leader" /\ MayCall(s)
     \/ serverState[s] = "Candidate"
  /\ \E l \in Seq(Entry), next \in [Server -> Nat] :
       /\ \A p \in Server \ {s} : next[p] <= Len(l)
       /\ appendEntriesRequests' = appendEntriesRequests \cup AppendEntriesToAll(s, l, next)

\* Where the calls under way come from, copies apart.
LEMMA RequestsMove ==
  ASSUME SharedArrays = FALSE, Faults = {}, TypeInv, Next
  PROVE  \/ appendEntriesRequests' \subseteq appendEntriesRequests
         \/ \E s \in Server, how \in {"killed", "panicked"} : Terminate(s, how)
         \/ \E s \in Server : Calls(s)
<1> DEFINE Goal == \/ appendEntriesRequests' \subseteq appendEntriesRequests
                   \/ \E s \in Server, how \in {"killed", "panicked"} : Terminate(s, how)
                   \/ \E s \in Server : Calls(s)
<1>1. ASSUME NEW s \in Server, NEW l \in Seq(Entry), status[s] = "up",
             serverState[s] = "Leader", UNCHANGED currentTerm,
             SendAppendEntriesToAll(s, l, appendEntriesRequests)
      PROVE  Goal
  <2>1. CASE NextIndexesFit(s, l)
    <3>1. /\ nextIndex[s] \in [Server -> Nat]
          /\ \A p \in Server \ {s} : nextIndex[s][p] <= Len(l)
      BY <2>1 DEF NextIndexesFit, TypeInv, TypeOK
    <3>2. /\ MayCall(s) /\ UNCHANGED status
          /\ appendEntriesRequests' =
               appendEntriesRequests \cup AppendEntriesToAll(s, l, nextIndex[s])
      BY <1>1, <2>1 DEF SendAppendEntriesToAll
    <3> QED
      BY <1>1, <3>1, <3>2 DEF Calls
  <2>2. CASE ~NextIndexesFit(s, l)
    BY <1>1, <2>2 DEF SendAppendEntriesToAll
  <2> QED
    BY <2>1, <2>2
<1>2. ASSUME NEW s \in Server, Heartbeat(s) PROVE Goal
  <2>1. log[s] \in Seq(Entry)
    BY DEF TypeInv, TypeOK
  <2> QED
    BY <1>1, <1>2, <2>1 DEF Heartbeat, memory
<1>3. ASSUME NEW s \in Server, NEW c \in Command, Start(s, c) PROVE Goal
  <2> DEFINE e == [Term |-> currentTerm[s], Command |-> c]
             l == Append(log[s], e)
  <2>1. log[s] \in Seq(Entry) /\ e \in Entry
    BY DEF TypeInv, TypeOK, Entry
  <2> HIDE DEF e
  <2>2. l \in Seq(Entry)
    BY <2>1, AppendProperties
  <2> USE DEF e
  <2> HIDE DEF l
  <2>3. PICK raced \in SUBSET Unencoded(s) :
          SendAppendEntriesToAll(s, l, AfterRace(raced, l))
    BY <1>3 DEF Start, l
  <2>4. AfterRace(raced, l) = appendEntriesRequests
    BY DEF Unencoded, AfterRace
  <2> QED
    BY <1>1, <1>3, <2>2, <2>3, <2>4 DEF Start
<1>4. ASSUME NEW s \in Server, Crash(s) \/ CrashAfterBecomeFollower(s) \/ CrashInWriteFile(s)
      PROVE  Goal
  <2>1. Terminate(s, "killed")
    BY <1>4 DEF Crash, CrashAfterBecomeFollower, CrashInWriteFile, Kill
  <2> QED
    BY <2>1
<1>5. ASSUME NEW r \in requestVoteResponses, HandleRequestVoteResponse(r) PROVE Goal
  <2>1. CASE UNCHANGED appendEntriesRequests
    BY <2>1
  <2>2. CASE ~UNCHANGED appendEntriesRequests
    <3> DEFINE s == r.to
               next == [p \in Server |-> LastLogIndex(log[s]) + 1]
    <3>1. /\ s \in Server /\ log[s] \in Seq(Entry) /\ Len(log[s]) \in Nat
      <4>1. s \in Server
        BY DEF TypeInv, TypeOK, RequestVoteResponse
      <4> QED
        BY <4>1 DEF TypeInv, TypeOK
    <3>2. next \in [Server -> Nat] /\ \A p \in Server \ {s} : next[p] <= Len(log[s])
      BY <3>1 DEF LastLogIndex
    <3>3. /\ appendEntriesRequests' =
               appendEntriesRequests \cup AppendEntriesToAll(s, log[s], next)
          /\ status[s] = "up" /\ serverState[s] = "Candidate"
          /\ UNCHANGED <<status, currentTerm>>
      BY <1>5, <2>2 DEF HandleRequestVoteResponse, BecomeLeader, memory
    <3> HIDE DEF next, s
    <3> QED
      BY <3>1, <3>2, <3>3 DEF Calls
  <2> QED
    BY <2>1, <2>2
<1>6. ASSUME NEW r \in appendEntriesRequests, HandleAppendEntries(r) PROVE Goal
  <2> DEFINE matches == ~LeadsStill(r.to) /\ PrevEntryMatches(r.to, r.args)
             appends == matches /\ Len(r.args.Entries) > 0
             newLog == IF appends THEN Trimmed(log[r.to], r.args) \o r.args.Entries
                                  ELSE log[r.to]
  <2>1. PICK raced \in SUBSET {u \in Unencoded(r.to) : appends} :
          AnswerAppendEntries(r, AfterRace(raced, newLog), r.args.Term, matches)
    BY <1>6 DEF HandleAppendEntries
  <2> HIDE DEF matches, appends, newLog
  <2>2. AfterRace(raced, newLog) = appendEntriesRequests
    BY DEF Unencoded, AfterRace
  <2>3. appendEntriesRequests' = appendEntriesRequests \ {r}
    BY <2>1, <2>2 DEF AnswerAppendEntries
  <2> QED
    BY <2>3
<1>7. ASSUME NEW r \in appendEntriesRequests, RejectOutdatedAppendEntries(r) PROVE Goal
  BY <1>7 DEF RejectOutdatedAppendEntries, AnswerAppendEntries
<1>8. ASSUME NEW r \in appendEntriesResponses, HandleAppendEntriesResponse(r) PROVE Goal
  <2>1. r.to \in Server
    BY DEF TypeInv, TypeOK, AppendEntriesResponse
  <2>2. Terminate(r.to, "panicked") \/ UNCHANGED appendEntriesRequests
    BY <1>8 DEF HandleAppendEntriesResponse
  <2> QED
    BY <2>1, <2>2
<1>9. \/ \E s \in Server : Heartbeat(s)
      \/ \E s \in Server, c \in Command : Start(s, c)
      \/ \E s \in Server : Crash(s) \/ CrashAfterBecomeFollower(s) \/ CrashInWriteFile(s)
      \/ \E r \in requestVoteResponses : HandleRequestVoteResponse(r)
      \/ \E r \in appendEntriesRequests : HandleAppendEntries(r)
      \/ \E r \in appendEntriesRequests : RejectOutdatedAppendEntries(r)
      \/ \E r \in appendEntriesResponses : HandleAppendEntriesResponse(r)
      \/ UNCHANGED appendEntriesRequests
  BY DEF Next, ServerStep, MessageStep, BecomeCandidate, IdleTick, Restart,
         HandleRequestVote, Retry, CallFails, EmptyAnswer, RpcFault, appendCalls
<1> QED
  BY <1>2, <1>3, <1>4, <1>5, <1>6, <1>7, <1>8, <1>9

LEMMA ImageFinite ==
  ASSUME NEW S, IsFiniteSet(S), NEW f
  PROVE  IsFiniteSet({f[x] : x \in S})
<1> DEFINE T == {f[x] : x \in S}
           g == [x \in S |-> f[x]]
<1>1. g \in Surjection(S, T)
  BY DEF Surjection
<1> QED
  BY <1>1, FS_Surjection

LEMMA RoundFinite ==
  ASSUME NEW s, NEW l, NEW next
  PROVE  /\ IsFiniteSet(AppendEntriesToAll(s, l, next))
         /\ \A q, r \in AppendEntriesToAll(s, l, next) : q.to = r.to => q = r
<1> DEFINE args(p) == [Term |-> currentTerm[s], PrevLogIndex |-> next[p] - 1,
                       PrevLogTerm |-> IF next[p] > 0 THEN l[next[p]].Term ELSE -1,
                       Entries |-> SubSeq(l, next[p] + 1, Len(l)),
                       LeaderCommit |-> commitIndex[s]]
           call == [p \in Server \ {s} |->
                      [from |-> s, to |-> p, args |-> args(p),
                       lastLogIndex |-> LastLogIndex(l), waiting |-> TRUE]]
<1>1. AppendEntriesToAll(s, l, next) = {call[p] : p \in Server \ {s}}
  BY DEF AppendEntriesToAll
<1>2. IsFiniteSet(Server \ {s})
  BY ServerAssumption, FS_Subset
<1>3. \A p \in Server \ {s} : call[p].to = p
  OBVIOUS
<1> HIDE DEF call
<1> QED
  BY <1>1, <1>2, <1>3, ImageFinite

LEMMA RequestsStayFinite ==
  ASSUME SharedArrays = FALSE, Faults = {}, TypeInv, Next,
         IsFiniteSet(appendEntriesRequests)
  PROVE  IsFiniteSet(appendEntriesRequests')
<1>1. CASE appendEntriesRequests' \subseteq appendEntriesRequests
  BY <1>1, FS_Subset
<1>2. ASSUME NEW s \in Server, NEW how, Terminate(s, how)
      PROVE  IsFiniteSet(appendEntriesRequests')
  <2> DEFINE f == [r \in appendEntriesRequests |-> IF r.from = s THEN Abandoned(r) ELSE r]
  <2>1. appendEntriesRequests' = {f[r] : r \in appendEntriesRequests}
    BY <1>2 DEF Terminate
  <2> HIDE DEF f
  <2> QED
    BY <2>1, ImageFinite
<1>3. ASSUME NEW s \in Server, Calls(s)
      PROVE  IsFiniteSet(appendEntriesRequests')
  <2>1. PICK l, next :
          appendEntriesRequests' = appendEntriesRequests \cup AppendEntriesToAll(s, l, next)
    BY <1>3 DEF Calls
  <2>2. IsFiniteSet(AppendEntriesToAll(s, l, next))
    BY RoundFinite
  <2> QED
    BY <2>1, <2>2, FS_Union
<1> QED
  BY <1>1, <1>2, <1>3, RequestsMove

LEMMA AnswersStayFinite ==
  ASSUME Faults = {}, TypeInv, Next, IsFiniteSet(appendEntriesResponses)
  PROVE  IsFiniteSet(appendEntriesResponses')
<1>1. CASE appendEntriesResponses' \subseteq appendEntriesResponses
  BY <1>1, FS_Subset
<1>2. ASSUME NEW r, NEW requests, NEW term, NEW success,
             AnswerAppendEntries(r, requests, term, success)
      PROVE  IsFiniteSet(appendEntriesResponses')
  <2> DEFINE f == [x \in {r} |-> [to |-> r.from, server |-> r.to,
                                  lastLogIndex |-> r.lastLogIndex,
                                  reply |-> [Term |-> term, Success |-> success]]]
  <2>1. appendEntriesResponses' =
          appendEntriesResponses \cup {f[x] : x \in {y \in {r} : y.waiting}}
    BY <1>2 DEF AnswerAppendEntries
  <2> HIDE DEF f
  <2>2. IsFiniteSet({y \in {r} : y.waiting})
    BY FS_Singleton, FS_Subset
  <2> QED
    BY <2>1, <2>2, ImageFinite, FS_Union
<1>3. ASSUME NEW r \in appendEntriesRequests, HandleAppendEntries(r)
      PROVE  IsFiniteSet(appendEntriesResponses')
  BY <1>2, <1>3 DEF HandleAppendEntries
<1>4. ASSUME NEW r \in appendEntriesRequests, RejectOutdatedAppendEntries(r)
      PROVE  IsFiniteSet(appendEntriesResponses')
  BY <1>2, <1>4 DEF RejectOutdatedAppendEntries
<1>5. \A s, how : Terminate(s, how) => appendEntriesResponses' \subseteq appendEntriesResponses
  BY DEF Terminate
<1>6. \A s, l, requests : SendAppendEntriesToAll(s, l, requests) =>
        appendEntriesResponses' \subseteq appendEntriesResponses
  BY <1>5 DEF SendAppendEntriesToAll
<1>7. ASSUME NEW s \in Server, ServerStep(s)
      PROVE  appendEntriesResponses' \subseteq appendEntriesResponses
  <2>1. CASE BecomeCandidate(s) \/ IdleTick(s) \/ Restart(s)
    BY <2>1 DEF BecomeCandidate, IdleTick, Restart, appendCalls
  <2>2. CASE Heartbeat(s) \/ \E c \in Command : Start(s, c)
    <3>1. \E l, requests : SendAppendEntriesToAll(s, l, requests)
      BY <2>2 DEF Heartbeat, Start
    <3> QED
      BY <1>6, <3>1
  <2>3. CASE Crash(s) \/ CrashAfterBecomeFollower(s) \/ CrashInWriteFile(s)
    <3>1. Terminate(s, "killed")
      BY <2>3 DEF Crash, CrashAfterBecomeFollower, CrashInWriteFile, Kill
    <3> QED
      BY <1>5, <3>1
  <2> QED
    BY <1>7, <2>1, <2>2, <2>3 DEF ServerStep
<1>8. ASSUME NEW r \in appendEntriesResponses, HandleAppendEntriesResponse(r)
      PROVE  appendEntriesResponses' \subseteq appendEntriesResponses
  <2>1. \/ Terminate(r.to, "panicked")
        \/ appendEntriesResponses' = appendEntriesResponses \ {r}
    BY <1>8 DEF HandleAppendEntriesResponse
  <2> QED
    BY <1>5, <2>1
<1>9. \/ \E s \in Server : ServerStep(s)
      \/ \E r \in appendEntriesRequests : RejectOutdatedAppendEntries(r)
      \/ \E r \in appendEntriesRequests : HandleAppendEntries(r)
      \/ \E r \in appendEntriesResponses : HandleAppendEntriesResponse(r)
      \/ UNCHANGED appendEntriesResponses
  BY DEF Next, MessageStep, HandleRequestVote, HandleRequestVoteResponse, appendCalls,
         Retry, CallFails, EmptyAnswer, RpcFault
<1> QED
  BY <1>1, <1>3, <1>4, <1>7, <1>8, <1>9

\* A leader that has a call under way was the leader before.
LEMMA LeaderWithCalls ==
  ASSUME TypeInv, ElectedOnce, NEW L, LeaderLogs(L), Next, NEW r \in appendEntriesRequests,
         status'[r.from] = "up", serverState'[r.from] = "Leader",
         r.args.Term = currentTerm'[r.from]
  PROVE  /\ status[r.from] = "up" /\ serverState[r.from] = "Leader"
         /\ r.args.Term = currentTerm[r.from]
<1> DEFINE p == r.from
<1>1. p \in Server /\ <<r.args.Term, p>> \in elected
  BY AppendEntriesTyped DEF LeaderLogs
<1>2. CASE StaysInOffice(p)
  BY <1>2 DEF StaysInOffice
<1>3. ASSUME NEW c \in Command, Start(p, c)
      PROVE  status[p] = "up" /\ serverState[p] = "Leader" /\ currentTerm'[p] = currentTerm[p]
  BY <1>3 DEF Start
<1>4. ~Wins(p)
  BY <1>1 DEF Wins, ElectedOnce, memory
<1>5. ~BecomeCandidate(p)
  BY <1>1 DEF BecomeCandidate, TypeInv, TypeOK
<1> QED
  BY <1>1, <1>2, <1>3, <1>4, <1>5, OfficeSteps

LEMMA OneCallAPeerStep ==
  ASSUME SharedArrays = FALSE, CallsInTurn, TypeInv, ElectedOnce, NEW L, LeaderLogs(L),
         FinitelyManyCalls, OneCallAPeer, Next
  PROVE  OneCallAPeer'
<1>0. Faults = {} /\ Outstanding \subseteq {0}
  BY DEF CallsInTurn
<1>1. ASSUME NEW r \in appendEntriesRequests,
             status'[r.from] = "up", serverState'[r.from] = "Leader",
             r.args.Term = currentTerm'[r.from]
      PROVE  r.waiting
  BY <1>1, LeaderWithCalls DEF OneCallAPeer
<1>2. CASE appendEntriesRequests' \subseteq appendEntriesRequests
  BY <1>1, <1>2 DEF OneCallAPeer
<1>3. ASSUME NEW s \in Server, NEW how \in {"killed", "panicked"}, Terminate(s, how)
      PROVE  OneCallAPeer'
  <2> DEFINE f(r) == IF r.from = s THEN Abandoned(r) ELSE r
  <2>1. appendEntriesRequests' = {f(r) : r \in appendEntriesRequests}
    BY <1>3 DEF Terminate
  <2>2. \A r \in appendEntriesRequests :
          f(r).from = r.from /\ f(r).to = r.to /\ f(r).args = r.args
    BY AbandonedCall DEF SameCall
  <2>3. \A r \in appendEntriesRequests : r.from # s => f(r) = r
    OBVIOUS
  <2> HIDE DEF f
  <2>4. status'[s] # "up"
    BY <1>3, TerminateStatus DEF TypeInv
  <2>5. ASSUME NEW q \in appendEntriesRequests', NEW r \in appendEntriesRequests',
               SameRoute(q, r), <<r.from, r.to>> \in AppendLinks
        PROVE  q = r
    <3>1. PICK a \in appendEntriesRequests, b \in appendEntriesRequests : q = f(a) /\ r = f(b)
      BY <2>1
    <3>2. SameRoute(a, b) /\ <<b.from, b.to>> \in AppendLinks
      BY <2>2, <2>5, <3>1 DEF SameRoute
    <3> QED
      BY <3>1, <3>2 DEF OneCallAPeer
  <2>6. ASSUME NEW r \in appendEntriesRequests',
               status'[r.from] = "up", serverState'[r.from] = "Leader",
               r.args.Term = currentTerm'[r.from]
        PROVE  r.waiting
    <3>1. PICK a \in appendEntriesRequests : r = f(a)
      BY <2>1
    <3>2. a = r
      BY <2>2, <2>3, <2>4, <2>6, <3>1
    <3> QED
      BY <1>1, <2>6, <3>2
  <2> QED
    BY <2>5, <2>6 DEF OneCallAPeer, SameRoute
<1>4. ASSUME NEW s \in Server, Calls(s)
      PROVE  OneCallAPeer'
  <2>1. PICK l \in Seq(Entry), next \in [Server -> Nat] :
          /\ \A p \in Server \ {s} : next[p] <= Len(l)
          /\ appendEntriesRequests' = appendEntriesRequests \cup AppendEntriesToAll(s, l, next)
    BY <1>4 DEF Calls
  <2> DEFINE New == AppendEntriesToAll(s, l, next)
  <2>2. \A q \in New : q.from = s /\ q.waiting /\ q.args.Term = currentTerm[s] /\ q.to # s
    BY <2>1, RoundCarriesLog
  <2>3. \A q, r \in New : q.to = r.to => q = r
    BY RoundFinite
  <2>4. \A q \in New : q.to \in Server
    BY DEF AppendEntriesToAll
  <2> HIDE DEF New
  <2>5. ASSUME NEW q \in New, NEW r \in appendEntriesRequests, SameRoute(q, r),
               <<r.from, r.to>> \in AppendLinks
        PROVE  FALSE
    <3>1. r.from = s /\ r.to = q.to /\ r.args.Term = currentTerm[s] /\ status[s] = "up"
      BY <1>4, <2>2, <2>5 DEF SameRoute, Calls
    <3>2. CASE serverState[s] = "Candidate"
      <4>1. <<r.args.Term, r.from>> \in elected
        BY DEF LeaderLogs
      <4> QED
        BY <3>1, <3>2, <4>1 DEF ElectedOnce
    <3>3. CASE serverState[s] = "Leader" /\ MayCall(s)
      <4>1. r.waiting
        BY <3>1, <3>3 DEF OneCallAPeer
      <4>2. r \in OpenCalls(s, r.to)
        BY <3>1, <4>1 DEF OpenCalls
      <4>3. IsFiniteSet(OpenCalls(s, r.to))
        <5> DEFINE R == { x \in appendEntriesRequests : x.from = s /\ x.to = r.to /\ x.waiting }
                   S == { x \in appendEntriesResponses : x.to = s /\ x.server = r.to }
        <5>1. IsFiniteSet(R)
          BY FS_Subset DEF FinitelyManyCalls
        <5>2. IsFiniteSet(S)
          BY FS_Subset DEF FinitelyManyCalls
        <5> QED
          BY <5>1, <5>2, FS_Union DEF OpenCalls
      <4>4. Cardinality(OpenCalls(s, r.to)) \in Outstanding
        <5>1. r.to \in Server \ {s} /\ <<s, r.to>> \in AppendLinks
          BY <2>2, <2>4, <2>5, <3>1
        <5> QED
          BY <3>3, <5>1 DEF MayCall
      <4>5. OpenCalls(s, r.to) = {}
        BY <1>0, <4>3, <4>4, FS_EmptySet
      <4> QED
        BY <4>2, <4>5
    <3> QED
      BY <1>4, <3>2, <3>3 DEF Calls
  <2>6. ASSUME NEW q \in appendEntriesRequests', NEW r \in appendEntriesRequests',
               SameRoute(q, r), <<r.from, r.to>> \in AppendLinks
        PROVE  q = r
    <3>1. SameRoute(r, q) /\ <<q.from, q.to>> \in AppendLinks
      BY <2>6 DEF SameRoute
    <3>2. CASE q \in New /\ r \in New
      BY <2>3, <2>6, <3>2 DEF SameRoute
    <3>3. CASE q \in appendEntriesRequests /\ r \in appendEntriesRequests
      BY <2>6, <3>3 DEF OneCallAPeer
    <3> QED
      BY <2>1, <2>5, <2>6, <3>1, <3>2, <3>3 DEF New
  <2>7. ASSUME NEW r \in appendEntriesRequests',
               status'[r.from] = "up", serverState'[r.from] = "Leader",
               r.args.Term = currentTerm'[r.from]
        PROVE  r.waiting
    BY <1>1, <2>1, <2>2, <2>7 DEF New
  <2> QED
    BY <2>6, <2>7 DEF OneCallAPeer, SameRoute
<1> QED
  BY <1>0, <1>2, <1>3, <1>4, RequestsMove

\* Handling a call takes it, and nothing else, from the calls under way.
LEMMA CallTaken ==
  ASSUME SharedArrays = FALSE, NEW r \in appendEntriesRequests, HandleAppendEntries(r)
  PROVE  appendEntriesRequests' = appendEntriesRequests \ {r}
<1> DEFINE matches == ~LeadsStill(r.to) /\ PrevEntryMatches(r.to, r.args)
           appends == matches /\ Len(r.args.Entries) > 0
           newLog == IF appends THEN Trimmed(log[r.to], r.args) \o r.args.Entries
                                ELSE log[r.to]
<1>1. PICK raced \in SUBSET {u \in Unencoded(r.to) : appends} :
        AnswerAppendEntries(r, AfterRace(raced, newLog), r.args.Term, matches)
  BY DEF HandleAppendEntries
<1> HIDE DEF matches, appends, newLog
<1>2. AfterRace(raced, newLog) = appendEntriesRequests
  BY DEF Unencoded, AfterRace
<1> QED
  BY <1>1, <1>2 DEF AnswerAppendEntries

\* What calls of one term come from one server.
LEMMA OneSender ==
  ASSUME ElectionSafety, NEW t, NEW s, NEW p, <<t, s>> \in elected, <<t, p>> \in elected
  PROVE  s = p
<1>1. <<t, s>>[2] = <<t, p>>[2]
  BY DEF ElectionSafety
<1> QED
  BY <1>1

LEMMA CallsReachStep ==
  ASSUME TornWrites = FALSE, SharedArrays = FALSE, CallsInTurn, TypeInv, DurableState,
         SavedLogs, ElectedOnce, ElectionSafety, NEW L, LeaderLogs(L),
         OneCallAPeer, OneCallAPeer', CallsReach, Next,
         TypeInv', NEW M \in [Nat -> Seq(Entry)], LeaderLogs(M)'
  PROVE  CallsReach'
<1> SUFFICES ASSUME NEW q \in appendEntriesRequests', <<q.from, q.to>> \in AppendLinks,
                    q.args.Term = stateFile'[q.to].CurrentTerm,
                    NEW i \in 1 .. Len(log'[q.to]), log'[q.to][i].Term = q.args.Term
             PROVE  i <= q.lastLogIndex + 1
  BY DEF CallsReach
<1>1. ASSUME NEW s \in Server, NewCall(q, s) PROVE i <= q.lastLogIndex + 1
  <2>1. /\ log'[s] = M[q.args.Term] /\ q.lastLogIndex = Len(log'[s]) - 1
        /\ q.to \in Server /\ q.args.Term \in Nat
    <3>1. q.to \in Server /\ q.args.Term \in Nat
      BY AppendEntriesTyped DEF TypeInv, TypeOK, AppendEntriesRequest, AppendEntriesArgs
    <3> QED
      BY <1>1, <3>1 DEF NewCall, LeaderLogs
  <2>2. Shares(log'[q.to], M[q.args.Term], i)
    BY <2>1 DEF LeaderLogs, Fits
  <2>3. Len(M[q.args.Term]) \in Nat /\ i <= Len(M[q.args.Term])
    BY <2>1, <2>2, EntriesTyped DEF Shares
  <2> QED
    BY <2>1, <2>3
<1>2. ASSUME NEW r \in appendEntriesRequests, SameCall(q, r) PROVE i <= q.lastLogIndex + 1
  <2> DEFINE p == r.to
             t == r.args.Term
  <2>1. /\ q.to = p /\ q.from = r.from /\ q.args.Term = t /\ q.lastLogIndex = r.lastLogIndex
        /\ p \in Server /\ t \in Nat /\ r.lastLogIndex \in Int
        /\ <<t, r.from>> \in elected /\ p # r.from
    BY <1>2, AppendEntriesTyped DEF SameCall, LeaderLogs
  <2>2. /\ stateFile[p].CurrentTerm \in Nat /\ stateFile'[p].CurrentTerm \in Nat
        /\ stateFile'[p].CurrentTerm >= stateFile[p].CurrentTerm
    BY <2>1, FileTermsGrow
  <2>0. t = stateFile'[p].CurrentTerm
    BY <2>1
  <2>3. CASE log'[p] = log[p]
    <3>1. i \in 1 .. Len(log[p]) /\ log[p][i].Term = t
      BY <2>1, <2>3
    <3>2. log[p][i].Term <= stateFile[p].CurrentTerm
      BY <2>1, <3>1 DEF LeaderLogs, UpToTerm
    <3>3. t <= stateFile[p].CurrentTerm
      BY <3>1, <3>2
    <3>4. PICK a \in Nat, b \in Nat, c \in Nat :
            a = t /\ b = stateFile[p].CurrentTerm /\ c = stateFile'[p].CurrentTerm
      BY <2>1, <2>2
    <3>5. a = c /\ b <= c /\ a <= b
      BY <2>0, <2>2, <3>3, <3>4
    <3>6. a = b
      BY <3>5, Meets
    <3>7. t = stateFile[p].CurrentTerm
      BY <3>4, <3>6
    <3> QED
      BY <2>1, <3>1, <3>7 DEF CallsReach
  <2>4. ASSUME NEW c \in Command, Start(p, c) PROVE FALSE
    <3>1. /\ status[p] = "up" /\ serverState[p] = "Leader" /\ Persist(p)
          /\ UNCHANGED currentTerm
      BY <2>4 DEF Start
    <3>2. stateFile'[p] = [CurrentTerm |-> currentTerm'[p], VotedFor |-> votedFor'[p],
                           Log |-> log'[p]]
      BY <2>1, <3>1 DEF Persist, TypeInv, TypeOK
    <3>3. stateFile'[p].CurrentTerm = currentTerm[p]
      BY <3>1, <3>2
    <3>4. <<t, p>> \in elected
      BY <2>1, <3>1, <3>3 DEF ElectedOnce
    <3> QED
      BY <2>1, <3>4, OneSender
  <2>5. ASSUME NEW r2 \in appendEntriesRequests, r2.to = p, HandleAppendEntries(r2)
        PROVE  FALSE
    <3>1. r2.args.Term = t
      <4>1. stateFile'[r2.to].CurrentTerm = r2.args.Term
        BY <2>5, HandleAppendEntriesFacts
      <4> QED
        BY <2>0, <2>5, <4>1
    <3>2. r2.from = r.from
      BY <2>1, <3>1, OneSender DEF LeaderLogs
    <3>3. q \in appendEntriesRequests \ {r2}
      BY <2>5, CallTaken
    <3>4. SameRoute(q, r2) /\ <<r2.from, r2.to>> \in AppendLinks
      BY <2>1, <2>5, <3>1, <3>2 DEF SameRoute, HandleAppendEntries
    <3> QED
      BY <3>3, <3>4 DEF OneCallAPeer
  <2> QED
    BY <2>1, <2>3, <2>4, <2>5, LogSteps DEF LogStep
<1> QED
  BY <1>1, <1>2, CallSteps DEF CallStep

LEMMA NothingIsCut ==
  ASSUME TornWrites = FALSE, TypeInv, DurableState, SavedLogs,
         NEW L \in [Nat -> Seq(Entry)], LeaderLogs(L), CallsReach, Next
  PROVE  NothingCut
<1> SUFFICES ASSUME NEW s \in Server, NEW i \in Len(log'[s]) + 1 .. Len(log[s])
             PROVE  log[s][i].Term # currentTerm'[s]
  BY DEF NothingCut
<1>0. log[s] \in Seq(Entry) /\ Len(log[s]) \in Nat
  BY TermsTyped
<1>1. CASE log'[s] = log[s]
  BY <1>0, <1>1
<1>2. ASSUME NEW c \in Command, Start(s, c) PROVE FALSE
  <2> DEFINE e == [Term |-> currentTerm[s], Command |-> c]
  <2>1. log'[s] = Append(log[s], e) /\ e \in Entry
    BY <1>2 DEF Start, TypeInv, TypeOK, Entry
  <2> HIDE DEF e
  <2>2. Len(log'[s]) = Len(log[s]) + 1
    BY <1>0, <2>1, AppendProperties
  <2> QED
    BY <1>0, <2>2
<1>3. ASSUME NEW r \in appendEntriesRequests, r.to = s, HandleAppendEntries(r),
             log'[s] # log[s], log[s][i].Term = currentTerm'[s]
      PROVE  FALSE
  <2>1. /\ log'[s] = LogAfter(r) /\ currentTerm'[s] = r.args.Term /\ status[s] = "up"
        /\ r.args.Term >= currentTerm[s]
    BY <1>3, HandleAppendEntriesFacts
  <2>2. PrevEntryMatches(s, r.args)
    BY <1>3, <2>1 DEF LogAfter
  <2>3. Len(log'[s]) = r.lastLogIndex + 1 /\ r.lastLogIndex + 1 \in Nat
    BY <1>3, <2>1, <2>2, FollowerTakesStretch
  <2>4. i \in 1 .. Len(log[s]) /\ ~(i <= r.lastLogIndex + 1)
    BY <1>0, <2>3
  <2>5. /\ stateFile[s].CurrentTerm = currentTerm[s] /\ currentTerm[s] \in Nat
        /\ r.args.Term \in Nat
    BY <1>3, <2>1, DurableFields, TermsTyped, AppendEntriesTyped
  <2>6. log[s][i].Term <= stateFile[s].CurrentTerm
    BY <2>4 DEF LeaderLogs, UpToTerm
  <2>7. r.args.Term = stateFile[s].CurrentTerm
    <3>1. r.args.Term <= stateFile[s].CurrentTerm
      BY <1>3, <2>1, <2>6
    <3>2. r.args.Term >= stateFile[s].CurrentTerm
      BY <2>1, <2>5
    <3>3. PICK a \in Nat, b \in Nat : a = r.args.Term /\ b = stateFile[s].CurrentTerm
      BY <2>5
    <3>4. a <= b /\ b <= a
      BY <3>1, <3>2, <3>3
    <3>5. a = b
      BY <3>4, Meets
    <3> QED
      BY <3>3, <3>5
  <2>8. <<r.from, r.to>> \in AppendLinks
    BY <1>3 DEF HandleAppendEntries
  <2> QED
    BY <1>3, <2>1, <2>4, <2>7, <2>8 DEF CallsReach
<1> QED
  BY <1>1, <1>2, <1>3, LogSteps DEF LogStep

-----------------------------------------------------------------------------
(***************************************************************************)
(* Whoever awaits an answer has matches of the term it is for               *)
(***************************************************************************)

\* s takes a success and notes what the peer has.
Notes(s) ==
  \E r \in appendEntriesResponses :
    /\ HandleAppendEntriesResponse(r) /\ r.reply.Success /\ r.to = s
    /\ matchIndex'[s] = [matchIndex[s] EXCEPT ![r.server] = r.lastLogIndex]

LEMMA MatchMoves ==
  ASSUME TypeInv, Next, NEW s \in Server
  PROVE  \/ matchIndex'[s] = matchIndex[s]
         \/ serverState'[s] = "Leader"
         \/ Restart(s)
         \/ Notes(s)
<1>0. /\ serverState \in [Server -> {"Follower", "Candidate", "Leader"}]
      /\ matchIndex \in [Server -> [Server -> Index]]
  BY DEF TypeInv, TypeOK
<1>1. ASSUME NEW q \in Server, NEW c \in Command, Start(q, c)
      PROVE  matchIndex'[s] = matchIndex[s] \/ serverState'[s] = "Leader"
  <2>1. /\ \E m : matchIndex' = [matchIndex EXCEPT ![q][q] = m]
        /\ UNCHANGED serverState /\ serverState[q] = "Leader"
    BY <1>1 DEF Start
  <2> QED
    BY <1>0, <2>1
<1>2. ASSUME NEW q \in Server, Restart(q)
      PROVE  matchIndex'[s] = matchIndex[s] \/ Restart(s)
  <2>1. matchIndex' = [matchIndex EXCEPT ![q] = [x \in Server |-> 0]]
    BY <1>2 DEF Restart
  <2> QED
    BY <1>0, <1>2, <2>1
<1>3. ASSUME NEW r \in requestVoteResponses, HandleRequestVoteResponse(r)
      PROVE  matchIndex'[s] = matchIndex[s] \/ serverState'[s] = "Leader"
  <2>1. CASE BecomeLeader(r.to)
    <3>1. /\ serverState' = [serverState EXCEPT ![r.to] = "Leader"]
          /\ matchIndex' = [matchIndex EXCEPT ![r.to] = [x \in Server |-> -1]]
      BY <2>1 DEF BecomeLeader
    <3> QED
      BY <1>0, <3>1
  <2> QED
    BY <1>3, <2>1 DEF HandleRequestVoteResponse, leadership
<1>4. ASSUME NEW r \in appendEntriesResponses, HandleAppendEntriesResponse(r)
      PROVE  matchIndex'[s] = matchIndex[s] \/ Notes(s)
  <2>1. CASE /\ r.reply.Success
             /\ matchIndex' = [matchIndex EXCEPT ![r.to][r.server] = r.lastLogIndex]
    <3>1. CASE r.to = s
      <4>1. matchIndex'[s] = [matchIndex[s] EXCEPT ![r.server] = r.lastLogIndex]
        BY <1>0, <2>1, <3>1
      <4> QED
        BY <1>4, <2>1, <3>1, <4>1 DEF Notes
    <3>2. CASE r.to # s
      BY <1>0, <2>1, <3>2
    <3> QED
      BY <3>1, <3>2
  <2> QED
    BY <1>4, <2>1 DEF HandleAppendEntriesResponse, leadership
<1>5. \/ \E q \in Server, c \in Command : Start(q, c)
      \/ \E q \in Server : Restart(q)
      \/ \E r \in requestVoteResponses : HandleRequestVoteResponse(r)
      \/ \E r \in appendEntriesResponses : HandleAppendEntriesResponse(r)
      \/ UNCHANGED matchIndex
  BY DEF Next, ServerStep, MessageStep, BecomeCandidate, Heartbeat, IdleTick, Crash,
         CrashAfterBecomeFollower, CrashInWriteFile, Kill, HandleRequestVote,
         HandleAppendEntries, RejectOutdatedAppendEntries, Retry, CallFails, EmptyAnswer,
         leadership
<1> QED
  BY <1>1, <1>2, <1>3, <1>4, <1>5

LEMMA AwaitedMatchesStep ==
  ASSUME TornWrites = FALSE, SharedArrays = FALSE, TwoElections, CampaignsMade',
         NEW L, NEW A, NEW M, NEW B, Known(L, A), Step(L, A, M, B), Known(M, B)',
         AwaitedMatches(A)
  PROVE  AwaitedMatches(B)'
<1>0. /\ TypeInv /\ TypeInv' /\ Next /\ OnlyLeadersWait /\ SuccessesAreAcks(A) /\ A \subseteq B
      /\ LeaderLogs(L) /\ elected \subseteq elected' /\ OnlyLeadersWait' /\ MatchesAreAcks(B)'
      /\ ElectedOnce' /\ LeaderLogs(M)'
  BY ElectedGrows DEF Known, Step, CommitInv
<1>a. \A e \in elected' : <<e[2], e[1]>> \in Campaigns
  BY DEF CampaignsMade
<1> SUFFICES ASSUME NEW s \in Server, NEW p \in Server, NEW t \in Nat, Awaits(s, t)',
                    matchIndex'[s][p] # -1
             PROVE  <<p, t, matchIndex'[s][p] + 1>> \in B
  BY DEF AwaitedMatches, Awaits
<1>1. <<t, s>> \in elected' /\ Waits(s, t)'
  BY <1>0 DEF Awaits, OnlyLeadersWait, LeaderLogs
<1>2. status'[s] = "up"
  BY <1>1 DEF Waits
<1>3. CASE serverState'[s] = "Leader"
  <2>1. <<currentTerm'[s], s>> \in elected'
    BY <1>0, <1>2, <1>3 DEF ElectedOnce
  <2>2. t = currentTerm'[s]
    BY <1>1, <1>a, <2>1, LeadsOnce
  <2> QED
    BY <1>0, <1>2, <1>3, <2>2 DEF MatchesAreAcks
<1>4. CASE serverState'[s] # "Leader"
  <2>1. Awaits(s, t)
    <3>1. ASSUME NEW q \in appendEntriesRequests', q.waiting, q.from = s, q.args.Term = t
          PROVE  Awaits(s, t)
      <4>1. ~\E x \in Server : NewCall(q, x)
        BY <1>4, <3>1 DEF NewCall
      <4>2. PICK r \in appendEntriesRequests : SameCall(q, r)
        BY <1>0, <4>1, CallSteps DEF CallStep
      <4> QED
        BY <3>1, <4>2 DEF SameCall, Awaits
    <3>2. ASSUME NEW q \in appendEntriesResponses', q.reply.Success, q.to = s,
                 q.reply.Term = t
          PROVE  Awaits(s, t)
      <4>1. q.reply.Success = TRUE
        BY <1>0, <3>2 DEF TypeInv, TypeOK, AppendEntriesResponse
      <4>2. CASE OldAnswer(q)
        BY <3>2, <4>2 DEF OldAnswer, Awaits
      <4>3. CASE NewAnswer(q)
        BY <3>2, <4>3 DEF NewAnswer, Awaits
      <4> QED
        BY <1>0, <4>1, <4>2, <4>3, AnswerSteps
    <3> QED
      BY <3>1, <3>2 DEF Awaits
  <2>2. CASE matchIndex'[s] = matchIndex[s]
    BY <1>0, <2>1, <2>2 DEF AwaitedMatches
  <2>3. ~Restart(s)
    <3>1. Waits(s, t)
      BY <1>0, <2>1 DEF Awaits, OnlyLeadersWait
    <3> QED
      BY <3>1 DEF Waits, Restart
  <2>4. ASSUME NEW r \in appendEntriesResponses, r.reply.Success, r.to = s,
               matchIndex'[s] = [matchIndex[s] EXCEPT ![r.server] = r.lastLogIndex]
        PROVE  <<p, t, matchIndex'[s][p] + 1>> \in B
    <3>1. <<r.reply.Term, s>> \in elected'
      BY <1>0, <2>4 DEF OnlyLeadersWait
    <3>2. r.reply.Term = t
      BY <1>1, <1>a, <3>1, LeadsOnce
    <3>3. <<r.server, t, r.lastLogIndex + 1>> \in B
      BY <1>0, <2>4, <3>2 DEF SuccessesAreAcks
    <3>4. matchIndex[s] \in [Server -> Index]
      BY <1>0 DEF TypeInv, TypeOK
    <3>5. CASE p = r.server
      BY <2>4, <3>3, <3>4, <3>5
    <3>6. CASE p # r.server
      <4>1. matchIndex'[s][p] = matchIndex[s][p]
        BY <2>4, <3>4, <3>6
      <4> QED
        BY <1>0, <2>1, <4>1 DEF AwaitedMatches
    <3> QED
      BY <3>5, <3>6
  <2> QED
    BY <1>0, <2>2, <2>3, <2>4, <1>4, MatchMoves DEF Notes
<1> QED
  BY <1>3, <1>4

-----------------------------------------------------------------------------
(***************************************************************************)
(* A success is counted in its own term                                     *)
(***************************************************************************)

\* Of three terms with a leader two are one.
LEMMA TwoTerms ==
  ASSUME TwoElections, CampaignsMade, NEW e \in elected, NEW f \in elected,
         NEW g \in elected
  PROVE  e[1] = f[1] \/ f[1] = g[1] \/ e[1] = g[1]
<1>1. PICK t \in Nat, u \in Nat : \A c \in Campaigns : c[2] \in {t, u}
  BY DEF TwoElections
<1>2. \A x \in elected : x[1] \in {t, u}
  <2>1. ASSUME NEW x \in elected PROVE x[1] \in {t, u}
    <3>1. <<x[2], x[1]>> \in Campaigns
      BY DEF CampaignsMade
    <3>2. <<x[2], x[1]>>[2] = x[1]
      OBVIOUS
    <3> QED
      BY <1>1, <3>1, <3>2
  <2> QED
    BY <2>1
<1>3. e[1] \in {t, u} /\ f[1] \in {t, u} /\ g[1] \in {t, u}
  BY <1>2
<1> QED
  BY <1>3

\* A leader of an earlier term that takes a success as a follower finds no entry of
\* its own term where the majority has one of that leader's: the later leader has
\* that one too.
LEMMA NothingToCommit ==
  ASSUME TwoElections, CampaignsMade, NEW L, NEW A, Known(L, A),
         NEW s \in Server, NEW t \in Nat, NEW v \in Nat, NEW k \in Nat,
         <<t, s>> \in elected, t < v, k < Len(log[s]), log[s][k + 1].Term = v,
         NEW match \in [Server -> Index], IsMajority({p \in Server : match[p] >= k}),
         \A p \in Server : match[p] = -1 \/ <<p, t, match[p] + 1>> \in A
  PROVE  FALSE
<1>0. /\ TypeInv /\ LeaderLogs(L) /\ L \in [Nat -> Seq(Entry)]
      /\ AcksWithinLogs(L, A) /\ LeadersComplete(L, A)
  BY DEF Known, CommitInv
<1> DEFINE n == k + 1
<1>1. /\ Len(log[s]) \in Nat /\ n \in 1 .. Len(log[s]) /\ n \in Nat
      /\ Len(L[t]) \in Nat /\ Len(L[v]) \in Nat
  <2>1. Len(log[s]) \in Nat
    BY <1>0, TermsTyped
  <2>2. L[t] \in Seq(Entry) /\ L[v] \in Seq(Entry)
    BY <1>0
  <2>3. Len(L[t]) \in Nat /\ Len(L[v]) \in Nat
    BY <2>2, EntriesTyped
  <2> QED
    BY <2>1, <2>3
<1>2. Shares(log[s], L[v], n)
  BY <1>0, <1>1 DEF LeaderLogs, Fits
<1>3. n <= Len(L[v]) /\ L[v][n].Term = v /\ L[v] # << >>
  BY <1>1, <1>2 DEF Shares
<1>4. PICK e \in elected : e[1] = v
  BY <1>0, <1>3 DEF LeaderLogs
<1>5. ASSUME NEW p \in Server, match[p] >= k
      PROVE  Acked(A, p, t, n) /\ n <= Len(L[t])
  <2>1. match[p] \in Int /\ match[p] # -1 /\ match[p] + 1 \in Nat /\ match[p] + 1 >= n
    BY <1>5 DEF Index
  <2>2. <<p, t, match[p] + 1>> \in A
    BY <2>1
  <2>3. match[p] + 1 <= Len(L[t])
    BY <1>0, <2>1, <2>2 DEF AcksWithinLogs
  <2> QED
    BY <1>1, <2>1, <2>2, <2>3 DEF Acked
<1>6. PICK p \in Server : match[p] >= k
  BY MajoritiesMeet
<1>7. n \in 1 .. Len(L[t])
  BY <1>1, <1>5, <1>6
<1>8. PICK x \in Nat : x = L[t][n].Term
  BY <1>0, <1>7, EntriesTyped
<1>9. x <= t
  BY <1>0, <1>7, <1>8 DEF LeaderLogs, UpToTerm
<1>10. PICK f \in elected : f[1] = x
  <2>1. Shares(L[t], L[x], n)
    BY <1>0, <1>7, <1>8 DEF LeaderLogs, Fits
  <2>2. L[x] # << >>
    <3>1. n <= Len(L[x]) /\ n > 0 /\ Len(L[x]) \in Nat
      BY <1>0, <1>1, <2>1, EntriesTyped DEF Shares
    <3> QED
      BY <3>1
  <2> QED
    BY <1>0, <2>2 DEF LeaderLogs
<1>11. x = t
  <2>1. PICK g \in elected : g[1] = t
    OBVIOUS
  <2>2. x = t \/ t = v \/ x = v
    BY <1>4, <1>10, <2>1, TwoTerms
  <2> QED
    BY <1>9, <2>2
<1>12. Chosen(L, A, t, n)
  <2>1. EntryOf(L, t, n)
    BY <1>7, <1>8, <1>11 DEF EntryOf
  <2> QED
    BY <1>5, <2>1 DEF Chosen
<1>13. ~Dead(A, t, n)
  BY <1>12, ChosenNotDead
<1>14. Shares(L[v], L[t], n)
  BY <1>0, <1>1, <1>4, <1>12, <1>13 DEF LeadersComplete, Chosen
<1>15. L[v][n] = L[t][n]
  BY <1>1, <1>14 DEF Shares
<1>16. L[v][n].Term = L[t][n].Term
  BY <1>15
<1>17. v = t
  BY <1>3, <1>8, <1>11, <1>16
<1> QED
  BY <1>17

LEMMA AnswersCount ==
  ASSUME TwoElections, CampaignsMade, NEW L, NEW A, Known(L, A), AwaitedMatches(A), Next
  PROVE  AnswerInTerm
<1> SUFFICES ASSUME NEW r \in appendEntriesResponses, HandleAppendEntriesResponse(r),
                    r.reply.Success, r.reply.Term # currentTerm[r.to]
             PROVE  serverState[r.to] # "Leader" /\ UNCHANGED application
  BY DEF AnswerInTerm
<1>0. /\ TypeInv /\ OnlyLeadersWait /\ SuccessesAreAcks(A) /\ ElectedOnce /\ DurableState
      /\ LeaderLogs(L)
  BY DEF Known, CommitInv, VotingInv
<1>1. /\ r \in AppendEntriesResponse /\ r.to \in Server /\ r.server \in Server
      /\ r.lastLogIndex \in Index /\ r.reply.Term \in Nat
  BY <1>0 DEF TypeInv, TypeOK, AppendEntriesResponse
<1>2. PICK s \in Server, t \in Nat, v \in Nat :
        s = r.to /\ t = r.reply.Term /\ v = currentTerm[s]
  BY <1>0, <1>1, TermsTyped
<1>3. <<t, s>> \in elected /\ status[s] = "up"
  BY <1>0, <1>2 DEF OnlyLeadersWait, Waits
<1>4. serverState[s] # "Leader"
  <2> SUFFICES ASSUME serverState[s] = "Leader" PROVE FALSE
    OBVIOUS
  <2>1. <<v, s>> \in elected
    BY <1>0, <1>2, <1>3 DEF ElectedOnce
  <2>2. \A e \in elected : <<e[2], e[1]>> \in Campaigns
    BY DEF CampaignsMade
  <2>3. t = v
    BY <1>3, <2>1, <2>2, LeadsOnce
  <2> QED
    BY <1>2, <2>3
<1>5. t < v
  <2>1. stateFile[s].CurrentTerm = v
    BY <1>0, <1>2, <1>3, DurableFields
  <2>2. <<t, s>>[1] = t /\ <<t, s>>[2] = s
    OBVIOUS
  <2>3. t <= v
    BY <1>0, <1>3, <2>1, <2>2 DEF ElectedOnce
  <2> QED
    BY <1>2, <2>3
<1>6. UNCHANGED application
  <2> SUFFICES ASSUME ~UNCHANGED application PROVE FALSE
    OBVIOUS
  <2> DEFINE match == [matchIndex EXCEPT ![s][r.server] = r.lastLogIndex]
  <2>1. \E m \in {match[s][p] : p \in Server} :
          /\ IsMinMatch(match[s], m)
          /\ AdvancesCommit(s, m) /\ OfCurrentTerm(s, m) /\ ~(m >= Len(log[s]))
    BY <1>2 DEF HandleAppendEntriesResponse
  <2>2. matchIndex[s] \in [Server -> Index] /\ matchIndex \in [Server -> [Server -> Index]]
    BY <1>0 DEF TypeInv, TypeOK
  <2>3. match[s] = [matchIndex[s] EXCEPT ![r.server] = r.lastLogIndex]
    BY <1>1, <2>2
  <2> HIDE DEF match
  <2>4. match[s] \in [Server -> Index]
    BY <1>1, <2>2, <2>3
  <2>5. PICK k \in Index :
          /\ IsMinMatch(match[s], k)
          /\ AdvancesCommit(s, k) /\ OfCurrentTerm(s, k) /\ ~(k >= Len(log[s]))
    BY <2>1, <2>4
  <2>6. k \in Nat /\ k < Len(log[s])
    <3>1. commitIndex[s] \in Int /\ commitIndex[s] >= -1 /\ Len(log[s]) \in Nat
      BY <1>0, TermsTyped
    <3>2. k \in Int /\ k > commitIndex[s] /\ ~(k >= Len(log[s]))
      BY <2>5 DEF AdvancesCommit, Index
    <3> QED
      BY <3>1, <3>2
  <2>7. log[s][k + 1].Term = v
    BY <1>2, <2>5 DEF OfCurrentTerm
  <2>8. IsMajority({p \in Server : match[s][p] >= k})
    BY <2>5 DEF IsMinMatch
  <2>9. ASSUME NEW p \in Server
        PROVE  match[s][p] = -1 \/ <<p, t, match[s][p] + 1>> \in A
    <3>1. CASE p = r.server
      <4>1. <<r.server, t, r.lastLogIndex + 1>> \in A
        BY <1>0, <1>2 DEF SuccessesAreAcks
      <4> QED
        BY <1>1, <2>2, <2>3, <3>1, <4>1
    <3>2. CASE p # r.server
      <4>1. match[s][p] = matchIndex[s][p]
        BY <2>2, <2>3, <3>2
      <4>2. Awaits(s, t)
        BY <1>2 DEF Awaits
      <4> QED
        BY <4>1, <4>2 DEF AwaitedMatches
    <3> QED
      BY <3>1, <3>2
  <2> QED
    BY <1>3, <1>5, <2>4, <2>6, <2>7, <2>8, <2>9, NothingToCommit
<1> QED
  BY <1>2, <1>4, <1>6

-----------------------------------------------------------------------------
(***************************************************************************)
(* The whole invariant                                                      *)
(***************************************************************************)

InOrder == \E L, A : Known(L, A) /\ InTurn(A)

LEMMA InOrderInit == ASSUME Init PROVE InOrder
<1>1. PICK L, A : Known(L, A)
  BY CommitInvInit
<1> DEFINE none == [t \in Nat |-> << >>]
<1>2. /\ appendEntriesRequests = {} /\ appendEntriesResponses = {} /\ elected = {}
      /\ \A s \in Server : serverState[s] = "Follower"
  BY DEF Init
<1>3. CampaignsMade /\ OneCallAPeer /\ CallsReach /\ AwaitedMatches(A)
  BY <1>2 DEF CampaignsMade, OneCallAPeer, CallsReach, AwaitedMatches, Awaits
<1>4. FinitelyManyCalls
  BY <1>2, FS_EmptySet DEF FinitelyManyCalls
<1> QED
  BY <1>1, <1>3, <1>4 DEF InOrder, InTurn

\* What is assumed of the use of the peers, and what TornWrites and SharedArrays
\* stand for: files are written whole, and a call carries the entries it was made
\* with.
WellUsed ==
  /\ TornWrites = FALSE /\ SharedArrays = FALSE
  /\ OneLeaderATerm /\ TwoElections /\ CallsInTurn

\* Every step from the invariant is one that KnownStep speaks of.
LEMMA InOrderStep ==
  ASSUME WellUsed, NEW L, NEW A, Known(L, A), InTurn(A), Next, ElectionSafety'
  PROVE  \E M, B : Step(L, A, M, B) /\ Known(M, B)' /\ InTurn(B)'
<1>0. /\ TornWrites = FALSE /\ SharedArrays = FALSE /\ TwoElections /\ CallsInTurn
      /\ TypeInv /\ DurableState /\ SavedLogs /\ ElectedOnce /\ ElectionSafety
      /\ L \in [Nat -> Seq(Entry)] /\ LeaderLogs(L) /\ Faults = {}
      /\ CampaignsMade /\ FinitelyManyCalls /\ OneCallAPeer /\ CallsReach
      /\ AwaitedMatches(A)
  BY DEF WellUsed, CallsInTurn, Known, VotingInv, InTurn
<1>1. CampaignsMade'
  BY <1>0, CampaignsMadeStep
<1>2. FinitelyManyCalls'
  BY <1>0, RequestsStayFinite, AnswersStayFinite DEF FinitelyManyCalls
<1>3. OneCallAPeer'
  BY <1>0, OneCallAPeerStep
<1>4. NothingCut
  BY <1>0, NothingIsCut
<1>5. AnswerInTerm
  BY <1>0, AnswersCount
<1>6. PICK M, B : Step(L, A, M, B) /\ Known(M, B)'
  BY <1>0, <1>4, <1>5, KnownStep
<1>7. TypeInv' /\ M \in [Nat -> Seq(Entry)] /\ LeaderLogs(M)'
  BY <1>6 DEF Step
<1>8. CallsReach'
  BY <1>0, <1>3, <1>7, CallsReachStep
<1>9. AwaitedMatches(B)'
  BY <1>0, <1>1, <1>6, AwaitedMatchesStep
<1> QED
  BY <1>1, <1>2, <1>3, <1>6, <1>8, <1>9 DEF InTurn

LEMMA InOrderKept ==
  ASSUME WellUsed, InOrder, ElectionSafety', [Next]_vars
  PROVE  InOrder'
<1>1. PICK L, A : Known(L, A) /\ InTurn(A)
  BY DEF InOrder
<1>2. CASE UNCHANGED vars
  <2>1. TypeInv' /\ VotingInv' /\ ElectionSafety'
    BY <1>1, <1>2
       DEF vars, memory, leadership, application, timers, voteCalls, appendCalls, Known,
           TypeInv, TypeOK, PrevTermFits, VotingInv, DurableState, CandidatesNameThemselves,
           SavedVotes, GrantsAreVotes, CountedVotesAreVotes, ElectedByMajority, IsMajority,
           ElectionSafety
  <2>2. ElectedOnce' /\ SavedLogs' /\ LeaderLogs(L)'
    BY <1>1, <1>2
       DEF vars, memory, appendCalls, Known, ElectedOnce, SavedLogs, LeaderLogs
  <2>3. /\ OnlyLeadersWait' /\ AcksWithinLogs(L, A)' /\ AcksOfTermHeld(L, A)'
        /\ AcksHeld(L, A)' /\ LeadersComplete(L, A)' /\ VotersKnowLess(L, A)'
        /\ RequestsTellLog'
    BY <1>1, <1>2
       DEF vars, memory, voteCalls, appendCalls, Known, CommitInv, OnlyLeadersWait, Waits,
           AcksWithinLogs, AcksOfTermHeld, AcksHeld, LeadersComplete, Dead,
           VotersKnowLess, RequestsTellLog
  <2>4. /\ SuccessesAreAcks(A)' /\ MatchesAreAcks(A)' /\ CommitsAreCommitted(L, A)'
        /\ CallsTellCommitted(L, A)' /\ CallsCover(L)' /\ AppliedIsChosen(L, A)'
        /\ \E N \in Nat : AppliedUpTo(N)'
    BY <1>1, <1>2
       DEF vars, memory, leadership, application, appendCalls, Known, CommitInv,
           SuccessesAreAcks, MatchesAreAcks, CommitsAreCommitted, CallsTellCommitted,
           Committed, Chosen, CallsCover, AppliedIsChosen, AppliedUpTo
  <2>5. Known(L, A)'
    BY <1>1, <2>1, <2>2, <2>3, <2>4 DEF Known, CommitInv
  <2>6. InTurn(A)'
    BY <1>1, <1>2
       DEF vars, memory, leadership, appendCalls, InTurn, CampaignsMade, FinitelyManyCalls,
           OneCallAPeer, CallsReach, AwaitedMatches, Awaits
  <2> QED
    BY <2>5, <2>6 DEF InOrder
<1>3. CASE Next
  <2>1. \E M, B : Step(L, A, M, B) /\ Known(M, B)' /\ InTurn(B)'
    BY <1>1, <1>3, InOrderStep
  <2> QED
    BY <2>1 DEF InOrder
<1> QED
  BY <1>2, <1>3

\* One leader a term, for either reason.
LEMMA OneLeader ==
  ASSUME TornWrites = FALSE, OneLeaderATerm
  PROVE  Spec => []ElectionSafety
<1>1. CASE DistinctNumbers
  BY <1>1, ElectionSafe
<1>2. CASE \A c, d \in Campaigns : c[2] = d[2] => c = d
  <2>1. Init => TypeInv /\ CampaignsMade
    BY TypeInvInit DEF Init, CampaignsMade
  <2>2. TypeInv /\ CampaignsMade /\ [Next]_vars => (TypeInv /\ CampaignsMade)'
    <3>1. TypeInv /\ CampaignsMade /\ Next => (TypeInv /\ CampaignsMade)'
      BY TypeInvStep, CampaignsMadeStep
    <3>2. TypeInv /\ CampaignsMade /\ UNCHANGED vars => (TypeInv /\ CampaignsMade)'
      BY DEF vars, memory, leadership, application, timers, voteCalls, appendCalls,
             TypeInv, TypeOK, PrevTermFits, CampaignsMade
    <3> QED
      BY <3>1, <3>2
  <2>3. CampaignsMade => ElectionSafety
    <3> SUFFICES ASSUME CampaignsMade, NEW e \in elected, NEW f \in elected, e[1] = f[1]
                 PROVE  e[2] = f[2]
      BY DEF ElectionSafety
    <3>1. <<e[2], e[1]>> \in Campaigns /\ <<f[2], f[1]>> \in Campaigns
      BY DEF CampaignsMade
    <3>2. <<e[2], e[1]>> = <<f[2], f[1]>>
      BY <1>2, <3>1
    <3> QED
      BY <3>2
  <2> QED
    BY <2>1, <2>2, <2>3, PTL DEF Spec
<1> QED
  BY <1>1, <1>2 DEF OneLeaderATerm

LEMMA InOrderAlways ==
  ASSUME WellUsed
  PROVE  Spec => []InOrder /\ []ElectionSafety
<1>1. Init => InOrder
  BY InOrderInit
<1>2. InOrder /\ ElectionSafety' /\ [Next]_vars => InOrder'
  BY InOrderKept
<1>3. Spec => []ElectionSafety
  BY OneLeader DEF WellUsed
<1> QED
  BY <1>1, <1>2, <1>3, PTL DEF Spec

-----------------------------------------------------------------------------
(***************************************************************************)
(* Theorems                                                                 *)
(***************************************************************************)

\* What a leader counts towards a majority (matchIndex, in
\* handleAppendEntriesResponse) is in the state file of a peer in its term, over
\* crashes between any two steps, restarts and a change of leader.
THEOREM MatchedAlwaysReplicated ==
  ASSUME TornWrites = FALSE, SharedArrays = FALSE,
         OneLeaderATerm, TwoElections, CallsInTurn
  PROVE  Spec => []MatchedIsReplicated
<1>1. InOrder => MatchedIsReplicated
  BY MatchedFromKnown DEF InOrder, CommittedInv
<1> QED
  BY <1>1, InOrderAlways, PTL DEF WellUsed

\* What any server has handed to its service (applyLogs) is in the state files of
\* a majority for ever, whoever is elected next and whoever crashes.
THEOREM AppliedStaysOnMajority ==
  ASSUME TornWrites = FALSE, SharedArrays = FALSE,
         OneLeaderATerm, TwoElections, CallsInTurn
  PROVE  Spec => []AppliedOnMajority
<1>1. InOrder => AppliedOnMajority
  BY AppliedFromKnown DEF InOrder, CommittedInv
<1> QED
  BY <1>1, InOrderAlways, PTL DEF WellUsed

\* No two servers, and no two lives of one, ever hand different commands to their
\* service at one index (applyLogs).
THEOREM AppliedAlwaysAgree ==
  ASSUME TornWrites = FALSE, SharedArrays = FALSE,
         OneLeaderATerm, TwoElections, CallsInTurn
  PROVE  Spec => []AppliedAgree
<1>1. InOrder => AppliedAgree
  BY AgreeFromKnown DEF InOrder, CommittedInv
<1> QED
  BY <1>1, InOrderAlways, PTL DEF WellUsed

\* A running process never takes back a commit, as leader or as follower
\* (handleAppendEntriesResponse, handleAppendEntries).
THEOREM CommitsNeverRegress ==
  ASSUME TornWrites = FALSE, SharedArrays = FALSE,
         OneLeaderATerm, TwoElections, CallsInTurn
  PROVE  Spec => CommitNeverRegresses
<1> DEFINE NoneTaken == \A s \in Server : status[s] = "up" => commitIndex'[s] >= commitIndex[s]
<1>1. ASSUME NEW L, NEW A, NEW M, NEW B, Known(L, A), Step(L, A, M, B), NEW p \in Server,
             status[p] = "up"
      PROVE  commitIndex'[p] >= commitIndex[p]
  <2>0. TypeInv /\ CommitsAreCommitted(L, A) /\ commitIndex[p] \in Int
    BY <1>1, ApplicationTyped DEF Known, CommitInv
  <2>1. CASE UNCHANGED application
    BY <2>0, <2>1 DEF application
  <2>2. ASSUME NEW s \in Server, Restart(s)
        PROVE  commitIndex'[p] >= commitIndex[p]
    <3>1. p # s /\ commitIndex' = [commitIndex EXCEPT ![s] = -1]
      BY <1>1, <2>2 DEF Restart
    <3> QED
      BY <2>0, <3>1, ApplicationTyped
  <2>3. ASSUME NEW s \in Server, NEW k \in Nat, CommitsAt(M, B, s, k)
        PROVE  commitIndex'[p] >= commitIndex[p]
    <3>1. /\ k > commitIndex[s] /\ commitIndex'[s] = k
          /\ p # s => commitIndex'[p] = commitIndex[p]
      BY <2>0, <2>3, CommitMoves DEF CommitsAt, CommitsAreCommitted
    <3> QED
      BY <2>0, <3>1
  <2> QED
    BY <1>1, <2>1, <2>2, <2>3, CommitSteps
<1>2. InOrder /\ Next /\ ElectionSafety' => NoneTaken
  <2> SUFFICES ASSUME InOrder, Next, ElectionSafety', NEW p \in Server, status[p] = "up"
               PROVE  commitIndex'[p] >= commitIndex[p]
    OBVIOUS
  <2>1. PICK L, A : Known(L, A) /\ InTurn(A)
    BY DEF InOrder
  <2>2. PICK M, B : Step(L, A, M, B)
    BY <2>1, InOrderStep DEF WellUsed
  <2> QED
    BY <1>1, <2>1, <2>2
<1>3. InOrder /\ ElectionSafety' /\ [Next]_vars => [NoneTaken]_vars
  BY <1>2
<1>4. Spec => []InOrder /\ []ElectionSafety
  BY InOrderAlways DEF WellUsed
<1> QED
  BY <1>3, <1>4, PTL DEF Spec, CommitNeverRegresses

\* The peers implement the replicated log that the service relies on: each
\* handler that applies entries goes one step along it.
THEOREM ReplicatedLogImplemented ==
  ASSUME TornWrites = FALSE, SharedArrays = FALSE,
         OneLeaderATerm, TwoElections, CallsInTurn
  PROVE  Spec => ImplementsReplicatedLog
<1>1. Init => Service!Init
  BY ServiceInit
<1>2. ASSUME InOrder, ElectionSafety', AppliedAgree', [Next]_vars
      PROVE  [Service!Next]_(Service!vars)
  <2>1. CASE UNCHANGED vars
    BY <2>1 DEF vars, application, AgreedLog, Service!vars
  <2>2. CASE Next
    <3>1. PICK L, A : Known(L, A) /\ InTurn(A)
      BY <1>2 DEF InOrder
    <3>2. PICK M, B : Step(L, A, M, B) /\ Known(M, B)'
      BY <1>2, <2>2, <3>1, InOrderStep DEF WellUsed
    <3> QED
      BY <1>2, <3>1, <3>2, ServiceStep
  <2> QED
    BY <1>2, <2>1, <2>2
<1>3. InOrder /\ ElectionSafety' /\ AppliedAgree' /\ [Next]_vars
        => [Service!Next]_(Service!vars)
  BY <1>2
<1>4. Spec => []AppliedAgree
  BY AppliedAlwaysAgree
<1>5. Spec => []InOrder /\ []ElectionSafety
  BY InOrderAlways DEF WellUsed
<1>6. Spec => Service!Init /\ [][Service!Next]_(Service!vars)
  BY <1>1, <1>3, <1>4, <1>5, PTL DEF Spec
<1> QED
  BY <1>6 DEF ImplementsReplicatedLog, Service!Spec

=============================================================================
