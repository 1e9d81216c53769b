-------------------------------- MODULE Raft --------------------------------
(***************************************************************************)
(* The consensus peer of raft/raft.go: a cluster of Raft processes, each a  *)
(* single loop (Run) that takes one event at a time, and the RPC goroutines *)
(* that carry RequestVote and AppendEntries between them.  A handler runs   *)
(* to its end before the loop takes the next event, so a handler is one     *)
(* action; everything else (goroutines, network, interceptor, crashes)      *)
(* interleaves with it.                                                     *)
(*                                                                          *)
(* A peer is known to the others by a number only: CandidateId and votedFor *)
(* are numbers.  MakeRaft asks for peer lists in the same order on every    *)
(* server, which makes the numbers distinct; doRaft puts every server last  *)
(* in its own list, which makes them equal.  Me says which it is.           *)
(*                                                                          *)
(* Log indexes are the 0-based indexes of the code, -1 standing for "none"; *)
(* index i of the code is position i + 1 of the TLA+ sequence.              *)
(***************************************************************************)
EXTENDS Integers, Sequences, FiniteSets

CONSTANTS
  Server,      \* the peers of the cluster
  Me,          \* Me[s]: the number s goes by among its peers (rf.me)
  Command      \* the commands clients submit

(***************************************************************************)
(* The environment.  Each of these only limits which steps are explored:    *)
(* with all pairs in Campaigns, Heartbeats and Crashes, all triples in      *)
(* Clients, Nat for the sets of counts and all servers in IdleTicks the     *)
(* system is unrestricted, and that is covered by the theorems.             *)
(***************************************************************************)
CONSTANTS
  Campaigns,    \* <<s, t>>: the election timer of s may take it to term t
  Heartbeats,   \* <<s, t>>: the heartbeat timer of s may expire in term t
  Clients,      \* <<s, t, c>>: c may be submitted to s as leader of term t
  LogLengths,   \* the lengths a leader's Start may bring its log to
  VoteLinks,    \* <<s, p>>: a RequestVote of s is able to reach p
  AppendLinks,  \* <<s, p>>: an AppendEntries of s is able to reach p
  Outstanding,  \* how many AppendEntries calls to a peer it can reach may be
                \*   open when the leader makes the next one
  Crashes,      \* <<s, n>>: the n-th mishap may be that s is killed
  Faults,       \* n: the n-th mishap may be that an RPC attempt fails
  TornWrites,   \* whether a process may be killed inside ioutil.WriteFile
  SharedArrays, \* whether an entries slice may be read (by the goroutine that
                \*   encodes it) after its backing array has been overwritten
  IdleTicks     \* the servers on which a timer without a use is seen to expire

ASSUME ServerAssumption == IsFiniteSet(Server) /\ Me \in [Server -> Nat]

ASSUME EnvironmentAssumption ==
  /\ Campaigns \cup Heartbeats \subseteq Server \X Nat
  /\ Clients \subseteq Server \X Nat \X Command
  /\ VoteLinks \cup AppendLinks \subseteq Server \X Server
  /\ Crashes \subseteq Server \X Nat
  /\ LogLengths \cup Outstanding \cup Faults \subseteq Nat
  /\ IdleTicks \subseteq Server
  /\ TornWrites \in BOOLEAN /\ SharedArrays \in BOOLEAN

VARIABLES
  \* the fields of struct Raft, by server
  currentTerm, votedFor, log,
  commitIndex, lastApplied, nextIndex, matchIndex,
  serverState, receivedVote,
  electionTimer, heartbeatTimer,  \* TRUE while the timer is running
  \* the process and its state file
  status,                         \* "up", "killed" or "panicked"
  stateFile,                      \* what restoreState would decode
  \* RPC goroutines and their messages
  requestVoteRequests, requestVoteResponses,
  appendEntriesRequests, appendEntriesResponses,
  mishaps,                        \* processes killed and RPC attempts failed
  \* history: what the processes have told the outside world so far
  votes,                          \* every vote made durable
  elected,                        \* every <<term, leader>>
  applied                         \* every ApplyMsg handed to a service

memory == <<currentTerm, votedFor, log>>
leadership == <<nextIndex, matchIndex>>
application == <<commitIndex, lastApplied, applied>>
timers == <<electionTimer, heartbeatTimer>>
voteCalls == <<requestVoteRequests, requestVoteResponses>>
appendCalls == <<appendEntriesRequests, appendEntriesResponses>>

vars == <<memory, leadership, application, serverState, receivedVote, timers,
          status, stateFile, voteCalls, appendCalls, mishaps, votes, elected>>

-----------------------------------------------------------------------------
(***************************************************************************)
(* Values                                                                   *)
(***************************************************************************)
Index == Nat \cup {-1}

Nobody == -1

Entry == [Term : Nat, Command : Command]

RaftPersistentData ==
  [CurrentTerm : Nat, VotedFor : Nat \cup {Nobody}, Log : Seq(Entry)]

\* What a file that is missing, empty or cut short decodes to.
DefaultState == [CurrentTerm |-> 0, VotedFor |-> Nobody, Log |-> << >>]

RequestVoteArgs ==
  [Term : Nat, CandidateId : Nat, LastLogIndex : Index, LastLogTerm : Index]

AppendEntriesArgs ==
  [Term : Nat, PrevLogIndex : Index, PrevLogTerm : Index, Entries : Seq(Entry),
   LeaderCommit : Index]

\* A request is on its way to a peer; "waiting" says that a goroutine of the
\* sender is still inside Call for it.  A copy nobody waits for is an attempt
\* given up, or one whose sender is gone: the peer may still come to read it.
RequestVoteRequest ==
  [from : Server, to : Server, args : RequestVoteArgs, waiting : BOOLEAN]

AppendEntriesRequest ==
  [from : Server, to : Server, args : AppendEntriesArgs, lastLogIndex : Index,
   waiting : BOOLEAN]

RequestVoteResponse ==
  [to : Server, server : Server, args : RequestVoteArgs,
   reply : [Term : Nat, VoteGranted : BOOLEAN]]

AppendEntriesResponse ==
  [to : Server, server : Server, lastLogIndex : Index,
   reply : [Term : Nat, Success : BOOLEAN]]

LastLogIndex(l) == Len(l) - 1

LastLogTerm(l) == IF Len(l) > 0 THEN l[Len(l)].Term ELSE -1

MinInt(x, y) == IF x < y THEN x ELSE y

MaxInt(x, y) == IF x > y THEN x ELSE y

-----------------------------------------------------------------------------
(***************************************************************************)
(* Deliberately wrong variants of definitions below, one plausible slip     *)
(* each.  No action uses them: they are what the properties must refute.    *)
(***************************************************************************)

\* persist() called before the vote, the term or the log is assigned
PersistBeforeVote(s) ==
  stateFile' = [stateFile EXCEPT ![s] = [CurrentTerm |-> currentTerm'[s],
                                         VotedFor |-> votedFor[s],
                                         Log |-> log'[s]]]

PersistBeforeTerm(s) ==
  stateFile' = [stateFile EXCEPT ![s] = [CurrentTerm |-> currentTerm[s],
                                         VotedFor |-> votedFor'[s],
                                         Log |-> log'[s]]]

PersistBeforeLog(s) ==
  stateFile' = [stateFile EXCEPT ![s] = [CurrentTerm |-> currentTerm'[s],
                                         VotedFor |-> votedFor'[s],
                                         Log |-> log[s]]]

\* becomeFollower without ResetElectionTimer, or without the new serverState
BecomeFollowerWithoutTimer(s, term, keepVotedFor) ==
  /\ serverState' = [serverState EXCEPT ![s] = "Follower"]
  /\ currentTerm' = [currentTerm EXCEPT ![s] = term]
  /\ votedFor' = [votedFor EXCEPT ![s] = IF keepVotedFor THEN @ ELSE Nobody]
  /\ UNCHANGED electionTimer

BecomeFollowerAsLeader(s, term, keepVotedFor) ==
  /\ UNCHANGED serverState
  /\ currentTerm' = [currentTerm EXCEPT ![s] = term]
  /\ votedFor' = [votedFor EXCEPT ![s] = IF keepVotedFor THEN @ ELSE Nobody]
  /\ electionTimer' = [electionTimer EXCEPT ![s] = TRUE]

\* a commit index taken over whether it is ahead or behind
AdvancesCommitEitherWay(s, commit) == commit # commitIndex[s]

\* a voter that does not look at the candidate's log, or at its own vote
MoreCompleteNever(s, args) == FALSE

MayVoteAgain(vote, args) == TRUE

\* a candidate that counts grants of any term
CountsAnyGrant(s, reply) == reply.VoteGranted

\* a follower that appends to all it has
TrimmedNever(l, args) == l

\* a leader that keeps offering the same entry, or steps below 0
BackedUpNever(next) == next

BackedUpBelowZero(next) == next - 1

-----------------------------------------------------------------------------
(***************************************************************************)
(* Pieces of handlers                                                       *)
(***************************************************************************)

\* votes > len(rf.peers)/2, and the same test on counted.
IsMajority(Q) == 2 * Cardinality(Q) > Cardinality(Server)

\* persist(): the file is replaced by the fields as the handler leaves them.
Persist(s) ==
  stateFile' = [stateFile EXCEPT ![s] = [CurrentTerm |-> currentTerm'[s],
                                         VotedFor |-> votedFor'[s],
                                         Log |-> log'[s]]]

\* becomeFollower, but for its persist(), which sees what the handler does to
\* votedFor and log afterwards.
BecomeFollower(s, term, keepVotedFor) ==
  /\ serverState' = [serverState EXCEPT ![s] = "Follower"]
  /\ currentTerm' = [currentTerm EXCEPT ![s] = term]
  /\ votedFor' = [votedFor EXCEPT ![s] = IF keepVotedFor THEN @ ELSE Nobody]
  /\ electionTimer' = [electionTimer EXCEPT ![s] = TRUE]

\* The calls sendAppendEntriesToAll makes from log l with next indexes next.
\* Every call carries the log from next[p] to its end.
AppendEntriesToAll(s, l, next) ==
  { [from |-> s, to |-> p,
     args |-> [Term |-> currentTerm[s],
               PrevLogIndex |-> next[p] - 1,
               PrevLogTerm |-> IF next[p] > 0 THEN l[next[p]].Term ELSE -1,
               Entries |-> SubSeq(l, next[p] + 1, Len(l)),
               LeaderCommit |-> commitIndex[s]],
     lastLogIndex |-> LastLogIndex(l),
     waiting |-> TRUE] : p \in Server \ {s} }

\* rf.log[prevLogIndex] and rf.log[nextIndex:] stay inside the log.
NextIndexesFit(s, l) == \A p \in Server \ {s} : nextIndex[s][p] <= Len(l)

\* Calls of s to p whose goroutine has not yet delivered its response.
OpenCalls(s, p) ==
  { r \in appendEntriesRequests : r.from = s /\ r.to = p /\ r.waiting }
  \cup { r \in appendEntriesResponses : r.to = s /\ r.server = p }

MayCall(s) ==
  \A p \in Server \ {s} :
    <<s, p>> \in AppendLinks => Cardinality(OpenCalls(s, p)) \in Outstanding

AdvancesCommit(s, commit) == commit > commitIndex[s]

\* commitIndex = commit; applyLogs().
CommitAndApply(s, commit, l) ==
  /\ commitIndex' = [commitIndex EXCEPT ![s] = commit]
  /\ lastApplied' = [lastApplied EXCEPT ![s] = MaxInt(@, commit)]
  /\ applied' = applied \cup
       { [Index |-> i + 1, Command |-> l[i + 1].Command]
           : i \in (lastApplied[s] + 1) .. commit }

\* The entries of a call are a slice of its sender's log.  When the sender's
\* log becomes l in the same backing array, the slice shows l wherever l
\* reaches, and what was there before beyond it.
Reread(r, l) ==
  [r EXCEPT !.args.Entries =
     [i \in 1 .. Len(@) |-> IF r.args.PrevLogIndex + 1 + i <= Len(l)
                              THEN l[r.args.PrevLogIndex + 1 + i] ELSE @[i]]]

\* Calls of s that may yet be encoded, for the first time or for a retry.
Unencoded(s) ==
  { r \in appendEntriesRequests :
      SharedArrays /\ r.from = s /\ r.waiting }

\* The requests in flight once those in raced see the log l.
AfterRace(raced, l) ==
  (appendEntriesRequests \ raced) \cup { Reread(r, l) : r \in raced }

Abandoned(r) == [r EXCEPT !.waiting = FALSE]

\* The process of s is gone: so are its goroutines and what they waited for.
Terminate(s, how) ==
  /\ status' = [status EXCEPT ![s] = how]
  /\ requestVoteRequests' =
       { IF r.from = s THEN Abandoned(r) ELSE r
           : r \in requestVoteRequests }
  /\ requestVoteResponses' =
       { r \in requestVoteResponses : r.to # s }
  /\ appendEntriesRequests' =
       { IF r.from = s THEN Abandoned(r) ELSE r
           : r \in appendEntriesRequests }
  /\ appendEntriesResponses' = { r \in appendEntriesResponses : r.to # s }

\* sendAppendEntriesToAll, with log l and the requests already in flight.  It
\* indexes the log with nextIndex: the process dies when that is past the end.
SendAppendEntriesToAll(s, l, requests) ==
  IF NextIndexesFit(s, l)
    THEN /\ MayCall(s)
         /\ heartbeatTimer' = [heartbeatTimer EXCEPT ![s] = TRUE]
         /\ appendEntriesRequests' =
              requests \cup AppendEntriesToAll(s, l, nextIndex[s])
         /\ UNCHANGED <<status, voteCalls, appendEntriesResponses>>
    ELSE /\ Terminate(s, "panicked")
         /\ UNCHANGED heartbeatTimer

-----------------------------------------------------------------------------
(***************************************************************************)
(* MakeRaft on a machine that has no state file yet                         *)
(***************************************************************************)
Init ==
  /\ currentTerm = [s \in Server |-> 0]
  /\ votedFor = [s \in Server |-> Nobody]
  /\ log = [s \in Server |-> << >>]
  /\ commitIndex = [s \in Server |-> -1]
  /\ lastApplied = [s \in Server |-> -1]
  /\ nextIndex = [s \in Server |-> [p \in Server |-> 0]]
  /\ matchIndex = [s \in Server |-> [p \in Server |-> 0]]
  /\ serverState = [s \in Server |-> "Follower"]
  /\ receivedVote = [s \in Server |-> {}]
  /\ electionTimer = [s \in Server |-> TRUE]
  /\ heartbeatTimer = [s \in Server |-> TRUE]
  /\ status = [s \in Server |-> "up"]
  /\ stateFile = [s \in Server |-> DefaultState]
  /\ requestVoteRequests = {} /\ requestVoteResponses = {}
  /\ appendEntriesRequests = {} /\ appendEntriesResponses = {}
  /\ mishaps = 0
  /\ votes = {} /\ elected = {} /\ applied = {}

-----------------------------------------------------------------------------
(***************************************************************************)
(* Run(): the timer cases                                                   *)
(***************************************************************************)

\* case <-electionTimer.C, on a server that is not leader: becomeCandidate.
BecomeCandidate(s) ==
  LET args == [Term |-> currentTerm[s] + 1, CandidateId |-> Me[s],
               LastLogIndex |-> LastLogIndex(log[s]),
               LastLogTerm |-> LastLogTerm(log[s])]
  IN
  /\ status[s] = "up" /\ electionTimer[s] /\ serverState[s] # "Leader"
  /\ <<s, args.Term>> \in Campaigns
  /\ serverState' = [serverState EXCEPT ![s] = "Candidate"]
  /\ currentTerm' = [currentTerm EXCEPT ![s] = args.Term]
  /\ electionTimer' = [electionTimer EXCEPT ![s] = TRUE]
  /\ votedFor' = [votedFor EXCEPT ![s] = Me[s]]
  /\ UNCHANGED log
  /\ Persist(s)
  /\ receivedVote' = [receivedVote EXCEPT ![s] = {s}]
  /\ requestVoteRequests' = requestVoteRequests \cup
       { [from |-> s, to |-> p, args |-> args, waiting |-> TRUE]
           : p \in Server \ {s} }
  /\ votes' = votes \cup {[voter |-> s, Term |-> args.Term, candidate |-> s]}
  /\ UNCHANGED <<leadership, application, heartbeatTimer, status,
                 requestVoteResponses, appendCalls, mishaps, elected>>

\* case <-heartbeatTimer.C, on the leader.
Heartbeat(s) ==
  /\ status[s] = "up" /\ heartbeatTimer[s] /\ serverState[s] = "Leader"
  /\ <<s, currentTerm[s]>> \in Heartbeats
  /\ SendAppendEntriesToAll(s, log[s], appendEntriesRequests)
  /\ UNCHANGED <<memory, leadership, application, serverState, receivedVote,
                 electionTimer, stateFile, mishaps, votes, elected>>

\* Either timer, on a server it says nothing to: the case ends without a reset.
IdleTick(s) ==
  /\ s \in IdleTicks /\ status[s] = "up"
  /\ \/ /\ serverState[s] = "Leader" /\ electionTimer[s]
        /\ electionTimer' = [electionTimer EXCEPT ![s] = FALSE]
        /\ UNCHANGED heartbeatTimer
     \/ /\ serverState[s] # "Leader" /\ heartbeatTimer[s]
        /\ heartbeatTimer' = [heartbeatTimer EXCEPT ![s] = FALSE]
        /\ UNCHANGED electionTimer
  /\ UNCHANGED <<memory, leadership, application, serverState, receivedVote,
                 status, stateFile, voteCalls, appendCalls, mishaps, votes,
                 elected>>

-----------------------------------------------------------------------------
(***************************************************************************)
(* Run(): the RequestVote cases                                             *)
(***************************************************************************)
\* The log of s is more complete than the candidate's.
MoreComplete(s, args) ==
  \/ args.LastLogTerm < LastLogTerm(log[s])
  \/ /\ args.LastLogTerm = LastLogTerm(log[s])
     /\ args.LastLogIndex < LastLogIndex(log[s])

\* No vote in this term yet, or one for this candidate.
MayVote(vote, args) == vote \in {Nobody, args.CandidateId}

HandleRequestVote(r) ==
  LET s == r.to
      args == r.args
      newer == args.Term > currentTerm[s]
      term == IF newer THEN args.Term ELSE currentTerm[s]
      vote == IF newer THEN Nobody ELSE votedFor[s]
      granted == /\ ~MoreComplete(s, args)
                 /\ args.Term >= term
                 /\ MayVote(vote, args)
  IN
  /\ status[s] = "up" /\ <<r.from, s>> \in VoteLinks
  /\ currentTerm' = [currentTerm EXCEPT ![s] = term]
  /\ votedFor' = [votedFor EXCEPT ![s] = IF granted THEN args.CandidateId
                                                    ELSE vote]
  /\ serverState' = [serverState EXCEPT ![s] = IF newer THEN "Follower" ELSE @]
  /\ electionTimer' = [electionTimer EXCEPT ![s] = @ \/ newer]
  /\ UNCHANGED log
  /\ IF newer \/ granted THEN Persist(s) ELSE UNCHANGED stateFile
  /\ votes' = IF granted
                THEN votes \cup {[voter |-> s, Term |-> args.Term,
                                  candidate |-> r.from]}
                ELSE votes
  /\ requestVoteRequests' = requestVoteRequests \ {r}
  /\ requestVoteResponses' = requestVoteResponses \cup
       { [to |-> r.from, server |-> s, args |-> args,
          reply |-> [Term |-> term, VoteGranted |-> granted]]
           : x \in {y \in {r} : y.waiting} }
  /\ UNCHANGED <<leadership, application, receivedVote, heartbeatTimer, status,
                 appendCalls, mishaps, elected>>

\* becomeLeader, with the first round of AppendEntries.
BecomeLeader(s) ==
  LET next == [p \in Server |-> LastLogIndex(log[s]) + 1]
  IN
  /\ serverState' = [serverState EXCEPT ![s] = "Leader"]
  /\ nextIndex' = [nextIndex EXCEPT ![s] = next]
  /\ matchIndex' = [matchIndex EXCEPT ![s] = [p \in Server |-> -1]]
  /\ heartbeatTimer' = [heartbeatTimer EXCEPT ![s] = TRUE]
  /\ appendEntriesRequests' =
       appendEntriesRequests \cup AppendEntriesToAll(s, log[s], next)
  /\ elected' = elected \cup {<<currentTerm[s], s>>}

CountsAsVote(s, reply) == reply.Term = currentTerm[s] /\ reply.VoteGranted

\* case response := <-requestVoteResponses, for a call that got an answer.
HandleRequestVoteResponse(r) ==
  LET s == r.to
      newer == r.reply.Term > currentTerm[s]
      vote == /\ ~newer
              /\ serverState[s] = "Candidate"
              /\ CountsAsVote(s, r.reply)
      tally == receivedVote[s] \cup {r.server}
  IN
  /\ status[s] = "up"
  /\ requestVoteResponses' = requestVoteResponses \ {r}
  /\ \/ /\ newer
        /\ BecomeFollower(s, r.reply.Term, FALSE)
        /\ UNCHANGED log
        /\ Persist(s)
        /\ UNCHANGED <<receivedVote, leadership, heartbeatTimer,
                       appendEntriesRequests, elected>>
     \/ /\ vote
        /\ receivedVote' = [receivedVote EXCEPT ![s] = tally]
        /\ IF IsMajority(tally)
             THEN BecomeLeader(s)
             ELSE UNCHANGED <<serverState, leadership, heartbeatTimer,
                              appendEntriesRequests, elected>>
        /\ UNCHANGED <<memory, electionTimer, stateFile>>
     \/ /\ ~newer /\ ~vote
        /\ UNCHANGED <<memory, serverState, receivedVote, leadership, timers,
                       stateFile, appendEntriesRequests, elected>>
  /\ UNCHANGED <<application, status, requestVoteRequests,
                 appendEntriesResponses, mishaps, votes>>

-----------------------------------------------------------------------------
(***************************************************************************)
(* Run(): the AppendEntries cases                                           *)
(***************************************************************************)

\* The term the receiver compares with args.PrevLogTerm.  Index 0 is never
\* looked up (args.PrevLogIndex > 0): a call that starts at 1 is rejected.
PrevLogTermAt(s, i) ==
  IF i > 0 /\ i < Len(log[s]) THEN log[s][i + 1].Term ELSE -1

PrevEntryMatches(s, args) ==
  args.PrevLogTerm = PrevLogTermAt(s, args.PrevLogIndex)

\* rf.log[0:args.PrevLogIndex+1]
Trimmed(l, args) == SubSeq(l, 1, args.PrevLogIndex + 1)

AnswerAppendEntries(r, requests, term, success) ==
  /\ appendEntriesRequests' = requests \ {r}
  /\ appendEntriesResponses' = appendEntriesResponses \cup
       { [to |-> r.from, server |-> r.to,
          lastLogIndex |-> r.lastLogIndex,
          reply |-> [Term |-> term, Success |-> success]]
           : x \in {y \in {r} : y.waiting} }

\* A call from an earlier term is answered and changes nothing.
RejectOutdatedAppendEntries(r) ==
  /\ status[r.to] = "up" /\ <<r.from, r.to>> \in AppendLinks
  /\ r.args.Term < currentTerm[r.to]
  /\ AnswerAppendEntries(r, appendEntriesRequests, currentTerm[r.to], FALSE)
  /\ UNCHANGED <<memory, leadership, application, serverState, receivedVote,
                 timers, status, stateFile, voteCalls, mishaps, votes, elected>>

\* "assert we are not the Leader", once becomeFollower has returned
LeadsStill(s) == serverState'[s] = "Leader"

\* A call from the current or a later term.  When the previous entry matches,
\* the log is cut after it and the entries put there, whatever was there.
HandleAppendEntries(r) ==
  LET s == r.to
      args == r.args
      matches == ~LeadsStill(s) /\ PrevEntryMatches(s, args)
      appends == matches /\ Len(args.Entries) > 0
      newLog == IF appends THEN Trimmed(log[s], args) \o args.Entries ELSE log[s]
  IN
  /\ status[s] = "up" /\ <<r.from, s>> \in AppendLinks
  /\ args.Term >= currentTerm[s]
  /\ BecomeFollower(s, args.Term, args.Term = currentTerm[s])
  /\ log' = [log EXCEPT ![s] = newLog]
  /\ Persist(s)
  /\ IF matches /\ AdvancesCommit(s, args.LeaderCommit)
       THEN CommitAndApply(s, MinInt(args.LeaderCommit, LastLogIndex(newLog)),
                           newLog)
       ELSE UNCHANGED application
  /\ \E raced \in SUBSET {q \in Unencoded(s) : appends} :
       AnswerAppendEntries(r, AfterRace(raced, newLog), args.Term, matches)
  /\ UNCHANGED <<leadership, receivedVote, heartbeatTimer, status, voteCalls,
                 mishaps, votes, elected>>

OfCurrentTerm(s, i) == log[s][i + 1].Term = currentTerm[s]

\* The next index to try after a refusal.
BackedUp(next) == MaxInt(next - 1, 0)

\* m is where the walk down the match indexes passes the majority: the largest
\* one that a majority of the match indexes reaches.
IsMinMatch(match, m) ==
  LET Reaching(k) == {p \in Server : match[p] >= k}
  IN /\ IsMajority(Reaching(m))
     /\ \A p \in Server : match[p] > m => ~IsMajority(Reaching(match[p]))

\* case response := <-appendEntriesResponses, for a call that got an answer.
\* Neither the term of the call nor whether this server still leads is looked
\* at before nextIndex, matchIndex and commitIndex are changed.
HandleAppendEntriesResponse(r) ==
  LET s == r.to
      next == [nextIndex EXCEPT ![s][r.server] = r.lastLogIndex + 1]
      match == [matchIndex EXCEPT ![s][r.server] = r.lastLogIndex]
      responses == appendEntriesResponses \ {r}
      newer == r.reply.Term > currentTerm[s]
  IN
  /\ status[s] = "up"
  /\ \/ /\ r.reply.Success
        /\ \E minMatch \in {match[s][p] : p \in Server} :
             /\ IsMinMatch(match[s], minMatch)
             /\ IF AdvancesCommit(s, minMatch) /\ minMatch >= Len(log[s])
                  THEN /\ Terminate(s, "panicked")
                       /\ UNCHANGED <<leadership, application>>
                  ELSE /\ nextIndex' = next /\ matchIndex' = match
                       /\ appendEntriesResponses' = responses
                       /\ IF /\ AdvancesCommit(s, minMatch)
                             /\ OfCurrentTerm(s, minMatch)
                            THEN CommitAndApply(s, minMatch, log[s])
                            ELSE UNCHANGED application
                       /\ UNCHANGED <<status, voteCalls, appendEntriesRequests>>
        /\ UNCHANGED <<memory, serverState, electionTimer, stateFile>>
     \/ /\ ~r.reply.Success /\ newer
        /\ BecomeFollower(s, r.reply.Term, FALSE)
        /\ UNCHANGED log
        /\ Persist(s)
        /\ appendEntriesResponses' = responses
        /\ UNCHANGED <<leadership, application, status, voteCalls,
                       appendEntriesRequests>>
     \/ /\ ~r.reply.Success /\ ~newer
        /\ nextIndex' = [nextIndex EXCEPT ![s][r.server] = BackedUp(@)]
        /\ appendEntriesResponses' = responses
        /\ UNCHANGED <<memory, matchIndex, application, serverState,
                       electionTimer, status, stateFile, voteCalls,
                       appendEntriesRequests>>
  /\ UNCHANGED <<receivedVote, heartbeatTimer, mishaps, votes, elected>>

-----------------------------------------------------------------------------
(***************************************************************************)
(* Run(): case request := <-startRequests, on the leader.  On any other     *)
(* server the case answers isLeader = false and changes nothing.            *)
(***************************************************************************)
Start(s, c) ==
  LET newLog == Append(log[s], [Term |-> currentTerm[s], Command |-> c])
  IN
  /\ status[s] = "up" /\ serverState[s] = "Leader"
  /\ <<s, currentTerm[s], c>> \in Clients /\ Len(newLog) \in LogLengths
  /\ log' = [log EXCEPT ![s] = newLog]
  /\ matchIndex' = [matchIndex EXCEPT ![s][s] = LastLogIndex(newLog)]
  /\ UNCHANGED <<currentTerm, votedFor>>
  /\ Persist(s)
  /\ \E raced \in SUBSET Unencoded(s) :
       SendAppendEntriesToAll(s, newLog, AfterRace(raced, newLog))
  /\ UNCHANGED <<nextIndex, application, serverState, receivedVote,
                 electionTimer, mishaps, votes, elected>>

-----------------------------------------------------------------------------
(***************************************************************************)
(* UnreliableRpcClient.Call and the interceptor between two peers           *)
(***************************************************************************)
RpcFault == mishaps + 1 \in Faults /\ mishaps' = mishaps + 1

\* An attempt fails after the request was sent and Call tries again: there are
\* now two copies, of which the second one is waited for.
Retry ==
  /\ RpcFault
  /\ \/ \E r \in requestVoteRequests :
          /\ r.waiting
          /\ requestVoteRequests' = requestVoteRequests \cup {Abandoned(r)}
          /\ UNCHANGED appendEntriesRequests
     \/ \E r \in appendEntriesRequests :
          /\ r.waiting
          /\ appendEntriesRequests' = appendEntriesRequests \cup {Abandoned(r)}
          /\ UNCHANGED requestVoteRequests
  /\ UNCHANGED <<memory, leadership, application, serverState, receivedVote,
                 timers, status, stateFile, requestVoteResponses,
                 appendEntriesResponses, votes, elected>>

StillInElection(s, args) ==
  args.Term = currentTerm[s] /\ serverState[s] = "Candidate"

\* All attempts fail and Call returns false.  The loop makes the RequestVote
\* call again when the election is still on, and drops an AppendEntries call.
CallFails ==
  /\ RpcFault
  /\ \/ \E r \in requestVoteRequests :
          LET again == StillInElection(r.from, r.args)
          IN /\ r.waiting
             /\ requestVoteRequests' = (requestVoteRequests \ {r})
                  \cup {Abandoned(r)} \cup {q \in {r} : again}
             /\ UNCHANGED appendEntriesRequests
     \/ \E r \in appendEntriesRequests :
          /\ r.waiting
          /\ appendEntriesRequests' =
               (appendEntriesRequests \ {r}) \cup {Abandoned(r)}
          /\ UNCHANGED requestVoteRequests
  /\ UNCHANGED <<memory, leadership, application, serverState, receivedVote,
                 timers, status, stateFile, requestVoteResponses,
                 appendEntriesResponses, votes, elected>>

\* The interceptor cannot reach the peer and returns nil all the same, with the
\* zero reply: to the caller this is an answer, from term 0, that refuses.
EmptyAnswer ==
  /\ RpcFault
  /\ \/ \E r \in requestVoteRequests :
          /\ r.waiting
          /\ requestVoteRequests' =
               (requestVoteRequests \ {r}) \cup {Abandoned(r)}
          /\ requestVoteResponses' = requestVoteResponses \cup
               {[to |-> r.from, server |-> r.to, args |-> r.args,
                 reply |-> [Term |-> 0, VoteGranted |-> FALSE]]}
          /\ UNCHANGED appendCalls
     \/ \E r \in appendEntriesRequests :
          /\ r.waiting
          /\ appendEntriesRequests' =
               (appendEntriesRequests \ {r}) \cup {Abandoned(r)}
          /\ appendEntriesResponses' = appendEntriesResponses \cup
               {[to |-> r.from, server |-> r.to,
                 lastLogIndex |-> r.lastLogIndex,
                 reply |-> [Term |-> 0, Success |-> FALSE]]}
          /\ UNCHANGED voteCalls
  /\ UNCHANGED <<memory, leadership, application, serverState, receivedVote,
                 timers, status, stateFile, votes, elected>>

-----------------------------------------------------------------------------
(***************************************************************************)
(* Processes that die and come back                                         *)
(***************************************************************************)
Kill(s) ==
  /\ status[s] = "up"
  /\ <<s, mishaps + 1>> \in Crashes /\ mishaps' = mishaps + 1
  /\ Terminate(s, "killed")
  /\ UNCHANGED <<memory, leadership, application, serverState, receivedVote,
                 timers, votes, elected>>

\* Between two events of the loop.
Crash(s) == Kill(s) /\ UNCHANGED stateFile

\* Inside a handler that has called becomeFollower for a later term, after the
\* persist() of becomeFollower and before the handler's own.
CrashAfterBecomeFollower(s) ==
  /\ Kill(s)
  /\ \E r \in requestVoteRequests \cup appendEntriesRequests :
       /\ r.to = s /\ r.args.Term > currentTerm[s]
       /\ stateFile' = [stateFile EXCEPT ![s].CurrentTerm = r.args.Term,
                                         ![s].VotedFor = Nobody]

\* Inside ioutil.WriteFile, which empties the file before it writes it.  A
\* server is always able to enter a handler that persists: an election timeout,
\* or a Start on the leader.
CrashInWriteFile(s) ==
  /\ TornWrites
  /\ Kill(s)
  /\ stateFile' = [stateFile EXCEPT ![s] = DefaultState]

\* MakeRaft on a machine that has a state file.
Restart(s) ==
  /\ status[s] # "up"
  /\ status' = [status EXCEPT ![s] = "up"]
  /\ currentTerm' = [currentTerm EXCEPT ![s] = stateFile[s].CurrentTerm]
  /\ votedFor' = [votedFor EXCEPT ![s] = stateFile[s].VotedFor]
  /\ log' = [log EXCEPT ![s] = stateFile[s].Log]
  /\ commitIndex' = [commitIndex EXCEPT ![s] = -1]
  /\ lastApplied' = [lastApplied EXCEPT ![s] = -1]
  /\ nextIndex' = [nextIndex EXCEPT ![s] = [p \in Server |-> 0]]
  /\ matchIndex' = [matchIndex EXCEPT ![s] = [p \in Server |-> 0]]
  /\ serverState' = [serverState EXCEPT ![s] = "Follower"]
  /\ receivedVote' = [receivedVote EXCEPT ![s] = {}]
  /\ electionTimer' = [electionTimer EXCEPT ![s] = TRUE]
  /\ heartbeatTimer' = [heartbeatTimer EXCEPT ![s] = TRUE]
  /\ UNCHANGED <<stateFile, voteCalls, appendCalls, mishaps, votes, elected,
                 applied>>

-----------------------------------------------------------------------------
ServerStep(s) ==
  \/ BecomeCandidate(s)
  \/ Heartbeat(s)
  \/ IdleTick(s)
  \/ \E c \in Command : Start(s, c)
  \/ Crash(s)
  \/ CrashAfterBecomeFollower(s)
  \/ CrashInWriteFile(s)
  \/ Restart(s)

MessageStep ==
  \/ \E r \in requestVoteRequests : HandleRequestVote(r)
  \/ \E r \in requestVoteResponses : HandleRequestVoteResponse(r)
  \/ \E r \in appendEntriesRequests : RejectOutdatedAppendEntries(r)
  \/ \E r \in appendEntriesRequests : HandleAppendEntries(r)
  \/ \E r \in appendEntriesResponses : HandleAppendEntriesResponse(r)
  \/ Retry
  \/ CallFails
  \/ EmptyAnswer

Next == (\E s \in Server : ServerStep(s)) \/ MessageStep

Spec == Init /\ [][Next]_vars

\* Go's select picks at random among the cases that are ready and a channel
\* serves its senders in order, so a case that stays ready is taken; a timer
\* that was reset expires.  Crashes, lost calls, client commands and elections
\* are owed to nobody.
Fairness ==
  \A s \in Server :
    /\ WF_vars(Heartbeat(s))
    /\ WF_vars(\E r \in requestVoteRequests : r.to = s /\ HandleRequestVote(r))
    /\ WF_vars(\E r \in requestVoteResponses :
                 r.to = s /\ HandleRequestVoteResponse(r))
    /\ WF_vars(\E r \in appendEntriesRequests :
                 /\ r.to = s
                 /\ RejectOutdatedAppendEntries(r) \/ HandleAppendEntries(r))
    /\ WF_vars(\E r \in appendEntriesResponses :
                 r.to = s /\ HandleAppendEntriesResponse(r))

FairSpec == Spec /\ Fairness

=============================================================================
