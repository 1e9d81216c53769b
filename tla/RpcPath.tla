------------------------------ MODULE RpcPath ------------------------------
(***************************************************************************)
(* One remote call on its way from a Raft peer to another: through the      *)
(* retrying client of raft/unreliable-rpc-client.go and the RaftHandlers of *)
(* the interceptors in between (interceptor.go), each of which passes the   *)
(* call on with such a client of its own.                                   *)
(*                                                                          *)
(* The caller and every activation of a handler is an invocation.  It is    *)
(* named by the numbers of the attempts that led to it: <<>> is the caller, *)
(* <<2, 1>> the activation at the second handler by the first attempt of    *)
(* what the caller's second attempt started.  An attempt whose connection   *)
(* breaks is given up by the one that made it, not by the one that got it.  *)
(***************************************************************************)
EXTENDS Integers, Sequences

CONSTANTS
  RetryCount,   \* UnreliableRpcClient.RetryCount
  Handlers,     \* how many RaftHandlers the call passes
  FaultCounts,  \* how many connections may fail
  ToggleCounts  \* how many times a switch may be thrown

ASSUME PathAssumption ==
  /\ RetryCount \in Nat \ {0} /\ Handlers \in Nat
  /\ FaultCounts \cup ToggleCounts \subseteq Nat

VARIABLES
  invocations,  \* the invocations begun so far: a function on their names
  requests,     \* attempts that have reached the peer and wait for its loop
  replies,      \* what the peer's loop has answered to which attempt
  enabled,      \* enabled[h]: field enabled of the h-th RaftHandler
  executions,   \* how often the peer has handled the call
  faults, toggles

vars == <<invocations, requests, replies, enabled, executions, faults, toggles>>

Handler == 1 .. Handlers
Attempt == 1 .. RetryCount
Names(n) == [1 .. n -> Attempt]

\* The result of an invocation: Call returned false, the handler returned an
\* error, a reply nobody has filled in, or the reply of the n-th execution.
Nothing(kind) == <<kind, 0>>
Reply(n) == <<"reply", n>>
Result == {Nothing(kind) : kind \in {"none yet", "failed", "dropped", "empty"}}
            \cup {Reply(n) : n \in 1 .. executions}

State == {"asleep", "ready", "waiting", "returned"}

Invocation == [state : State, attempt : 0 .. RetryCount, result : Result]

-----------------------------------------------------------------------------
(* Deliberately wrong variants, one slip each, for the properties to refute *)

\* for i := urc.RetryCount; i >= 0; i--
MayTryOnceMore(c) == c.attempt <= RetryCount

\* a handler that drops a call without a word to its caller
DropInSilence(c) == c

Outcome == invocations[<< >>].result

Extended(f, new, value) ==
  [i \in DOMAIN f \cup {new} |-> IF i = new THEN value ELSE f[i]]

-----------------------------------------------------------------------------
Init ==
  /\ invocations = [i \in {<< >>} |->
       [state |-> "ready", attempt |-> 0, result |-> Nothing("none yet")]]
  /\ requests = {}
  /\ replies = << >>
  /\ enabled = [h \in Handler |-> TRUE]
  /\ executions = 0
  /\ faults = 0 /\ toggles = 0

Fault == faults + 1 \in FaultCounts /\ faults' = faults + 1

\* The loop of Call goes on while there are attempts left.
MayTry(c) == c.attempt < RetryCount

Tried(i) == Append(i, invocations[i].attempt)
NextTry(i) == Append(i, invocations[i].attempt + 1)

\* getClient succeeds and client.Call sends the request: to the next handler,
\* or to the peer after the last one.
Send(i) ==
  LET c == invocations[i]
      waiting == [c EXCEPT !.state = "waiting", !.attempt = @ + 1]
      arrived == [state |-> "asleep", attempt |-> 0, result |-> Nothing("none yet")]
  IN
  /\ c.state = "ready" /\ MayTry(c)
  /\ IF Len(i) < Handlers
       THEN /\ invocations' =
                 Extended([invocations EXCEPT ![i] = waiting], NextTry(i), arrived)
            /\ UNCHANGED requests
       ELSE /\ invocations' = [invocations EXCEPT ![i] = waiting]
            /\ requests' = requests \cup {NextTry(i)}
  /\ UNCHANGED <<replies, enabled, executions, faults, toggles>>

\* getClient finds nobody to connect to.
DialFails(i) ==
  LET c == invocations[i]
  IN
  /\ c.state = "ready" /\ MayTry(c) /\ Fault
  /\ invocations' = [invocations EXCEPT ![i].attempt = @ + 1]
  /\ UNCHANGED <<requests, replies, enabled, executions, toggles>>

\* client.Call gives up on its connection; the other end is not told.
ConnectionFails(i) ==
  /\ invocations[i].state = "waiting" /\ Fault
  /\ invocations' = [invocations EXCEPT ![i].state = "ready"]
  /\ UNCHANGED <<requests, replies, enabled, executions, toggles>>

\* What a handler that was switched off returns: errors.New("RPC Dropped").
Drop(c) == [c EXCEPT !.state = "returned", !.result = Nothing("dropped")]

\* The handler wakes up after NetworkForwardDelay and looks at its switch.
WakeUp(i) ==
  LET c == invocations[i]
  IN
  /\ c.state = "asleep"
  /\ invocations' = [invocations EXCEPT ![i] =
       IF enabled[Len(i)] THEN [c EXCEPT !.state = "ready"] ELSE Drop(c)]
  /\ UNCHANGED <<requests, replies, enabled, executions, faults, toggles>>

\* What an invocation returns when all its attempts have failed: Call returns
\* false to the peer, but a handler returns nil and a reply nobody filled in.
GiveUpResult(i) == IF i = << >> THEN Nothing("failed") ELSE Nothing("empty")

GiveUp(i) ==
  LET c == invocations[i]
  IN
  /\ c.state = "ready" /\ ~MayTry(c)
  /\ invocations' = [invocations EXCEPT
       ![i] = [c EXCEPT !.state = "returned", !.result = GiveUpResult(i)]]
  /\ UNCHANGED <<requests, replies, enabled, executions, faults, toggles>>

\* The attempt i waits for has been answered, by the peer or a handler.
Answered(i) ==
  \/ Tried(i) \in DOMAIN replies
  \/ /\ Tried(i) \in DOMAIN invocations
     /\ invocations[Tried(i)].state = "returned"

AnswerTo(i) ==
  IF Tried(i) \in DOMAIN replies THEN replies[Tried(i)]
                                 ELSE invocations[Tried(i)].result

\* Wrong: a handler that drops the answer if it has been switched off by now.
ReceiveUnlessOff(i) ==
  LET off == i # << >> /\ ~enabled[Len(i)]
  IN
  /\ invocations[i].state = "waiting" /\ Answered(i)
  /\ invocations' = [invocations EXCEPT ![i] =
       IF AnswerTo(i) = Nothing("dropped")
         THEN [@ EXCEPT !.state = "ready"]
         ELSE [@ EXCEPT !.state = "returned",
                        !.result = IF off THEN Nothing("dropped") ELSE AnswerTo(i)]]
  /\ UNCHANGED <<requests, replies, enabled, executions, faults, toggles>>

\* Wrong: the answer is taken whether the invocation still waits for it or not.
ReceiveLate(i) ==
  /\ Answered(i) /\ AnswerTo(i) # Nothing("dropped")
  /\ invocations' = [invocations EXCEPT ![i].state = "returned",
                                        ![i].result = AnswerTo(i)]
  /\ UNCHANGED <<requests, replies, enabled, executions, faults, toggles>>

\* client.Call returns.  An error makes this attempt one that failed, anything
\* else ends the loop and is passed on.
Receive(i) ==
  /\ invocations[i].state = "waiting" /\ Answered(i)
  /\ invocations' = [invocations EXCEPT ![i] =
       IF AnswerTo(i) = Nothing("dropped")
         THEN [@ EXCEPT !.state = "ready"]
         ELSE [@ EXCEPT !.state = "returned", !.result = AnswerTo(i)]]
  /\ UNCHANGED <<requests, replies, enabled, executions, faults, toggles>>

\* The peer's loop takes the request; the reply goes to the attempt it is of.
Execute(q) ==
  /\ q \in requests
  /\ requests' = requests \ {q}
  /\ executions' = executions + 1
  /\ replies' = Extended(replies, q, Reply(executions + 1))
  /\ UNCHANGED <<invocations, enabled, faults, toggles>>

\* HandleInteractive: somebody throws the switch of a link.
Toggle(h) ==
  /\ toggles + 1 \in ToggleCounts /\ toggles' = toggles + 1
  /\ enabled' = [enabled EXCEPT ![h] = ~@]
  /\ UNCHANGED <<invocations, requests, replies, executions, faults>>

Progress ==
  \/ \E i \in DOMAIN invocations : Send(i) \/ WakeUp(i) \/ GiveUp(i) \/ Receive(i)
  \/ \E q \in requests : Execute(q)

Next ==
  \/ Progress
  \/ \E i \in DOMAIN invocations : DialFails(i) \/ ConnectionFails(i)
  \/ \E h \in Handler : Toggle(h)

Spec == Init /\ [][Next]_vars

\* Goroutines are scheduled, sleeps end, the peer's loop runs and takes what is
\* sent to it.  Nobody owes a fault or the throw of a switch.
FairSpec == Spec /\ WF_vars(Progress)

-----------------------------------------------------------------------------
(***************************************************************************)
(* Properties                                                               *)
(***************************************************************************)

\* The fields have their types; invocations are named by attempts.
TypeOK ==
  /\ DOMAIN invocations \subseteq UNION {Names(n) : n \in 0 .. Handlers}
  /\ \A i \in DOMAIN invocations : invocations[i] \in Invocation
  /\ requests \subseteq Names(Handlers + 1)
  /\ DOMAIN replies \subseteq Names(Handlers + 1)
  /\ \A q \in DOMAIN replies : replies[q] \in Result
  /\ enabled \in [Handler -> BOOLEAN]
  /\ executions \in Nat /\ faults \in Nat /\ toggles \in Nat

Remote == INSTANCE RemoteCall WITH outcome <- Outcome

\* Retries at three levels, given up and answered in any order, come to no more
\* than module Raft expects: Call returns once, and what it returns is nothing,
\* an empty reply or the reply of an execution (Call, RequestVote and
\* AppendEntries of RaftHandler).
ImplementsRemoteCall == Remote!Spec

\* The peer carries a call out a second time only because a connection failed
\* behind it, once for each one that did: neither the retries of three clients
\* nor the switches multiply it (Call, RaftHandler).
RepeatedOnlyByFaults == executions <= 1 + faults

\* Whatever fails and whoever throws a switch, Call comes back to its caller.
CallReturns == <>(Outcome # Nothing("none yet"))

\* Nothing that a call has started stays behind: every handler returns and the
\* peer answers every attempt, of calls given up long ago too.
ComesToRest ==
  <>[](/\ requests = {}
       /\ \A i \in DOMAIN invocations : invocations[i].state = "returned")

=============================================================================
