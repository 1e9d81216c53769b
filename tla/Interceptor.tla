----------------------------- MODULE Interceptor -----------------------------
(***************************************************************************)
(* What the interceptor does besides passing calls on: it serves the knobs  *)
(* and switches, shows the state of its Raft peer, and shares a connection  *)
(* among its calls.                                                         *)
(***************************************************************************)
EXTENDS Controls, StateDisplay, RpcClient

display == <<peer, timeouts, events>>
fixtures == <<encoder, switches, panel, links, demo>>
vars == <<controls, display, clients>>

-----------------------------------------------------------------------------
Init ==
  /\ ControlsInit /\ DisplayInit /\ TimeoutInit /\ ClientInit
  /\ left["call"] = 0 => client = None

Serve == ControlsNext /\ UNCHANGED <<display, clients>>

\* A handler of the peer runs, or its process dies.
PeerMoves == UseOf("peer") /\ PeerActs /\ UNCHANGED <<fixtures, timeouts, clients>>

\* A timer event has come to the interceptor.
TimerIsSet ==
  /\ UseOf("timer")
  /\ \E b \in BeginIndex : BeginTimeout(b)
  /\ UNCHANGED <<fixtures, peer, events, clients>>

AnimateBar == AnimateOnDisplay /\ UNCHANGED <<controls, clients>>

\* A state event has come, or is drawn.
Show(e) == (Receive(e) \/ Draw(e, TRUE)) /\ UNCHANGED <<controls, clients>>

\* The answer to one gets lost, or all its attempts.
Mishap(e) ==
  /\ UseOf("fault")
  /\ Draw(e, FALSE) \/ GiveUp(e)
  /\ UNCHANGED <<fixtures, clients>>

\* The calls of one of the interceptor's clients.
CallIsMade == UseOf("call") /\ BeginCall /\ UNCHANGED <<fixtures, display>>

CallGoesOn ==
  /\ \E c \in CallId : Attempt(c)
  /\ UNCHANGED <<controls, display>>

CallMeetsFault ==
  UseOf("fault") /\ ClientFault /\ UNCHANGED <<fixtures, display>>

Next ==
  \/ Serve
  \/ PeerMoves \/ TimerIsSet \/ AnimateBar
  \/ \E e \in onWay \cup DOMAIN drawing : Show(e) \/ Mishap(e)
  \/ CallIsMade \/ CallGoesOn \/ CallMeetsFault

Spec == Init /\ [][Next]_vars

\* Switches are polled again and again, and goroutines are scheduled.
Fairness ==
  /\ \A s \in Switch :
       /\ WF_vars(WatchSwitch(s) /\ UNCHANGED <<display, clients>>)
       /\ WF_vars(TakeFrom(s) /\ UNCHANGED <<display, clients>>)
  /\ WF_vars(ServeBigButton /\ UNCHANGED <<display, clients>>)
  /\ WF_vars(SetLink /\ UNCHANGED <<display, clients>>)
  /\ WF_vars(AnimateBar)
  /\ WF_vars(CallGoesOn)

FairSpec == Spec /\ Fairness

-----------------------------------------------------------------------------
(***************************************************************************)
(* Properties                                                               *)
(***************************************************************************)

\* Every press that the poller has seen acts in the end, whatever others it
\* meets on the way (watchChanges, the goroutines of buttonBig and buttonR).
SeenPressActs ==
  <>[](fired = found["buttonBig"] /\ toggles = found["buttonR"])

\* In the end both directions of a link, and its light, are what its switch
\* says, from wherever it stood at the start, unless its last changes were
\* taken in the wrong order (watchChanges, the goroutine of s1Data).
LinkFollowsSwitch ==
  <>[](~overtaken["s1"] =>
         /\ \A h \in Handler : enabled[h] = (level["s1"] = 0)
         /\ strip = (level["s1"] = 0))

=============================================================================
