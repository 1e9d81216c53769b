---------------------------- MODULE StateDisplay ----------------------------
(***************************************************************************)
(* The state of a Raft peer on the LED matrix.  The peer sends its state in *)
(* events (onStateUpdated in raft.go), each from a goroutine of its own; an *)
(* activation of OnEvent (interceptor.go) draws it, one part after another  *)
(* and without a lock, and the bar of the timer with it.                    *)
(***************************************************************************)
EXTENDS PeerStates, TimeoutBar, Functions

CONSTANT
  Together  \* bound: how many events are drawn at once

ASSUME DisplayAssumption == Together \in Nat \ {0}

VARIABLES
  sent,      \* what the events said that have been sent, in order
  onWay,     \* events, by number, that have not come through
  drawing,   \* what each event that is being drawn has drawn, and the
             \* timeoutDisplayIndex that it has read
  shown,     \* state and term as raftStateFrame has them
  \* history
  intact,    \* the event that was drawn last, if it was alone, or else 0
  unsaid,    \* the peer has changed since and sent no event about it
  late       \* an event drew a bar that had run down when it was drawn

events == <<sent, onWay, drawing, shown, intact, unsaid, late>>

AllDark == [state |-> "none", term |-> -1]
Never == -1

Now == [state |-> state, term |-> term]

\* nthDigit, for the three digits there is room for.
Digits(n) == n % 1000

-----------------------------------------------------------------------------
(* Deliberately wrong variants, one slip each, for the properties to refute *)

\* the event says what was before the change
NowLate == Now

\* the frame is made black as each of its parts is drawn
DrawnOnBlack(part, color) == [AllDark EXCEPT ![part] = color]

-----------------------------------------------------------------------------
DisplayInit ==
  /\ PeerInit
  /\ sent = << >> /\ onWay = {} /\ drawing = << >>
  /\ shown = AllDark
  /\ intact = Never /\ unsaid = TRUE /\ late = FALSE

-----------------------------------------------------------------------------
(* The peer *)

\* sendEvent, once for each snapshot.
Send(snapshots) ==
  /\ sent' = sent \o snapshots
  /\ onWay' = onWay \cup (Len(sent) + 1 .. Len(sent'))
  /\ UNCHANGED <<drawing, shown, intact, late>>

\* onStateUpdated at the end of a handler.
Changed == Now'

\* becomeCandidate
SayCampaign == Campaign /\ Send(<<Changed>>) /\ unsaid' = FALSE

\* becomeLeader, and again the case of Run that called it
SayWin == Win /\ Send(<<Changed, Changed>>) /\ unsaid' = FALSE

\* A handler that changes neither state nor term: Start, a vote that is counted,
\* an answer, a request of the term it is in.
SayNothingNew == UNCHANGED peer /\ Send(<<Changed>>) /\ unsaid' = FALSE

\* becomeFollower sends the old state before it changes it; the handlers of
\* requests and of AppendEntries responses send the new one when they return.
SayFollow(t) ==
  /\ Follow(t) /\ peer' # peer
  /\ Send(<<Now, Changed>>) /\ unsaid' = FALSE

\* handleRequestVoteResponse does not.
SayFollowBeforehand(t) ==
  /\ t > term /\ Follow(t)
  /\ Send(<<Now>>) /\ unsaid' = TRUE

\* The process dies, with the goroutines that send and call, and comes back.
PeerRestarts ==
  /\ Follow(term)
  /\ onWay' = {} /\ unsaid' = TRUE
  /\ UNCHANGED <<sent, drawing, shown, intact, late>>

\* Terms rise by one at a time; more at once would say the same.
PeerActs ==
  \/ SayCampaign \/ SayWin \/ SayNothingNew \/ PeerRestarts
  \/ \E t \in {term, term + 1} : SayFollow(t) \/ SayFollowBeforehand(t)

-----------------------------------------------------------------------------
(* The way of an event *)

\* OnEvent is called and makes the frame black.
Receive(e) ==
  /\ e \in onWay /\ e \notin DOMAIN drawing
  /\ Cardinality(DOMAIN drawing) < Together
  /\ drawing' = [d \in DOMAIN drawing \cup {e} |->
                   IF d = e THEN [next |-> "state", read |-> 0] ELSE drawing[d]]
  /\ shown' = AllDark
  /\ bar' = 0 /\ late' = FALSE
  /\ intact' = IF DOMAIN drawing = {} THEN e ELSE 0
  /\ UNCHANGED <<peer, sent, onWay, unsaid>>
  /\ UNCHANGED <<timeoutIndex, timeoutDisplayIndex, animations, raced>>

Drawn(part, color) == [shown EXCEPT ![part] = color]

\* It draws the state and wipes the bar.
DrawState(e) ==
  /\ drawing[e].next = "state"
  /\ shown' = Drawn("state", sent[e].state)
  /\ bar' = 0 /\ late' = FALSE
  /\ drawing' = [drawing EXCEPT ![e].next = "read"]
  /\ UNCHANGED onWay

\* It reads how long the bar is ...
ReadBar(e) ==
  /\ drawing[e].next = "read"
  /\ drawing' = [drawing EXCEPT ![e] = [next |-> "bar",
                                        read |-> timeoutDisplayIndex]]
  /\ UNCHANGED <<onWay, shown, bar, late>>

\* ... draws it ...
DrawBar(e) ==
  /\ drawing[e].next = "bar"
  /\ bar' = Longer(bar, drawing[e].read)
  /\ late' = (late \/ drawing[e].read > timeoutDisplayIndex)
  /\ drawing' = [drawing EXCEPT ![e] = [next |-> "term", read |-> 0]]
  /\ UNCHANGED <<onWay, shown>>

\* ... and then the term.  The call returns; if its answer gets lost it is
\* made again.
DrawTerm(e, answered) ==
  /\ drawing[e].next = "term"
  /\ shown' = Drawn("term", Digits(sent[e].term))
  /\ drawing' = Restrict(drawing, DOMAIN drawing \ {e})
  /\ onWay' = IF answered THEN onWay \ {e} ELSE onWay
  /\ UNCHANGED <<bar, late>>

\* onStateUpdated draws the next part.
Draw(e, answered) ==
  /\ e \in DOMAIN drawing
  /\ \/ answered /\ (DrawState(e) \/ ReadBar(e) \/ DrawBar(e))
     \/ DrawTerm(e, answered)
  /\ UNCHANGED <<peer, sent, intact, unsaid>>
  /\ UNCHANGED <<timeoutIndex, timeoutDisplayIndex, animations, raced>>

\* All attempts of a call fail.
GiveUp(e) ==
  /\ e \in onWay /\ e \notin DOMAIN drawing
  /\ onWay' = onWay \ {e}
  /\ UNCHANGED <<peer, sent, drawing, shown, intact, unsaid, late, timeouts>>

-----------------------------------------------------------------------------
(* The timer *)

\* An animation that wipes the bar clears away what was late.
AnimateOnDisplay ==
  /\ Animate
  /\ late' = (late /\ ~ \E a \in Running : Wipe(a))
  /\ UNCHANGED <<peer, sent, onWay, drawing, shown, intact, unsaid>>

-----------------------------------------------------------------------------
(***************************************************************************)
(* Properties                                                               *)
(***************************************************************************)

\* If what was drawn last, and alone, is the event that was sent last, then the
\* display shows the peer as it is: every handler that changes state or term
\* says so afterwards, but for handleRequestVoteResponse and a restart.
DisplayShowsPeer ==
  intact = Len(sent) /\ DOMAIN drawing = {} /\ ~unsaid =>
    shown = [state |-> state, term |-> Digits(term)]

\* Neither part of the display is left dark, in whatever order events are
\* drawn, together, again or not at all (onStateUpdated).
NotLeftDark ==
  DOMAIN drawing = {} /\ intact # Never =>
    shown.state # AllDark.state /\ shown.term # AllDark.term

\* In the end the bar has run down, whichever calls began together and were
\* cancelled, and though events draw it too, unless the last one to draw it had
\* read its length before the last step down (BeginTimeoutAnimation,
\* onStateUpdated).
BarRunsDown == <>[](Running = {} /\ (bar = 0 \/ late))

=============================================================================
