------------------------------ MODULE SwitchIO ------------------------------
(***************************************************************************)
(* Switches and buttons: watchChanges of switchIO.go polls their pins and   *)
(* starts a goroutine for each change, which waits until somebody takes the *)
(* new level from the switch's channel.                                     *)
(***************************************************************************)
EXTENDS Integers, Sequences, SequencesExt

CONSTANT Switch  \* watchedSwitches

VARIABLES
  level,      \* what the pin of a switch reads: 0 is closed, 1 is open
  prevVal,
  updates,    \* levels that goroutines offer on updateCh, oldest first
  \* history
  closed,     \* how often the switch has been closed, once if it was at first
  found,      \* how often it has been found closed
  overtaken   \* a level was taken while an older one was waiting

switches == <<level, prevVal, updates, closed, found, overtaken>>

Level == {0, 1}
Unread == -1

-----------------------------------------------------------------------------
(* Deliberately wrong variants, one slip each, for the properties to refute *)

\* sw.prevVal = read left out
ReadForgotten(s) == prevVal

\* the send is given up if another waits
OfferedAlone(s) == IF updates[s] = << >> THEN <<level[s]>> ELSE updates[s]

-----------------------------------------------------------------------------
\* prevVal of a switch that has not been polled yet.
FirstVal == Unread

\* The level of some switches may have been found, and taken, before.
SwitchInit(known) ==
  /\ level \in [Switch -> Level]
  /\ prevVal = [s \in Switch |-> IF s \in known THEN level[s] ELSE FirstVal]
  /\ updates = [s \in Switch |-> << >>]
  /\ closed = [s \in Switch |-> 1 - level[s]]
  /\ found = [s \in Switch |-> IF s \in known THEN 1 - level[s] ELSE 0]
  /\ overtaken = [s \in Switch |-> FALSE]

\* Somebody throws the switch, or presses or releases the button.
Throw(s) ==
  /\ level' = [level EXCEPT ![s] = 1 - @]
  /\ closed' = [closed EXCEPT ![s] = @ + level[s]]
  /\ UNCHANGED <<prevVal, updates, found, overtaken>>

Read(s) == [prevVal EXCEPT ![s] = level[s]]

\* A goroutine is started that sends what was read.
Offered(s) == Append(updates[s], level[s])

\* watchChanges finds that a switch has changed.
Watch(s) ==
  /\ level[s] # prevVal[s]
  /\ prevVal' = Read(s)
  /\ updates' = [updates EXCEPT ![s] = Offered(s)]
  /\ found' = [found EXCEPT ![s] = @ + 1 - level[s]]
  /\ overtaken' = [overtaken EXCEPT ![s] = @ /\ updates[s] # << >>]
  /\ UNCHANGED <<level, closed>>

\* The reader of updateCh takes what one of the goroutines offers.
TakeUpdate(s, i) ==
  /\ i \in DOMAIN updates[s]
  /\ updates' = [updates EXCEPT ![s] = RemoveAt(@, i)]
  /\ overtaken' = [overtaken EXCEPT ![s] = @ \/ i # 1]
  /\ UNCHANGED <<level, prevVal, closed, found>>

=============================================================================
