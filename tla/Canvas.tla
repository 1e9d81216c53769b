------------------------------- MODULE Canvas -------------------------------
(***************************************************************************)
(* What doRaft keeps of its promise to the log: every committed command is  *)
(* painted exactly once, but in no particular order.  A restarted process   *)
(* begins again with an empty canvas and the start of the log.              *)
(***************************************************************************)
EXTENDS Integers

CONSTANTS
  Length,  \* of the log
  Command, \* each is a pixel and its color
  Blank    \* the empty picture

VARIABLES
  log,
  handed,    \* the service has been handed the commands 1 .. handed
  unpainted, \* those of them that are still to be painted
  picture

vars == <<log, handed, unpainted, picture>>

Init ==
  /\ log \in [1 .. Length -> Command]
  /\ handed = 0 /\ unpainted = {} /\ picture = Blank

HandOver ==
  /\ handed < Length
  /\ handed' = handed + 1
  /\ unpainted' = unpainted \cup {handed'}
  /\ UNCHANGED <<log, picture>>

PaintOne(n) ==
  /\ n \in unpainted
  /\ unpainted' = unpainted \ {n}
  /\ picture' = [picture EXCEPT ![log[n].pixel] = log[n].color]
  /\ UNCHANGED <<log, handed>>

Restart ==
  /\ handed' = 0 /\ unpainted' = {} /\ picture' = Blank
  /\ UNCHANGED log

Next == HandOver \/ (\E n \in 1 .. Length : PaintOne(n)) \/ Restart

\* What may be painted, and in which picture it results.
Safety == Init /\ [][Next]_vars

\* A command is not kept waiting for ever.
Spec ==
  /\ Safety
  /\ \A n \in 1 .. Length : WF_vars(PaintOne(n))

=============================================================================
