----------------------------- MODULE TimeoutBar -----------------------------
(***************************************************************************)
(* The bar under the state of the peer that runs down with its timer:       *)
(* BeginTimeoutAnimation (interceptor.go) starts a goroutine for each timer *)
(* event, which draws the bar shorter and shorter and gives up when it sees *)
(* that another has begun.  Events come in concurrently, and nothing here   *)
(* is locked.                                                               *)
(*                                                                          *)
(* A goroutine sleeps for about a second between two drawings.  Nothing     *)
(* else is assumed of time but that whoever was at work when it fell asleep *)
(* is asleep or done before it wakes.                                       *)
(***************************************************************************)
EXTENDS Integers, FiniteSets, Sequences

CONSTANT
  BeginIndex  \* of animations: 4 .. 8 for a maximum of 8

ASSUME TimeoutAssumption == BeginIndex \subseteq Nat \ {0}

VARIABLES
  timeoutIndex,
  timeoutDisplayIndex,
  bar,         \* how many cells of its row of raftStateFrame are lit
  animations,  \* the calls so far: what each is at, its timeoutIndex, its i,
               \* and whom it finds awake before it wakes
  \* history
  raced        \* calls overlapped, and some that are alive may not know it

timeouts == <<timeoutIndex, timeoutDisplayIndex, bar, animations, raced>>

Animation == DOMAIN animations

At(places) == {a \in Animation : animations[a].at \in places}

Running == Animation \ At({"over"})
Awake == Running \ At({"asleep"})

Longer(m, n) == IF m < n THEN n ELSE m

-----------------------------------------------------------------------------
(* Deliberately wrong variants, one slip each, for the properties to refute *)

\* timeoutIndex is not looked at again
NeverCancelled(a) == FALSE

\* for i > 0
StopsAtOne(i) == i <= 1

-----------------------------------------------------------------------------
TimeoutInit ==
  /\ timeoutIndex = 0 /\ timeoutDisplayIndex = 0 /\ bar = 0
  /\ animations = << >> /\ raced = FALSE

Goes(a, place) == animations' = [animations EXCEPT ![a].at = place]

\* BeginTimeoutAnimation reads timeoutIndex to increment it ...
BeginTimeout(b) ==
  /\ animations' = Append(animations, [at |-> "increment", index |-> timeoutIndex,
                                       i |-> b, awaits |-> {}])
  /\ raced' = \/ At({"increment", "reread"}) # {}
              \/ raced /\ \E a \in Running : animations[a].index # timeoutIndex
  /\ UNCHANGED <<timeoutIndex, timeoutDisplayIndex, bar>>

\* ... writes it ...
Increment(a) ==
  /\ animations[a].at = "increment"
  /\ timeoutIndex' = animations[a].index + 1
  /\ Goes(a, "reread")
  /\ UNCHANGED <<timeoutDisplayIndex, bar, raced>>

\* ... and reads what its goroutine will compare it with.
Reread(a) ==
  /\ animations[a].at = "reread"
  /\ animations' =
       [animations EXCEPT ![a].at = "display", ![a].index = timeoutIndex]
  /\ UNCHANGED <<timeoutIndex, timeoutDisplayIndex, bar, raced>>

SetDisplayIndex(a) ==
  /\ animations[a].at = "display"
  /\ timeoutDisplayIndex' = animations[a].i
  /\ Goes(a, "wipe")
  /\ UNCHANGED <<timeoutIndex, bar, raced>>

Wipe(a) ==
  /\ animations[a].at = "wipe"
  /\ bar' = 0
  /\ Goes(a, "fill")
  /\ UNCHANGED <<timeoutIndex, timeoutDisplayIndex, raced>>

\* The first timeoutDisplayIndex cells are lit, and the goroutine falls asleep.
Fill(a) ==
  /\ animations[a].at = "fill"
  /\ bar' = Longer(bar, timeoutDisplayIndex)
  /\ animations' =
       [o \in Animation |->
          IF o = a THEN [animations[a] EXCEPT !.at = "asleep",
                                              !.awaits = Awake \ {a}]
                   ELSE [animations[o] EXCEPT !.awaits = @ \ {a}]]
  /\ UNCHANGED <<timeoutIndex, timeoutDisplayIndex, raced>>

Cancelled(a) == animations[a].index # timeoutIndex

Finished(i) == i <= 0

Wake(a) ==
  /\ animations[a].at = "asleep" /\ animations[a].awaits = {}
  /\ IF Cancelled(a) \/ Finished(animations[a].i)
       THEN animations' = [animations EXCEPT ![a].at = "over",
                                             ![a].index = 0, ![a].i = 0]
       ELSE animations' = [animations EXCEPT ![a].at = "display",
                                             ![a].i = @ - 1]
  /\ UNCHANGED <<timeoutIndex, timeoutDisplayIndex, bar, raced>>

Animate ==
  \E a \in Running :
    \/ Increment(a) \/ Reread(a)
    \/ SetDisplayIndex(a) \/ Wipe(a) \/ Fill(a) \/ Wake(a)

-----------------------------------------------------------------------------
(***************************************************************************)
(* Properties                                                               *)
(***************************************************************************)

\* Once the goroutines have come to rest at most one of them will go on, unless
\* two calls incremented timeoutIndex at the same time; and when the next call
\* comes alone, it is one again (BeginTimeoutAnimation).
OneRunsOn ==
  Awake = {} /\ ~raced =>
    Cardinality({a \in Running : ~Cancelled(a)}) <= 1

=============================================================================
