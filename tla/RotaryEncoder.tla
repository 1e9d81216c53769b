--------------------------- MODULE RotaryEncoder ---------------------------
(***************************************************************************)
(* A knob of the panel: watchChanges of rotaryEncoderIO.go polls the two    *)
(* contacts of a rotary encoder, strings the readings together in seq until *)
(* both contacts are open again, and then looks whether seq is one of the   *)
(* two numbers that a full step of the knob leaves there.                   *)
(*                                                                          *)
(* Four quarter steps of the shaft make a step; the contacts open and close *)
(* one at a time, in the order leftNum and rightNum imply.                  *)
(***************************************************************************)
EXTENDS Integers

CONSTANTS
  IntWord, \* values of an int, which seq overflows
  Unseen,  \* how many quarter steps the shaft may make between two polls
  Reach,   \* how far from where it started the shaft is turned
  Offers   \* how many announcements a way may wait while it is turned

\* An int has 32 or 64 bits; at least ten are asked of it.
ASSUME EncoderAssumption ==
  /\ {Unseen, Reach, Offers} \subseteq Nat
  /\ IntWord \in Nat \ {0} /\ IntWord % 1024 = 0

VARIABLES
  shaft,       \* position of the shaft in quarter steps, growing to the right
  polled,      \* its position at the last poll
  prev,        \* prevA and prevB
  seq,
  offered,     \* goroutines that wait to send on updCh, by direction
  \* history
  restedAt,    \* the position where the contacts were last found open
  readings,    \* how often they have been found changed since (4: more than 3)
  fiddled      \* a step was made, but not plainly: turning back on the way

encoder == <<shaft, polled, prev, seq, offered, restedAt, readings, fiddled>>

Left == 0
Right == 1
Direction == {Left, Right}

Open == <<1, 1>>

\* What the contacts A and B read at a position.
Contacts(position) ==
  CASE position % 4 = 0 -> Open
    [] position % 4 = 1 -> <<0, 1>>
    [] position % 4 = 2 -> <<0, 0>>
    [] position % 4 = 3 -> <<1, 0>>

leftNum == 33
rightNum == 18

Distance(a, b) == IF a < b THEN b - a ELSE a - b

-----------------------------------------------------------------------------
(* Deliberately wrong variants, one slip each, for the properties to refute *)

\* seq kept in a byte
PushedOntoByte(s, reading) == (4 * s + 2 * reading[1] + reading[2]) % 256

\* sw.seq = 0 left out
NeverCleared(s) == s

-----------------------------------------------------------------------------
EncoderInit ==
  /\ shaft = 0 /\ polled = 0 /\ restedAt = 0
  /\ prev = Open
  /\ seq = 0 /\ readings = 0 /\ fiddled = FALSE
  /\ offered = [d \in Direction |-> 0]

\* The shaft makes a quarter step.
Turn(step) ==
  /\ Distance(shaft + step, polled) <= Unseen
  /\ Distance(shaft + step, 0) <= Reach
  /\ \A d \in Direction : offered[d] < Offers
  /\ shaft' = shaft + step
  /\ UNCHANGED <<polled, prev, seq, offered, restedAt, readings, fiddled>>

\* seq is shifted twice, each time by one reading.
Pushed(s, reading) == (4 * s + 2 * reading[1] + reading[2]) % IntWord

Cleared(s) == 0

\* What a finished seq says the knob has done.
Recognized(s) ==
  IF s = leftNum THEN {Left} ELSE IF s = rightNum THEN {Right} ELSE {}

\* One pass of watchChanges over this encoder.
Poll ==
  LET reading == Contacts(shaft)
  IN
  /\ polled' = shaft
  /\ prev' = reading
  /\ \/ /\ reading = prev
        /\ UNCHANGED <<seq, offered, restedAt, readings, fiddled>>
     \/ /\ reading # prev /\ reading = Open
        /\ offered' = [d \in Direction |->
                         IF d \in Recognized(seq) THEN offered[d] + 1
                                                  ELSE offered[d]]
        /\ seq' = Cleared(seq)
        /\ restedAt' = shaft /\ readings' = 0
        /\ fiddled' = (fiddled \/ (restedAt # shaft /\ readings # 3))
     \/ /\ reading # prev /\ reading # Open
        /\ seq' = Pushed(seq, reading)
        /\ readings' = IF readings < 4 THEN readings + 1 ELSE 4
        /\ UNCHANGED <<offered, restedAt, fiddled>>
  /\ UNCHANGED shaft

\* The reader of updCh takes from any of the goroutines.
Take(d) ==
  /\ offered[d] > 0
  /\ offered' = [offered EXCEPT ![d] = @ - 1]
  /\ UNCHANGED <<shaft, polled, prev, seq, restedAt, readings, fiddled>>

-----------------------------------------------------------------------------
(***************************************************************************)
(* Properties                                                               *)
(***************************************************************************)

Moved == shaft - restedAt

\* However long the knob is moved to and fro before it comes to rest, and
\* however often seq has overflowed by then, a step is announced only if the
\* knob rests one step further in that direction (watchChanges).
NoPhantomStep ==
  [][ /\ offered'[Left] > offered[Left] => Moved = -4
      /\ offered'[Right] > offered[Right] => Moved = 4 ]_encoder

\* A step made without turning back is announced, whatever the knob was used
\* for before (watchChanges).
PlainStepAnnounced ==
  [][ Poll /\ restedAt' # restedAt /\ readings = 3 /\ Distance(Moved, 0) = 4
        => offered' # offered ]_encoder

=============================================================================
