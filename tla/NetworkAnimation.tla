-------------------------- MODULE NetworkAnimation --------------------------
(***************************************************************************)
(* The calls that pass an interceptor run as segments of light along the    *)
(* LED strip of their link: OnEventHandler puts the colors of a segment     *)
(* together and MakeMovingSegmentAnimation the frames (interceptor.go).     *)
(***************************************************************************)
EXTENDS Integers, Sequences

CONSTANTS
  Color, Black, White, Green, Red,
  RpcColors,  \* the color of each kind of call and answer
  IdColor     \* RaftIdColors[raftId], of the interceptor's own server

\* What an event has to show: the pixels of the entries of a call, or of the
\* command; in place of a candidate the server the interceptor belongs to; or
\* whether the answer is yes or no.
Carried(event) ==
  CASE event.kind = "AppendEntries" -> event.pixels
    [] event.kind = "RequestVote" -> <<IdColor>>
    [] event.kind = "StartEvent" -> <<event.pixel>>
    [] OTHER -> <<IF event.yes THEN Green ELSE Red>>

\* At the end comes the kind of call between two white pixels.
Segment(event) == Carried(event) \o <<White, RpcColors[event.kind], White>>

FrameCount(colors, length) == Len(colors) + length

\* beginIndex: the cell of the first color that is written.
BeginIndex(colors, length, reverseDirection, frame) ==
  IF reverseDirection THEN length - 1 - frame ELSE frame - (Len(colors) - 1)

\* The color that is written i cells further on.
ColorAt(colors, reverseDirection, i) ==
  IF reverseDirection THEN colors[Len(colors) - i] ELSE colors[i + 1]

\* A frame has what falls on the strip, and is black everywhere else.
Pixel(colors, length, reverseDirection, frame, cell) ==
  LET i == cell - BeginIndex(colors, length, reverseDirection, frame)
  IN IF i \in 0 .. Len(colors) - 1 THEN ColorAt(colors, reverseDirection, i)
                                   ELSE Black

-----------------------------------------------------------------------------
(* What a segment should look like: its colors follow each other out of the *)
(* sender's end of the strip, the last one first, one cell a frame.          *)

\* The cell, counted from the sender's end, that color number n has reached.
Reached(colors, frame, n) == frame - (Len(colors) - n)

FromSender(length, reverseDirection, cell) ==
  IF reverseDirection THEN length - 1 - cell ELSE cell

=============================================================================
