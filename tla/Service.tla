------------------------------ MODULE Service ------------------------------
(***************************************************************************)
(* The picture the log is about: doRaft (raftulization.go) paints the       *)
(* committed SetPixelCommands into colorState and sends each new picture to *)
(* the interceptor (interceptor.go), which shows it on the LED matrix.      *)
(*                                                                          *)
(* Everything between applyCh and the matrix runs in goroutines: one per    *)
(* commit, which sets its pixel and waits for the loop to take its event;   *)
(* one per event, which calls Interceptor.OnEvent; and at the other end one *)
(* per call received.  The frame in an event shares its pixels with         *)
(* colorState: what is sent is what they are when the call encodes them.    *)
(***************************************************************************)
EXTENDS Integers, Sequences

CONSTANTS
  Pixels,       \* a frame is a sequence of so many pixels
  Color, Black,
  Length,       \* how many commands are committed
  Logs,         \* which commands these may be
  RetryCount,   \* UnreliableRpcClient.RetryCount
  Faults,       \* n: the n-th mishap may be that an attempt to call fails
  Crashes       \* n: the n-th mishap may be that the process dies

ASSUME ServiceAssumption ==
  /\ Pixels \in Nat \ {0} /\ Length \in Nat /\ RetryCount \in Nat \ {0}
  /\ Black \in Color
  /\ Faults \cup Crashes \subseteq Nat

Pixel == 1 .. Pixels
Frame == [Pixel -> Color]
Command == [pixel : Pixel, color : Color \ {Black}]
Blank == [p \in Pixel |-> Black]

ASSUME LogAssumption == Logs \subseteq [1 .. Length -> Command]

VARIABLES
  log,         \* the commands Raft agrees on, the same for every incarnation
  applied,     \* how many of them the loop has taken from applyCh
  setting,     \* commits whose goroutine has not set its pixel yet
  announcing,  \* commits whose goroutine offers its event on eventCh
  calls,       \* the calls of OnEvent in progress, by commit
  requests,    \* calls received by the interceptor and being carried out
  colorState,  \* the picture of the process
  imageFrame,  \* the picture on the matrix
  lost,        \* commits whose call has been given up
  faults, crashes,
  apart        \* history: each commit came when all before it had been shown

picture == <<colorState, imageFrame>>
mishaps == <<faults, crashes>>
commits == <<log, applied, apart>>
vars == <<commits, setting, announcing, calls, requests, colorState,
          imageFrame, lost, mishaps>>

\* Everything handed to the service so far is painted and shown.
AtRest ==
  /\ setting = {} /\ announcing = {} /\ requests = {}
  /\ DOMAIN calls = {}

Mishap == faults + crashes + 1

Painted(frame, command) == [frame EXCEPT ![command.pixel] = command.color]

Without(f, n) == [m \in DOMAIN f \ {n} |-> f[m]]

-----------------------------------------------------------------------------
(* Deliberately wrong variants, one slip each, for the properties to refute *)

\* the goroutine sees the variable applyMsg of the loop, not its own
PaintLatest(n) == Painted(colorState, log[applied])

\* the goroutine offers its event before it sets its pixel
TakeApplyMsgAnnouncing ==
  /\ applied < Length
  /\ applied' = applied + 1
  /\ apart' = (apart /\ AtRest)
  /\ setting' = setting \cup {applied'}
  /\ announcing' = announcing \cup {applied'}
  /\ UNCHANGED <<log, calls, requests, picture, lost, mishaps>>

\* the call that failed is believed to have come through
AttemptFailsUnnoticed(n) ==
  /\ n \in DOMAIN calls
  /\ Mishap \in Faults /\ faults' = faults + 1
  /\ calls' = Without(calls, n)
  /\ UNCHANGED <<commits, setting, announcing, requests, picture, lost,
                 crashes>>

-----------------------------------------------------------------------------
Init ==
  /\ log \in Logs
  /\ applied = 0 /\ apart = TRUE
  /\ setting = {} /\ announcing = {}
  /\ calls = << >> /\ requests = {}
  /\ colorState = Blank /\ imageFrame = Blank
  /\ lost = {}
  /\ faults = 0 /\ crashes = 0

\* case applyMsg := <-applyCh
TakeApplyMsg ==
  /\ applied < Length
  /\ applied' = applied + 1
  /\ apart' = (apart /\ AtRest)
  /\ setting' = setting \cup {applied'}
  /\ UNCHANGED <<log, announcing, calls, requests, picture, lost, mishaps>>

Paint(n) == Painted(colorState, log[n])

\* The goroutine of a commit sets its pixel ...
SetPixel(n) ==
  /\ n \in setting
  /\ colorState' = Paint(n)
  /\ setting' = setting \ {n}
  /\ announcing' = announcing \cup {n}
  /\ UNCHANGED <<commits, calls, requests, imageFrame, lost, mishaps>>

\* ... and hands its event to the loop, which starts the goroutine that calls.
TakeEvent(n) ==
  /\ n \in announcing
  /\ announcing' = announcing \ {n}
  /\ calls' = [m \in DOMAIN calls \cup {n} |->
                 IF m = n THEN [attempt |-> 1, image |-> << >>] ELSE calls[m]]
  /\ UNCHANGED <<commits, setting, requests, picture, lost, mishaps>>

\* client.Call encodes the frame pixel by pixel, without a lock.
Encode(n) ==
  /\ n \in DOMAIN calls
  /\ LET image == calls[n].image
     IN
     /\ Len(image) < Pixels
     /\ calls' = [calls EXCEPT ![n].image =
                    Append(image, colorState[Len(image) + 1])]
  /\ UNCHANGED <<commits, setting, announcing, requests, picture, lost,
                 mishaps>>

Request(n) ==
  [commit |-> n, attempt |-> calls[n].attempt, image |-> calls[n].image,
   drawn |-> 0, crashes |-> crashes]

\* The call has sent its request and waits for the reply.
Sent(n) == Len(calls[n].image) = Pixels

Receive(n) ==
  /\ n \in DOMAIN calls /\ Sent(n)
  /\ \A r \in requests : r.commit = n /\ r.crashes = crashes
                           => r.attempt # calls[n].attempt
  /\ requests' = requests \cup {Request(n)}
  /\ UNCHANGED <<commits, setting, announcing, calls, picture, lost, mishaps>>

MayTryAgain(n) == calls[n].attempt < RetryCount

\* The attempt fails, before or after its request has been received.
AttemptFails(n) ==
  /\ n \in DOMAIN calls
  /\ Mishap \in Faults /\ faults' = faults + 1
  /\ IF MayTryAgain(n)
       THEN /\ calls' = [calls EXCEPT ![n] =
                           [attempt |-> @.attempt + 1, image |-> << >>]]
            /\ UNCHANGED lost
       ELSE /\ calls' = Without(calls, n)
            /\ lost' = lost \cup {n}
  /\ UNCHANGED <<commits, setting, announcing, requests, picture, crashes>>

\* onEntryCommitted copies the frame to the matrix pixel by pixel; OnEvent
\* returns after the last one, to the attempt that called it if it still waits.
Draw(r) ==
  LET p == r.drawn + 1
      awaited == /\ r.crashes = crashes
                 /\ r.commit \in DOMAIN calls
                 /\ calls[r.commit].attempt = r.attempt
  IN
  /\ r \in requests
  /\ imageFrame' = [imageFrame EXCEPT ![p] = r.image[p]]
  /\ requests' = (requests \ {r}) \cup
                   (IF p < Pixels THEN {[r EXCEPT !.drawn = p]} ELSE {})
  /\ calls' = IF p = Pixels /\ awaited THEN Without(calls, r.commit) ELSE calls
  /\ UNCHANGED <<commits, setting, announcing, colorState, lost, mishaps>>

\* The process dies with its goroutines.  Started again, it has an empty
\* picture, and Raft applies its log from the beginning.
Crash ==
  /\ Mishap \in Crashes /\ crashes' = crashes + 1
  /\ applied' = 0 /\ apart' = TRUE
  /\ setting' = {} /\ announcing' = {} /\ lost' = {}
  /\ calls' = << >>
  /\ colorState' = Blank
  /\ UNCHANGED <<log, requests, imageFrame, faults>>

Goroutine(n) == SetPixel(n) \/ TakeEvent(n) \/ Encode(n) \/ Receive(n)

Next ==
  \/ TakeApplyMsg
  \/ \E n \in 1 .. Length : Goroutine(n) \/ AttemptFails(n)
  \/ \E r \in requests : Draw(r)
  \/ Crash

Spec == Init /\ [][Next]_vars

\* Every goroutine is scheduled, and so is the loop that takes the events.
FairSpec ==
  /\ Spec
  /\ \A n \in 1 .. Length : WF_vars(Goroutine(n))
  /\ WF_vars(\E r \in requests : Draw(r))

-----------------------------------------------------------------------------
(***************************************************************************)
(* Properties                                                               *)
(***************************************************************************)

\* What the first k commands paint one after the other: each pixel has the color
\* of the last of them that sets it.
PictureOf(commands, k) ==
  [p \in Pixel |->
     LET setters == {n \in 1 .. k : commands[n].pixel = p}
     IN  IF setters = {} THEN Black
         ELSE commands[CHOOSE n \in setters : \A m \in setters : m <= n].color]

\* The picture of the log so far.
Picture == PictureOf(log, applied)

OrderlyCanvas ==
  INSTANCE Canvas
    WITH handed <- applied, unpainted <- setting, picture <- colorState

\* However the goroutines of many commits are scheduled, and whenever the
\* process dies, every commit of its life sets its own pixel to its own color,
\* once, and none is forgotten (the goroutines of doRaft).
ImplementsCanvas == OrderlyCanvas!Spec

\* Whenever nothing is under way, the picture is what the committed commands
\* paint one after the other: on every server the same (doRaft).
PictureInOrder == AtRest => colorState = Picture

\* When the commits in the life of a process come one at a time, the matrix
\* shows what they paint, even if attempts to send them were repeated or came
\* through twice, unless a call was given up (doRaft, Call, onEntryCommitted).
MatrixShowsLog ==
  AtRest /\ applied > 0 /\ apart /\ lost = {} => imageFrame = Picture

\* Such commits get to the matrix in the end, unless all attempts of a call fail
\* (doRaft, Call).
MatrixCatchesUp ==
  <>[](applied > 0 /\ apart /\ lost = {} => imageFrame = colorState)

=============================================================================
