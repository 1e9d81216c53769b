-------------------------------- MODULE Panel --------------------------------
(***************************************************************************)
(* The interactive panel: interactive-panel.go keeps a cursor of some hue   *)
(* on a dark frame.  HandleInteractive (interceptor.go) has a goroutine for *)
(* each of three knobs, which moves or dyes the cursor, under a mutex, and  *)
(* then copies the frame to the screen, without one: the frame that         *)
(* GetColorFrame returns shares its pixels with the panel.  A fourth        *)
(* goroutine serves the big button: it reads the cursor, also without the   *)
(* mutex, and sends a command to paint there.                               *)
(*                                                                          *)
(* A turn is made in two steps, with the mutex held in between: what was    *)
(* painted is erased and the new column, row or hue stored; then a column   *)
(* or row below 0 is wrapped around and the cursor painted.  The goroutine  *)
(* of the button sees x, y and hue between the two, those that copy see the *)
(* frame; nobody looks at both, so their order within a step does not show. *)
(***************************************************************************)
EXTENDS Integers, Sequences

CONSTANTS
  Width, Height,
  HueStep,   \* 5
  Hues,      \* 256
  HueWord    \* values of a uint32

ASSUME PanelAssumption ==
  /\ {Width, Height, HueStep, Hues, HueWord} \subseteq Nat \ {0}
  /\ HueWord % Hues = 0

VARIABLES
  x, y, hue, frame,  \* of InteractivePanel
  mu,        \* the knob whose goroutine holds its mutex, or Nobody
  screen,    \* interactiveScreen
  copied,    \* cells each knob's goroutine has copied: all while it waits
  held,      \* the color it has read and not written yet
  aim,       \* what the button's goroutine has read of the cursor
  command,   \* what it has sent last
  fired,     \* how often
  \* history
  turned,    \* steps of the hue knob to the right, less those to the left
  torn,      \* a cell was repainted between the reading and the writing of it
  passed,    \* what x, y and hue have been since the reading for aim began
  met        \* the knobs that were being turned meanwhile

cursor == <<x, y, hue, frame, mu, turned>>
copying == <<screen, copied, held, torn>>
aiming == <<aim, command, fired, passed, met>>
panel == <<cursor, copying, aiming>>

Knob == {"rotaryL", "rotaryM", "rotaryR"}
Cell == (0 .. Width - 1) \X (0 .. Height - 1)
Cells == Width * Height

\* The order in which SetRect goes through the cells.
CellAt(n) == <<n % Width, n \div Width>>

Black == -1
Nothing == -2

\* A color is named by its hue.
MakeColorHue(h) == h

Nobody == "nobody"

\* The goroutine of the knob waits for the next turn.
Waiting(k) == copied[k] = Cells /\ mu # k

Here == <<x, y, hue>>

-----------------------------------------------------------------------------
(* Deliberately wrong variants, one slip each, for the properties to refute *)

\* the cursor stops at the edge
StopsAtEdge(n, size) == IF n < 0 THEN 0 ELSE n

\* hue is an int
LoweredSigned(h) == IF h < HueStep THEN Hues - 1 ELSE h - HueStep

\* SetRect takes black for transparent
PixelIfLit(k) ==
  LET c == CellAt(copied[k])
  IN IF frame[c] = Black THEN screen[c] ELSE frame[c]

-----------------------------------------------------------------------------
PanelInit ==
  /\ x = 0 /\ y = 0 /\ hue = 0 /\ mu = Nobody /\ turned = 0
  /\ frame = [c \in Cell |-> IF c = <<0, 0>> THEN MakeColorHue(0) ELSE Black]
  /\ screen = frame
  /\ copied = [k \in Knob |-> Cells] /\ held = [k \in Knob |-> Nothing]
  /\ torn = FALSE
  /\ aim = << >> /\ command = << >> /\ fired = 0
  /\ passed = {} /\ met = {}

\* The first half of a move: the old cell is erased and the new place stored.
MoveTo(nx, ny) ==
  /\ frame' = [frame EXCEPT ![<<x, y>>] = Black]
  /\ x' = nx /\ y' = ny
  /\ UNCHANGED <<hue, turned>>

Up(n, size) == (n + 1) % size

\* To the left and up, -1 is stored over the edge at first.
MoveRight == MoveTo(Up(x, Width), y)
MoveLeft == MoveTo(x - 1, y)
MoveDown == MoveTo(x, Up(y, Height))

\* Wrong: up from the top it goes to the bottom of the column to the left.
UpIntoColumn == MoveTo(IF y = 0 THEN x - 1 ELSE x, y - 1)

MoveUp == MoveTo(x, y - 1)

\* The first half of a change of the hue.
Dye(h) ==
  /\ hue' = h
  /\ UNCHANGED <<x, y, frame>>

IncrementHue ==
  /\ Dye(((hue + HueStep) % HueWord) % Hues)
  /\ turned' = turned + 1

\* hue is unsigned: what is below 0 comes out large, and "hue < 0" never is.
Lowered(h) ==
  LET lower == (h - HueStep) % HueWord
  IN IF lower < 0 THEN Hues - 1 ELSE lower

DecrementHue == Dye(Lowered(hue)) /\ turned' = turned - 1

\* What the goroutine of a knob does with a value from its channel, as soon as it
\* has the mutex.
Turned(k, value) ==
  /\ mu = Nobody /\ mu' = k
  /\ \/ k = "rotaryL" /\ value = 0 /\ MoveLeft
     \/ k = "rotaryL" /\ value = 1 /\ MoveRight
     \/ k = "rotaryM" /\ value = 0 /\ MoveDown
     \/ k = "rotaryM" /\ value = 1 /\ MoveUp
     \/ k = "rotaryR" /\ value = 0 /\ DecrementHue
     \/ k = "rotaryR" /\ value = 1 /\ IncrementHue

Wrapped(n, size) == IF n < 0 THEN size - 1 ELSE n

\* The second half, after which it gives the mutex back.
Settle(k) ==
  /\ mu = k /\ mu' = Nobody
  /\ x' = Wrapped(x, Width) /\ y' = Wrapped(y, Height)
  /\ frame' = [frame EXCEPT ![<<x', y'>>] = MakeColorHue(hue)]
  /\ UNCHANGED <<hue, turned>>

\* k has read cell c and has not written it yet.
Holds(k, c) == held[k] # Nothing /\ CellAt(copied[k]) = c

\* A cell is repainted that somebody holds the old color of.
Torn == \E j \in Knob, c \in Cell : Holds(j, c) /\ frame'[c] # frame[c]

\* A press that is being served may see the new x, y and hue.
Passes == passed' = IF aim = << >> THEN passed ELSE passed \cup {Here'}

\* A turn begins.
HandleTurn(k, value) ==
  /\ Waiting(k)
  /\ Turned(k, value)
  /\ torn' = (torn \/ Torn)
  /\ Passes
  /\ met' = IF aim = << >> THEN met ELSE met \cup {k}
  /\ UNCHANGED <<screen, copied, held, aim, command, fired>>

\* It ends and GetColorFrame is called: copying begins, which repairs what is torn
\* if nobody else is copying.
EndTurn(k) ==
  /\ Settle(k)
  /\ copied' = [copied EXCEPT ![k] = 0]
  /\ torn' = ((torn \/ Torn) /\ \E j \in Knob \ {k} : ~Waiting(j))
  /\ Passes
  /\ UNCHANGED <<screen, held, aim, command, fired, met>>

\* The color SetRect gets from the frame it was given.
Pixel(k) == frame[CellAt(copied[k])]

\* SetRect copies a cell in two steps.
ReadCell(k) ==
  /\ copied[k] # Cells /\ held[k] = Nothing
  /\ held' = [held EXCEPT ![k] = Pixel(k)]
  /\ UNCHANGED <<cursor, screen, copied, torn, aiming>>

WriteCell(k) ==
  /\ held[k] # Nothing
  /\ screen' = [screen EXCEPT ![CellAt(copied[k])] = held[k]]
  /\ held' = [held EXCEPT ![k] = Nothing]
  /\ copied' = [copied EXCEPT ![k] = @ + 1]
  /\ UNCHANGED <<cursor, torn, aiming>>

\* The big button is down: x is read first ...
AimX ==
  /\ aim = << >>
  /\ aim' = <<x>>
  /\ passed' = {Here} /\ met' = {mu} \ {Nobody}
  /\ UNCHANGED <<cursor, copying, command, fired>>

\* ... then y ...
AimY ==
  /\ Len(aim) = 1
  /\ aim' = Append(aim, y)
  /\ UNCHANGED <<cursor, copying, command, fired, passed, met>>

\* ... and then hue, with which SendStart is called.
Fire ==
  /\ Len(aim) = 2
  /\ command' = Append(aim, hue)
  /\ fired' = fired + 1
  /\ aim' = << >>
  /\ passed' = {} /\ met' = {}
  /\ UNCHANGED <<cursor, copying>>

-----------------------------------------------------------------------------
(***************************************************************************)
(* Properties                                                               *)
(***************************************************************************)

\* Turned to the left past 0 the hue wraps around at the end of its word, not
\* at 255, and so it stays in step with the knob: going back leads back
\* (IncrementHue, DecrementHue).
HueFollowsKnob == hue % Hues = (turned * HueStep) % Hues

\* When no knob's goroutine is at work the screen is dark but for the cell under
\* the cursor, in its hue, whichever of them moved it and copied what in which
\* order, unless a cell was repainted just between its reading and its writing;
\* and then the next turn that comes alone repairs it (InteractivePanel,
\* HandleInteractive, GetColorFrame).
ScreenShowsCursor ==
  (\A k \in Knob : Waiting(k)) /\ ~torn =>
    screen = [c \in Cell |-> IF c = <<x, y>> THEN MakeColorHue(hue) ELSE Black]

\* Of a command the column, the row and the hue have each been the cursor's while
\* the button was served.  All of them have been at one moment, unless two knobs
\* were being turned meanwhile.  And they are those of a cell of the panel, where
\* MoveLeft and MoveUp may show -1, unless a knob that moves the cursor was (the
\* goroutine of buttonBig, which reads without the mutex).
CommandWasPlace ==
  [][ fired' # fired =>
        /\ \A i \in 1 .. 3 : \E p \in passed : command'[i] = p[i]
        /\ (\A j, k \in met : j = k) => command' \in passed
        /\ met \subseteq {"rotaryR"} => <<command'[1], command'[2]>> \in Cell
    ]_panel

=============================================================================
