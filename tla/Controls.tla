------------------------------ MODULE Controls ------------------------------
(***************************************************************************)
(* The hand side of the interceptor: HandleInteractive and RunDemoMode      *)
(* (interceptor.go), fed by the pollers of knobs and switches.  One knob is *)
(* modelled from its contacts on, the others from their channels on; of the *)
(* two links, which share nothing, one is modelled.                         *)
(***************************************************************************)
EXTENDS RotaryEncoder, SwitchIO, Panel

CONSTANTS
  Uses  \* how often each control is used in a behaviour

Button == {"buttonBig", "buttonR"}
\* Not controls of the panel: what else may happen, or go wrong, around it.
Occasion == {"peer", "timer", "call", "fault"}
Control == Knob \cup Switch \cup Occasion

ASSUME ControlsAssumption ==
  /\ Button \subseteq Switch /\ "s1" \in Switch
  /\ Uses \subseteq [Control -> Nat]

VARIABLES
  left,        \* how often each control will still be used
  enabled,     \* whether the two RaftHandlers of the link pass calls on
  strip,       \* whether its LED strip shows it as enabled
  setting,     \* what the goroutine of s1 still has to set, and to what
  demoModeEnabled,
  toggles      \* history: how often buttonR has changed it

links == <<enabled, strip, setting>>
demo == <<demoModeEnabled, toggles>>
controls == <<encoder, switches, panel, left, links, demo>>

Handler == {0, 1}  \* indexes in raftHandlers
Nowhere == << >>

UseOf(c) == left[c] > 0 /\ left' = [left EXCEPT ![c] = @ - 1]

-----------------------------------------------------------------------------
(* Deliberately wrong variants, one slip each, for the properties to refute *)

\* raftHandlers[0].enabled is set, raftHandlers[1].enabled is not
SetIncomingOnly(h) == [enabled EXCEPT ![0] = setting[2]]

-----------------------------------------------------------------------------
\* Switches that nobody uses have been found in their normal positions before.
ControlsInit ==
  /\ EncoderInit /\ PanelInit
  /\ left \in Uses
  /\ LET unused == {s \in Switch : left[s] = 0}
     IN /\ SwitchInit(unused)
        /\ \A s \in unused : level[s] = IF s = "s1" THEN 0 ELSE 1
  /\ enabled = [h \in Handler |-> TRUE] /\ strip = TRUE /\ setting = Nowhere
  /\ demoModeEnabled = FALSE /\ toggles = 0

-----------------------------------------------------------------------------
(* Hands *)

TurnShaft(step) ==
  /\ left["rotaryL"] > 0
  /\ Turn(step)
  /\ UNCHANGED <<switches, panel, left, links, demo>>

ThrowSwitch(s) ==
  /\ UseOf(s)
  /\ Throw(s)
  /\ UNCHANGED <<encoder, panel, links, demo>>

-----------------------------------------------------------------------------
(* Pollers *)

PollEncoder == Poll /\ UNCHANGED <<switches, panel, left, links, demo>>

WatchSwitch(s) == Watch(s) /\ UNCHANGED <<encoder, panel, left, links, demo>>

-----------------------------------------------------------------------------
(* The goroutines of HandleInteractive *)

\* <-rotaryL, from one of the goroutines of the poller; the other knobs are
\* turned as often as left says.  It takes a turn when it can have the mutex.
TakeTurn(k, d) ==
  /\ IF k = "rotaryL" THEN Take(d) /\ UNCHANGED left
                      ELSE UseOf(k) /\ UNCHANGED encoder
  /\ HandleTurn(k, d)
  /\ UNCHANGED <<switches, links, demo>>

EndOrCopy(k) ==
  /\ EndTurn(k) \/ ReadCell(k) \/ WriteCell(k)
  /\ UNCHANGED <<encoder, switches, left, links, demo>>

\* <-buttonBig: only a press counts.
TakeBigButton(i) ==
  /\ TakeUpdate("buttonBig", i)
  /\ aim = << >>
  /\ IF updates["buttonBig"][i] = 0 THEN AimX ELSE UNCHANGED panel
  /\ UNCHANGED <<encoder, left, links, demo>>

ServeBigButton ==
  /\ AimY \/ Fire
  /\ UNCHANGED <<encoder, switches, left, links, demo>>

\* <-buttonR
TakeButtonR(i) ==
  /\ TakeUpdate("buttonR", i)
  /\ IF updates["buttonR"][i] = 0
       THEN demoModeEnabled' = ~demoModeEnabled /\ toggles' = toggles + 1
       ELSE UNCHANGED demo
  /\ UNCHANGED <<encoder, panel, left, links>>

\* <-s1Data: closed means enabled.
TakeS1(i) ==
  /\ setting = Nowhere
  /\ TakeUpdate("s1", i)
  /\ setting' = <<0, updates["s1"][i] = 0>>
  /\ UNCHANGED <<encoder, panel, left, enabled, strip, demo>>

Set(h) == [enabled EXCEPT ![h] = setting[2]]

\* It sets one handler after the other and then the light of the strip.
SetLink ==
  /\ setting # Nowhere
  /\ IF setting[1] \in Handler
       THEN /\ enabled' = Set(setting[1])
            /\ setting' = [setting EXCEPT ![1] = @ + 1]
            /\ UNCHANGED strip
       ELSE /\ strip' = setting[2]
            /\ setting' = Nowhere
            /\ UNCHANGED enabled
  /\ UNCHANGED <<encoder, switches, panel, left, demo>>

TakeFrom(s) ==
  \E i \in DOMAIN updates[s] :
    \/ s = "buttonBig" /\ TakeBigButton(i)
    \/ s = "buttonR" /\ TakeButtonR(i)
    \/ s = "s1" /\ TakeS1(i)

ControlsNext ==
  \/ \E step \in {-1, 1} : TurnShaft(step)
  \/ \E s \in Switch : ThrowSwitch(s) \/ WatchSwitch(s) \/ TakeFrom(s)
  \/ PollEncoder
  \/ \E k \in Knob, d \in Direction : TakeTurn(k, d)
  \/ \E k \in Knob : EndOrCopy(k)
  \/ ServeBigButton
  \/ SetLink

-----------------------------------------------------------------------------
(***************************************************************************)
(* Properties                                                               *)
(***************************************************************************)

\* From the contacts to the cursor: as long as each step of the knob is made
\* without turning back on the way, the cursor, counting the announcements it
\* still has to follow, is in the column that the knob was turned to, however
\* often it has gone around (watchChanges, MoveLeft, MoveRight).
CursorFollowsShaft ==
  ~fiddled =>
    (x + offered[Right] - offered[Left]) % Width = (restedAt \div 4) % Width

\* The number of times a button acts is at most the number of times it was
\* pressed, bouncing goroutines or not (watchChanges, HandleInteractive).
OneActPerPress ==
  fired <= closed["buttonBig"] /\ toggles <= closed["buttonR"]

=============================================================================
