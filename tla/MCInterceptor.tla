--------------------------- MODULE MCInterceptor ---------------------------
(***************************************************************************)
(* What hands may do to a small panel and a peer to its display: in each    *)
(* behaviour some controls are used, a few times each.                      *)
(***************************************************************************)
EXTENDS Interceptor

Switches == {"s1", "buttonBig", "buttonR"}

Only(uses) ==
  [c \in Control |-> IF c \in DOMAIN uses THEN uses[c] ELSE 0]

\* The knob that is modelled from its contacts, without a bound; two knobs at
\* once; two knobs and the big button; the switch of a link; the demo button;
\* events of the peer, also with a mishap to one; timers; calls of
\* one client; an event and a timer.
FewAtOnce ==
  {Only([rotaryL |-> 1]),
   Only([rotaryM |-> 2, rotaryR |-> 2]),
   Only([rotaryM |-> 1, rotaryR |-> 1, buttonBig |-> 1]),
   Only([s1 |-> 4]),
   Only([buttonR |-> 4]),
   Only([peer |-> 3]),
   Only([peer |-> 2, fault |-> 1]),
   Only([timer |-> 3]),
   Only([call |-> 3, fault |-> 2]),
   Only([peer |-> 1, timer |-> 1, fault |-> 1])}

=============================================================================
