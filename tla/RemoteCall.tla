----------------------------- MODULE RemoteCall -----------------------------
(***************************************************************************)
(* What a Raft peer may rely on when it makes one remote call, and all that *)
(* module Raft assumes of the way between two peers: the call may be        *)
(* carried out at the other end any number of times, before and after it    *)
(* returns, and it returns once, with the reply of an execution that has    *)
(* happened, with an empty reply or with nothing.                           *)
(***************************************************************************)
EXTENDS Naturals

VARIABLES
  executions,  \* how often the other end has carried out the call
  outcome      \* what the caller has seen

vars == <<executions, outcome>>

\* A result is its kind and, for a reply, the number of the execution it is of.
Nothing(kind) == <<kind, 0>>
Reply(n) == <<"reply", n>>

Init == executions = 0 /\ outcome = Nothing("none yet")

Execute == executions' = executions + 1 /\ UNCHANGED outcome

Return(result) ==
  /\ outcome = Nothing("none yet")
  /\ outcome' = result
  /\ UNCHANGED executions

Next ==
  \/ Execute
  \/ Return(Nothing("failed"))
  \/ Return(Nothing("empty"))
  \/ \E n \in 1 .. executions : Return(Reply(n))

Spec == Init /\ [][Next]_vars

=============================================================================
