---------------------------- MODULE ReplicatedLog ----------------------------
(***************************************************************************)
(* What the service above Raft is promised (ApplyMsg in raft/raft.go): the  *)
(* replicas walk along one log of commands that only grows.  A replica that *)
(* is restarted walks along it again from the start.                        *)
(***************************************************************************)
EXTENDS Integers, Sequences, SequencesExt

CONSTANTS Replica, Command

VARIABLES
  agreed,  \* the log so far
  done     \* how many of its entries each replica has applied

vars == <<agreed, done>>

Init ==
  /\ agreed = << >>
  /\ done = [r \in Replica |-> 0]

\* A replica applies the entries that come next; it may be the first to.
Apply(r) ==
  /\ agreed' \in Seq(Command)
  /\ IsPrefix(agreed, agreed')
  /\ done' \in [Replica -> Nat]
  /\ done' = [done EXCEPT ![r] = done'[r]]
  /\ done'[r] > done[r]
  /\ Len(agreed') = IF done'[r] > Len(agreed) THEN done'[r] ELSE Len(agreed)

Restart(r) ==
  /\ done' = [done EXCEPT ![r] = 0]
  /\ UNCHANGED agreed

Next == \E r \in Replica : Apply(r) \/ Restart(r)

Spec == Init /\ [][Next]_vars

=============================================================================
