---------------------------- MODULE RpcPathProofs ----------------------------
(***************************************************************************)
(* What a call through retrying clients and RaftHandlers comes to, for any  *)
(* number of attempts, handlers, faults and throws of switches, and how the *)
(* light of a call runs along its strip.                                    *)
(***************************************************************************)
EXTENDS RpcPath, NetworkAnimation, FiniteSetTheorems, SequenceTheorems, TLAPS

(***************************************************************************)
(* Names of attempts                                                        *)
(***************************************************************************)

LEMMA SeqOfNames ==
  ASSUME NEW n \in Nat, NEW i \in Names(n)
  PROVE  i \in Seq(Attempt) /\ Len(i) = n
<1>1. i \in [1 .. n -> Attempt]
  BY DEF Names
<1>2. i \in Seq(Attempt)
  BY <1>1, SeqDef
<1>3. DOMAIN i = 1 .. n /\ DOMAIN i = 1 .. Len(i) /\ Len(i) \in Nat
  BY <1>1, <1>2, LenProperties
<1> QED
  BY <1>2, <1>3

LEMMA NameOfAttempt ==
  ASSUME NEW n \in Nat, NEW i \in Names(n), NEW a \in Attempt
  PROVE  /\ i \in Seq(Attempt) /\ Len(i) = n
         /\ Append(i, a) \in Names(n + 1)
         /\ Append(i, a) # << >>
<1>1. i \in Seq(Attempt) /\ Len(i) = n
  BY SeqOfNames
<1>2. Append(i, a) \in Seq(Attempt) /\ Len(Append(i, a)) = n + 1
  BY <1>1
<1>3. Append(i, a) \in Names(n + 1)
  BY <1>2, LenProperties DEF Names
<1>4. Append(i, a) # << >>
  BY <1>1, <1>2, EmptySeq
<1> QED
  BY <1>1, <1>3, <1>4

\* An attempt is made by one invocation.
LEMMA AttemptHasOneOwner ==
  ASSUME NEW i \in Seq(Nat), NEW j \in Seq(Nat), NEW a \in Nat, NEW b \in Nat,
         Append(i, a) = Append(j, b)
  PROVE  i = j
<1>1. Len(i) = Len(j)
  <2>1. Len(Append(i, a)) = Len(i) + 1 /\ Len(Append(j, b)) = Len(j) + 1
    OBVIOUS
  <2> QED
    BY <2>1
<1>2. \A k \in 1 .. Len(i) : i[k] = j[k]
  <2> SUFFICES ASSUME NEW k \in 1 .. Len(i) PROVE i[k] = j[k]
    OBVIOUS
  <2>1. Append(i, a)[k] = i[k] /\ Append(j, b)[k] = j[k]
    BY <1>1
  <2> QED
    BY <2>1
<1> QED
  BY <1>1, <1>2, SeqEqual

LEMMA NamesOfInvocations ==
  ASSUME PathAssumption, TypeOK, NEW i \in DOMAIN invocations
  PROVE  /\ i \in Names(Len(i)) /\ Len(i) \in 0 .. Handlers
         /\ i \in Seq(Attempt) /\ i \in Seq(Nat)
         /\ invocations[i] \in Invocation
         /\ invocations[i].state \in State
         /\ invocations[i].attempt \in 0 .. RetryCount
         /\ invocations[i].result \in Result
         /\ Handlers \in Nat /\ RetryCount \in Nat /\ Attempt \subseteq Nat
<1>1. PICK n \in 0 .. Handlers : i \in Names(n)
  BY DEF TypeOK
<1>2. i \in Seq(Attempt) /\ Len(i) = n
  BY <1>1, SeqOfNames, PathAssumption DEF PathAssumption
<1>3. Handlers \in Nat /\ RetryCount \in Nat /\ Attempt \subseteq Nat
  BY DEF PathAssumption, Attempt
<1>4. i \in Seq(Nat)
  BY <1>2, <1>3, SeqMonotonic
<1>5. invocations[i] \in Invocation
  BY DEF TypeOK
<1>6. /\ invocations[i].state \in State
      /\ invocations[i].attempt \in 0 .. RetryCount
      /\ invocations[i].result \in Result
  BY <1>5 DEF Invocation
<1> QED
  BY <1>1, <1>2, <1>3, <1>4, <1>5, <1>6

LEMMA NextTryName ==
  ASSUME PathAssumption, TypeOK, NEW i \in DOMAIN invocations,
         MayTry(invocations[i])
  PROVE  /\ invocations[i].attempt + 1 \in Attempt
         /\ NextTry(i) \in Names(Len(i) + 1) /\ NextTry(i) # << >>
<1>1. invocations[i].attempt + 1 \in Attempt
  BY NamesOfInvocations DEF MayTry, Attempt
<1>2. Len(i) \in Nat /\ i \in Names(Len(i))
  BY NamesOfInvocations
<1> QED
  BY <1>1, <1>2, NameOfAttempt DEF NextTry

-----------------------------------------------------------------------------
(***************************************************************************)
(* Types                                                                    *)
(***************************************************************************)

Arrived == [state |-> "asleep", attempt |-> 0, result |-> Nothing("none yet")]

\* invocations' is as before, but for the new value of i.
Becomes(i, new) == invocations' = [invocations EXCEPT ![i] = new]

LEMMA OneBecomes ==
  ASSUME TypeOK, NEW i \in DOMAIN invocations, NEW new \in Invocation,
         Becomes(i, new), executions' = executions
  PROVE  /\ DOMAIN invocations' = DOMAIN invocations
         /\ \A j \in DOMAIN invocations : invocations'[j] \in Invocation'
<1>1. Invocation' = Invocation
  BY DEF Invocation, Result
<1> QED
  BY <1>1 DEF Becomes, TypeOK

\* The result of an answer that has come.
LEMMA AnswerIsResult ==
  ASSUME TypeOK, NEW i \in DOMAIN invocations, Answered(i)
  PROVE  AnswerTo(i) \in Result
<1>1. CASE Tried(i) \in DOMAIN replies
  BY <1>1 DEF AnswerTo, TypeOK
<1>2. CASE Tried(i) \notin DOMAIN replies
  <2>1. Tried(i) \in DOMAIN invocations
    BY <1>2 DEF Answered
  <2>2. invocations[Tried(i)].result \in Result
    BY <2>1 DEF TypeOK, Invocation
  <2> QED
    BY <1>2, <2>2 DEF AnswerTo
<1> QED
  BY <1>1, <1>2

\* What an action other than Send makes of its invocation.
LEMMA NewInvocations ==
  ASSUME PathAssumption, TypeOK, NEW i \in DOMAIN invocations
  PROVE  /\ \A s \in State : [invocations[i] EXCEPT !.state = s] \in Invocation
         /\ \A s \in State, r \in Result :
              [invocations[i] EXCEPT !.state = s, !.result = r] \in Invocation
         /\ MayTry(invocations[i]) =>
              /\ [invocations[i] EXCEPT !.attempt = @ + 1] \in Invocation
              /\ \A s \in State :
                   [invocations[i] EXCEPT !.state = s, !.attempt = @ + 1]
                     \in Invocation
         /\ Arrived \in Invocation
         /\ {Nothing("dropped"), Nothing("failed"), Nothing("empty"),
             Nothing("none yet")} \subseteq Result
<1>1. {Nothing("dropped"), Nothing("failed"), Nothing("empty"),
       Nothing("none yet")} \subseteq Result
  BY DEF Result
<1>2. /\ invocations[i] \in Invocation
      /\ invocations[i].attempt \in 0 .. RetryCount /\ RetryCount \in Nat
  BY NamesOfInvocations
<1>3. MayTry(invocations[i]) => invocations[i].attempt + 1 \in 0 .. RetryCount
  BY <1>2 DEF MayTry
<1>4. Arrived \in Invocation
  <2>1. "asleep" \in State
    BY DEF State
  <2>2. 0 \in 0 .. RetryCount
    BY <1>2
  <2>3. Nothing("none yet") \in Result
    BY DEF Result
  <2> QED
    BY <2>1, <2>2, <2>3 DEF Arrived, Invocation
<1> QED
  BY <1>1, <1>2, <1>3, <1>4 DEF Invocation

\* What a step of invocation i makes of it, when it starts no other.
LEMMA StepOfOne ==
  ASSUME PathAssumption, TypeOK, NEW i \in DOMAIN invocations,
         \/ DialFails(i) \/ ConnectionFails(i) \/ WakeUp(i) \/ GiveUp(i)
         \/ Receive(i)
  PROVE  /\ \E new \in Invocation : Becomes(i, new)
         /\ UNCHANGED <<requests, replies, enabled, executions, toggles>>
         /\ faults' \in Nat
<1>1. /\ {"asleep", "ready", "waiting", "returned"} = State
      /\ faults \in Nat /\ faults + 1 \in Nat
  BY DEF State, TypeOK
<1>2. CASE DialFails(i)
  BY <1>1, <1>2, NewInvocations DEF DialFails, Fault, Becomes
<1>3. CASE ConnectionFails(i)
  BY <1>1, <1>3, NewInvocations DEF ConnectionFails, Fault, Becomes
<1>4. CASE WakeUp(i)
  BY <1>1, <1>4, NewInvocations DEF WakeUp, Drop, Becomes
<1>5. CASE GiveUp(i)
  BY <1>1, <1>5, NewInvocations DEF GiveUp, GiveUpResult, Becomes
<1>6. CASE Receive(i)
  BY <1>1, <1>6, NewInvocations, AnswerIsResult DEF Receive, Becomes
<1> QED
  BY <1>2, <1>3, <1>4, <1>5, <1>6

LEMMA TypeStep ==
  ASSUME PathAssumption, TypeOK, [Next]_vars
  PROVE  TypeOK'
<1>1. ASSUME NEW i \in DOMAIN invocations,
             \/ DialFails(i) \/ ConnectionFails(i) \/ WakeUp(i) \/ GiveUp(i)
             \/ Receive(i)
      PROVE  TypeOK'
  <2>1. PICK new \in Invocation : Becomes(i, new)
    BY <1>1, StepOfOne
  <2>2. /\ UNCHANGED <<requests, replies, enabled, executions, toggles>>
        /\ faults' \in Nat
    BY <1>1, StepOfOne
  <2>3. /\ DOMAIN invocations' = DOMAIN invocations
        /\ \A j \in DOMAIN invocations : invocations'[j] \in Invocation'
    BY <2>1, <2>2, OneBecomes
  <2>4. Result' = Result
    BY <2>2 DEF Result
  <2> QED
    BY <2>2, <2>3, <2>4 DEF TypeOK
<1>2. ASSUME NEW i \in DOMAIN invocations, Send(i)
      PROVE  TypeOK'
  <2> DEFINE waiting ==
               [invocations[i] EXCEPT !.state = "waiting", !.attempt = @ + 1]
  <2>1. /\ UNCHANGED <<replies, enabled, executions, faults, toggles>>
        /\ MayTry(invocations[i])
        /\ Result' = Result /\ Invocation' = Invocation
    BY <1>2 DEF Send, Result, Invocation
  <2>2. waiting \in Invocation /\ Arrived \in Invocation
    BY <2>1, NewInvocations DEF State
  <2>3. NextTry(i) \in Names(Len(i) + 1) /\ Len(i) \in 0 .. Handlers /\ Handlers \in Nat
    BY <2>1, NextTryName, NamesOfInvocations
  <2>4. CASE Len(i) < Handlers
    <3>1. /\ invocations' =
               Extended([invocations EXCEPT ![i] = waiting], NextTry(i), Arrived)
          /\ UNCHANGED requests
      BY <1>2, <2>4 DEF Send, Arrived
    <3>2. /\ DOMAIN invocations' = DOMAIN invocations \cup {NextTry(i)}
          /\ \A j \in DOMAIN invocations' : invocations'[j] \in Invocation
      BY <2>2, <3>1 DEF Extended, TypeOK
    <3>3. Len(i) + 1 \in 0 .. Handlers
      BY <2>3, <2>4
    <3>4. DOMAIN invocations' \subseteq UNION {Names(n) : n \in 0 .. Handlers}
      BY <2>3, <3>2, <3>3 DEF TypeOK
    <3> QED
      BY <2>1, <3>1, <3>2, <3>4 DEF TypeOK
  <2>5. CASE ~(Len(i) < Handlers)
    <3>1. Becomes(i, waiting) /\ requests' = requests \cup {NextTry(i)}
      BY <1>2, <2>5 DEF Send, Becomes
    <3>2. /\ DOMAIN invocations' = DOMAIN invocations
          /\ \A j \in DOMAIN invocations : invocations'[j] \in Invocation'
      BY <2>1, <2>2, <3>1, OneBecomes
    <3>3. Len(i) = Handlers
      BY <2>3, <2>5
    <3>4. requests' \subseteq Names(Handlers + 1)
      BY <2>3, <3>1, <3>3 DEF TypeOK
    <3> QED
      BY <2>1, <3>2, <3>4 DEF TypeOK
  <2> QED
    BY <2>4, <2>5
<1>3. ASSUME NEW q \in requests, Execute(q)
      PROVE  TypeOK'
  <2>1. executions \in Nat /\ executions' = executions + 1
    BY <1>3 DEF Execute, TypeOK
  <2>2. 1 .. executions \subseteq 1 .. executions'
    BY <2>1
  <2>3. Result \subseteq Result' /\ Reply(executions + 1) \in Result'
    <3>1. executions + 1 \in 1 .. executions'
      BY <2>1
    <3>2. {Reply(n) : n \in 1 .. executions} \subseteq {Reply(n) : n \in 1 .. executions'}
      BY <2>2
    <3> QED
      BY <3>1, <3>2 DEF Result
  <2>4. Invocation \subseteq Invocation'
    BY <2>3 DEF Invocation
  <2>5. /\ DOMAIN replies' = DOMAIN replies \cup {q}
        /\ \A r \in DOMAIN replies' : replies'[r] \in Result'
    BY <1>3, <2>3 DEF Execute, Extended, TypeOK
  <2> QED
    BY <1>3, <2>1, <2>4, <2>5 DEF Execute, TypeOK
<1>4. ASSUME NEW h \in Handler, Toggle(h)
      PROVE  TypeOK'
  BY <1>4 DEF Toggle, TypeOK, Result, Invocation
<1>5. CASE UNCHANGED vars
  BY <1>5 DEF vars, TypeOK, Result, Invocation
<1> QED
  BY <1>1, <1>2, <1>3, <1>4, <1>5 DEF Next, Progress

LEMMA TypeInit == PathAssumption /\ Init => TypeOK
<1> SUFFICES ASSUME PathAssumption, Init PROVE TypeOK
  OBVIOUS
<1>1. << >> \in Names(0) /\ 0 \in 0 .. Handlers /\ RetryCount \in Nat
  <2>1. << >> \in [1 .. 0 -> Attempt]
    OBVIOUS
  <2> QED
    BY <2>1 DEF Names, PathAssumption
<1>2. /\ DOMAIN invocations = {<< >>}
      /\ invocations[<< >>] =
           [state |-> "ready", attempt |-> 0, result |-> Nothing("none yet")]
  BY DEF Init
<1>3. invocations[<< >>] \in Invocation
  <2>1. "ready" \in State
    BY DEF State
  <2>2. 0 \in 0 .. RetryCount
    BY <1>1
  <2>3. Nothing("none yet") \in Result
    BY DEF Result
  <2>4. [state |-> "ready", attempt |-> 0, result |-> Nothing("none yet")]
          \in Invocation
    BY <2>1, <2>2, <2>3 DEF Invocation
  <2> QED
    BY <1>2, <2>4
<1>4. DOMAIN replies = {}
  <2>1. << >> \in Seq({}) /\ Len(<< >>) = 0
    BY EmptySeq
  <2>2. DOMAIN << >> = {}
    BY <2>1, LenProperties
  <2> QED
    BY <2>2 DEF Init
<1> QED
  BY <1>1, <1>2, <1>3, <1>4 DEF Init, TypeOK

\* Invocations are named by the attempts that led to them, and count theirs no
\* further than RetryCount (UnreliableRpcClient.Call, RaftHandler).
THEOREM TypeCorrect == Spec => []TypeOK
BY TypeInit, TypeStep, PathAssumption, PTL DEF Spec

-----------------------------------------------------------------------------
(***************************************************************************)
(* The inductive invariant                                                  *)
(***************************************************************************)

\* i waits for a handler that has dropped the call: it is going to try again.
Refused(i) ==
  /\ invocations[i].state = "waiting"
  /\ Tried(i) \in DOMAIN invocations
  /\ invocations[Tried(i)].state = "returned"
  /\ invocations[Tried(i)].result = Nothing("dropped")

\* The invocations that may still send something: those that have control.
Live ==
  {i \in DOMAIN invocations :
     invocations[i].state \in {"asleep", "ready"} \/ Refused(i)}

\* A call has control in one place, or has come to the peer once, but for the
\* places where a connection has failed and left it behind.
Counted == executions + Cardinality(requests) + Cardinality(Live) <= 1 + faults

RepliesReal ==
  \A q \in DOMAIN replies : \E n \in 1 .. executions : replies[q] = Reply(n)

\* Exactly what has returned has a result; Call alone returns false; nobody is
\* there to drop the call at its caller.
ResultsInOrder ==
  /\ << >> \in DOMAIN invocations
  /\ invocations[<< >>].state # "asleep"
  /\ invocations[<< >>].result # Nothing("dropped")
  /\ \A i \in DOMAIN invocations :
       /\ invocations[i].state = "returned"
            <=> invocations[i].result # Nothing("none yet")
       /\ i # << >> => invocations[i].result # Nothing("failed")

Finite == IsFiniteSet(DOMAIN invocations) /\ IsFiniteSet(requests)

PathInv == TypeOK /\ Finite /\ RepliesReal /\ ResultsInOrder /\ Counted

-----------------------------------------------------------------------------
(***************************************************************************)
(* Counting                                                                 *)
(***************************************************************************)

LEMMA CountsOfSubset ==
  ASSUME NEW S, IsFiniteSet(S), NEW T \in SUBSET S
  PROVE  /\ IsFiniteSet(T) /\ Cardinality(T) \in Nat /\ Cardinality(S) \in Nat
         /\ Cardinality(T) <= Cardinality(S)
<1>1. IsFiniteSet(T) /\ Cardinality(T) <= Cardinality(S)
  BY FS_Subset
<1> QED
  BY <1>1, FS_CardinalityType

LEMMA CountsOfAdding ==
  ASSUME NEW S, IsFiniteSet(S), NEW x
  PROVE  /\ IsFiniteSet(S \cup {x})
         /\ Cardinality(S \cup {x}) \in Nat /\ Cardinality(S) \in Nat
         /\ Cardinality(S \cup {x}) <= Cardinality(S) + 1
<1>1. /\ IsFiniteSet(S \cup {x})
      /\ x \notin S => Cardinality(S \cup {x}) = Cardinality(S) + 1
  BY FS_AddElement
<1>2. x \in S => S \cup {x} = S
  OBVIOUS
<1>3. Cardinality(S \cup {x}) \in Nat /\ Cardinality(S) \in Nat
  BY <1>1, FS_CardinalityType
<1>4. CASE x \in S
  BY <1>1, <1>2, <1>3, <1>4
<1>5. CASE x \notin S
  BY <1>1, <1>3, <1>5
<1> QED
  BY <1>4, <1>5

LEMMA CountsOfRemoving ==
  ASSUME NEW S, IsFiniteSet(S), NEW x \in S
  PROVE  /\ IsFiniteSet(S \ {x})
         /\ Cardinality(S \ {x}) \in Nat /\ Cardinality(S) \in Nat
         /\ Cardinality(S \ {x}) + 1 = Cardinality(S)
<1>1. IsFiniteSet(S \ {x}) /\ Cardinality(S \ {x}) = Cardinality(S) - 1
  BY FS_RemoveElement
<1>2. Cardinality(S \ {x}) \in Nat /\ Cardinality(S) \in Nat
  BY <1>1, FS_CardinalityType
<1> QED
  BY <1>1, <1>2

LEMMA CountsOfSwapping ==
  ASSUME NEW S, IsFiniteSet(S), NEW x \in S, NEW y, NEW T,
         T \subseteq (S \ {x}) \cup {y}
  PROVE  Cardinality(T) \in Nat /\ Cardinality(T) <= Cardinality(S)
<1>1. /\ IsFiniteSet(S \ {x})
      /\ Cardinality(S \ {x}) \in Nat /\ Cardinality(S) \in Nat
      /\ Cardinality(S \ {x}) + 1 = Cardinality(S)
  BY CountsOfRemoving
<1>2. /\ IsFiniteSet((S \ {x}) \cup {y})
      /\ Cardinality((S \ {x}) \cup {y}) \in Nat
      /\ Cardinality((S \ {x}) \cup {y}) <= Cardinality(S \ {x}) + 1
  BY <1>1, CountsOfAdding
<1>3. /\ Cardinality(T) \in Nat
      /\ Cardinality(T) <= Cardinality((S \ {x}) \cup {y})
  BY <1>2, CountsOfSubset
<1> QED
  BY <1>1, <1>2, <1>3

\* What a step has to show of the places where the call has control.
LEMMA StillCounted ==
  ASSUME PathInv, faults' \in Nat, faults <= faults',
         UNCHANGED <<requests, executions>>,
         Cardinality(Live') \in Nat,
         Cardinality(Live') <= Cardinality(Live) + (faults' - faults)
  PROVE  Counted'
<1>1. /\ Cardinality(Live) \in Nat /\ Cardinality(requests) \in Nat
      /\ executions \in Nat /\ faults \in Nat
  BY CountsOfSubset, FS_CardinalityType DEF PathInv, Finite, Live, TypeOK
<1>2. executions + Cardinality(requests) + Cardinality(Live) <= 1 + faults
  BY DEF PathInv, Counted
<1>3. executions' + Cardinality(requests') + Cardinality(Live') <= 1 + faults'
  BY <1>1, <1>2
<1> QED
  BY <1>3 DEF Counted

-----------------------------------------------------------------------------
(***************************************************************************)
(* Who has control                                                          *)
(***************************************************************************)

LEMMA LiveIsFinite ==
  ASSUME PathInv
  PROVE  IsFiniteSet(Live) /\ Cardinality(Live) \in Nat
<1>1. Live \in SUBSET DOMAIN invocations
  BY DEF Live
<1> QED
  BY <1>1, CountsOfSubset DEF PathInv, Finite

\* A step of i makes another invocation one that has been refused only if it is
\* the step by which i refuses the attempt of that other.
LEMMA OthersStayAsTheyAre ==
  ASSUME NEW i \in DOMAIN invocations, NEW new, Becomes(i, new),
         NEW j \in DOMAIN invocations, j # i
  PROVE  /\ invocations'[j] = invocations[j] /\ Tried(j)' = Tried(j)
         /\ j \in Live' => \/ j \in Live
                           \/ /\ invocations[j].state = "waiting" /\ Tried(j) = i
                              /\ new.state = "returned"
                              /\ new.result = Nothing("dropped")
<1>1. /\ DOMAIN invocations' = DOMAIN invocations
      /\ \A k \in DOMAIN invocations :
           invocations'[k] = IF k = i THEN new ELSE invocations[k]
  BY DEF Becomes
<1>2. invocations'[j] = invocations[j] /\ Tried(j)' = Tried(j)
  BY <1>1 DEF Tried
<1>3. ASSUME Refused(j)', Tried(j) # i
      PROVE  Refused(j)
  BY <1>1, <1>2, <1>3 DEF Refused
<1>4. ASSUME Refused(j)', Tried(j) = i
      PROVE  /\ invocations[j].state = "waiting"
             /\ new.state = "returned" /\ new.result = Nothing("dropped")
  BY <1>1, <1>2, <1>4 DEF Refused
<1> QED
  BY <1>1, <1>2, <1>3, <1>4 DEF Live

LEMMA LiveAfterStep ==
  ASSUME NEW i \in DOMAIN invocations, NEW new, Becomes(i, new),
         ~(new.state = "returned" /\ new.result = Nothing("dropped"))
  PROVE  /\ Live' \subseteq Live \cup {i}
         /\ new.state = "returned" => Live' \subseteq Live \ {i}
<1>1. DOMAIN invocations' = DOMAIN invocations /\ invocations'[i] = new
  BY DEF Becomes
<1>2. \A j \in DOMAIN invocations : j # i /\ j \in Live' => j \in Live
  BY OthersStayAsTheyAre
<1>3. Live' \subseteq DOMAIN invocations
  BY <1>1 DEF Live
<1>4. new.state = "returned" => i \notin Live'
  BY <1>1 DEF Live, Refused
<1> QED
  BY <1>2, <1>3, <1>4

\* An attempt that is refused gives control back to the one that made it.
LEMMA LiveAfterRefusal ==
  ASSUME PathAssumption, PathInv, NEW i \in DOMAIN invocations, NEW new,
         Becomes(i, new), new.state = "returned"
  PROVE  \E p : Live' \subseteq (Live \ {i}) \cup {p}
<1>1. DOMAIN invocations' = DOMAIN invocations /\ invocations'[i] = new
  BY DEF Becomes
<1>2. i \notin Live' /\ Live' \subseteq DOMAIN invocations
  BY <1>1 DEF Live, Refused
<1>3. ASSUME NEW j \in Live' \ Live, NEW k \in Live' \ Live
      PROVE  j = k
  <2>1. /\ j \in DOMAIN invocations /\ k \in DOMAIN invocations
        /\ Tried(j) = i /\ Tried(k) = i
    BY <1>2, OthersStayAsTheyAre
  <2>2. /\ j \in Seq(Nat) /\ invocations[j].attempt \in Nat
        /\ k \in Seq(Nat) /\ invocations[k].attempt \in Nat
    BY <2>1, NamesOfInvocations DEF PathInv
  <2> QED
    BY <2>1, <2>2, AttemptHasOneOwner DEF Tried
<1>4. CASE Live' \subseteq Live
  BY <1>2, <1>4
<1>5. CASE \E p : p \in Live' \ Live
  <2>1. PICK p : p \in Live' \ Live
    BY <1>5
  <2>2. Live' \subseteq (Live \ {i}) \cup {p}
    BY <1>2, <1>3, <2>1
  <2> QED
    BY <2>2
<1> QED
  BY <1>4, <1>5

-----------------------------------------------------------------------------
(***************************************************************************)
(* Results                                                                  *)
(***************************************************************************)

LEMMA ResultsAfterStep ==
  ASSUME ResultsInOrder, NEW i \in DOMAIN invocations, NEW new, Becomes(i, new),
         new.state = "returned" <=> new.result # Nothing("none yet"),
         i # << >> => new.result # Nothing("failed"),
         i = << >> => new.state # "asleep" /\ new.result # Nothing("dropped")
  PROVE  ResultsInOrder'
<1>1. /\ DOMAIN invocations' = DOMAIN invocations
      /\ \A k \in DOMAIN invocations :
           invocations'[k] = IF k = i THEN new ELSE invocations[k]
  BY DEF Becomes
<1> QED
  BY <1>1 DEF ResultsInOrder

LEMMA RepliesAreNotDropped ==
  ASSUME RepliesReal, NEW q \in DOMAIN replies
  PROVE  \A kind \in {"none yet", "failed", "dropped", "empty"} :
           replies[q] # Nothing(kind)
<1>1. PICK n \in 1 .. executions : replies[q] = Reply(n)
  BY DEF RepliesReal
<1>2. replies[q][1] = "reply"
  BY <1>1 DEF Reply
<1>3. \A kind \in {"none yet", "failed", "dropped", "empty"} :
        Nothing(kind)[1] = kind /\ kind # "reply"
  BY DEF Nothing
<1> QED
  BY <1>2, <1>3

\* The answers an attempt can get, and who refuses.
LEMMA Answers ==
  ASSUME PathAssumption, PathInv, NEW i \in DOMAIN invocations,
         invocations[i].state = "waiting", Answered(i)
  PROVE  /\ AnswerTo(i) # Nothing("none yet") /\ AnswerTo(i) # Nothing("failed")
         /\ AnswerTo(i) = Nothing("dropped") => Refused(i)
<1>1. /\ i \in Seq(Nat) /\ invocations[i].attempt \in Nat
  BY NamesOfInvocations DEF PathInv
<1>2. Tried(i) # << >>
  <2>1. Len(Tried(i)) = Len(i) + 1 /\ Len(i) \in Nat
    BY <1>1 DEF Tried
  <2>2. Tried(i) \in Seq(Nat)
    BY <1>1 DEF Tried
  <2> QED
    BY <2>1, <2>2, EmptySeq
<1>3. CASE Tried(i) \in DOMAIN replies
  BY <1>3, RepliesAreNotDropped DEF AnswerTo, PathInv
<1>4. CASE Tried(i) \notin DOMAIN replies
  BY <1>2, <1>4 DEF Answered, AnswerTo, Refused, PathInv, ResultsInOrder
<1> QED
  BY <1>3, <1>4

-----------------------------------------------------------------------------
(***************************************************************************)
(* The invariant is inductive                                               *)
(***************************************************************************)

LEMMA UnchangedParts ==
  ASSUME PathInv, NEW i \in DOMAIN invocations, NEW new, Becomes(i, new),
         UNCHANGED <<requests, replies, executions>>
  PROVE  Finite' /\ RepliesReal'
  BY DEF PathInv, Finite, RepliesReal, Becomes

LEMMA SendKeepsInv ==
  ASSUME PathAssumption, PathInv, NEW i \in DOMAIN invocations, Send(i)
  PROVE  Finite' /\ RepliesReal' /\ ResultsInOrder' /\ Counted'
<1> DEFINE waiting ==
             [invocations[i] EXCEPT !.state = "waiting", !.attempt = @ + 1]
<1>1. /\ UNCHANGED <<replies, executions, faults>>
      /\ invocations[i].state = "ready" /\ MayTry(invocations[i])
      /\ RepliesReal'
  BY DEF Send, PathInv, RepliesReal
<1>2. /\ waiting.state = "waiting" /\ waiting.result = invocations[i].result
      /\ waiting.attempt = invocations[i].attempt + 1
      /\ invocations[i].result = Nothing("none yet")
  <2>1. invocations[i] \in Invocation
    BY NamesOfInvocations DEF PathInv
  <2>2. invocations[i].result = Nothing("none yet")
    BY <1>1 DEF PathInv, ResultsInOrder
  <2> QED
    BY <2>1, <2>2 DEF Invocation
<1>3. /\ NextTry(i) \in Names(Len(i) + 1) /\ NextTry(i) # << >>
      /\ Len(i) \in 0 .. Handlers /\ Handlers \in Nat
      /\ i \in Seq(Nat) /\ invocations[i].attempt \in Nat
      /\ Len(NextTry(i)) = Len(i) + 1
  BY <1>1, NextTryName, NamesOfInvocations DEF PathInv, NextTry
<1>4. /\ Nothing("none yet") # Nothing("failed")
      /\ Nothing("none yet") # Nothing("dropped")
  BY DEF Nothing
<1>5. /\ i \in Live /\ Arrived.state = "asleep"
      /\ Arrived.result = Nothing("none yet")
  BY <1>1 DEF Live, Arrived
<1>6. /\ IsFiniteSet(Live) /\ Cardinality(Live) \in Nat
      /\ executions \in Nat /\ faults \in Nat
      /\ IsFiniteSet(requests) /\ Cardinality(requests) \in Nat
      /\ executions + Cardinality(requests) + Cardinality(Live) <= 1 + faults
  BY LiveIsFinite, FS_CardinalityType DEF PathInv, Finite, TypeOK, Counted
<1>7. CASE Len(i) < Handlers
  <2>1. /\ invocations' =
             Extended([invocations EXCEPT ![i] = waiting], NextTry(i), Arrived)
        /\ UNCHANGED requests
    BY <1>7 DEF Send, Arrived
  <2>2. i # NextTry(i)
    BY <1>3
  <2>3. /\ DOMAIN invocations' = DOMAIN invocations \cup {NextTry(i)}
        /\ invocations'[i] = waiting /\ invocations'[NextTry(i)] = Arrived
        /\ \A j \in DOMAIN invocations \ {i, NextTry(i)} :
             invocations'[j] = invocations[j]
    BY <2>1, <2>2 DEF Extended
  <2>4. Finite'
    BY <2>1, <2>3, FS_AddElement DEF Finite, PathInv
  <2>5. ResultsInOrder'
    <3>1. << >> \in DOMAIN invocations' /\ << >> # NextTry(i)
      BY <1>3, <2>3 DEF ResultsInOrder, PathInv
    <3>2. /\ invocations'[<< >>].state # "asleep"
          /\ invocations'[<< >>].result # Nothing("dropped")
      BY <1>2, <1>4, <2>3, <3>1 DEF ResultsInOrder, PathInv
    <3>3. ASSUME NEW j \in DOMAIN invocations'
          PROVE  /\ invocations'[j].state = "returned"
                      <=> invocations'[j].result # Nothing("none yet")
                 /\ j # << >> => invocations'[j].result # Nothing("failed")
      <4>1. CASE j = NextTry(i)
        BY <1>4, <1>5, <2>3, <4>1
      <4>2. CASE j = i
        BY <1>2, <1>4, <2>3, <4>2
      <4>3. CASE j # i /\ j # NextTry(i)
        BY <2>3, <4>3 DEF ResultsInOrder, PathInv
      <4> QED
        BY <4>1, <4>2, <4>3
    <3> QED
      BY <3>1, <3>2, <3>3 DEF ResultsInOrder
  <2>6. i \notin Live'
    <3>1. Tried(i)' = NextTry(i)
      BY <1>2, <2>3 DEF Tried, NextTry
    <3> QED
      BY <1>2, <1>5, <2>3, <3>1 DEF Live, Refused
  <2>7. ASSUME NEW j \in Live', j # NextTry(i)
        PROVE  j \in Live
    <3>1. j \in DOMAIN invocations \ {i, NextTry(i)} /\ Tried(j)' = Tried(j)
      BY <2>3, <2>6, <2>7 DEF Live, Tried
    <3>2. CASE Refused(j)'
      <4>1. /\ Tried(j) \in DOMAIN invocations' /\ Tried(j) # i
            /\ Tried(j) # NextTry(i) /\ invocations'[Tried(j)].state = "returned"
        BY <1>2, <1>5, <2>3, <3>1, <3>2 DEF Refused
      <4>2. Refused(j)
        BY <2>3, <3>1, <3>2, <4>1 DEF Refused
      <4> QED
        BY <3>1, <4>2 DEF Live
    <3> QED
      BY <2>3, <3>1, <3>2, <2>7 DEF Live
  <2>8. Live' \subseteq (Live \ {i}) \cup {NextTry(i)}
    BY <2>6, <2>7
  <2>9. Cardinality(Live') \in Nat /\ Cardinality(Live') <= Cardinality(Live)
    BY <1>5, <1>6, <2>8, CountsOfSwapping
  <2>10. Counted'
    BY <1>1, <1>6, <2>1, <2>9, StillCounted
  <2> QED
    BY <1>1, <2>4, <2>5, <2>10
<1>8. CASE ~(Len(i) < Handlers)
  <2>1. Becomes(i, waiting) /\ requests' = requests \cup {NextTry(i)}
    BY <1>8 DEF Send, Becomes
  <2>2. /\ DOMAIN invocations' = DOMAIN invocations /\ invocations'[i] = waiting
    BY <2>1 DEF Becomes
  <2>3. Finite' /\ Cardinality(requests') \in Nat
        /\ Cardinality(requests') <= Cardinality(requests) + 1
    BY <1>6, <2>1, <2>2, CountsOfAdding DEF Finite, PathInv
  <2>4. ResultsInOrder'
    BY <1>2, <1>4, <2>1, ResultsAfterStep DEF PathInv
  <2>5. NextTry(i) \notin DOMAIN invocations
    BY <1>3, <1>8, NamesOfInvocations DEF PathInv
  <2>6. i \notin Live'
    <3>1. Tried(i)' = NextTry(i)
      BY <1>2, <2>2 DEF Tried, NextTry
    <3> QED
      BY <1>2, <2>2, <2>5, <3>1 DEF Live, Refused
  <2>7. Live' \subseteq Live \cup {i}
    BY <1>2, <2>1, LiveAfterStep
  <2>8. Live' \subseteq Live \ {i}
    BY <2>6, <2>7
  <2>9. /\ Cardinality(Live \ {i}) \in Nat
        /\ Cardinality(Live \ {i}) + 1 = Cardinality(Live)
        /\ IsFiniteSet(Live \ {i})
    BY <1>5, <1>6, CountsOfRemoving
  <2>10. Cardinality(Live') \in Nat /\ Cardinality(Live') + 1 <= Cardinality(Live)
    <3>1. Cardinality(Live') \in Nat /\ Cardinality(Live') <= Cardinality(Live \ {i})
      BY <2>8, <2>9, CountsOfSubset
    <3> QED
      BY <1>6, <2>9, <3>1
  <2>11. executions' + Cardinality(requests') + Cardinality(Live') <= 1 + faults'
    BY <1>1, <1>6, <2>3, <2>10
  <2> QED
    BY <1>1, <2>3, <2>4, <2>11 DEF Counted
<1> QED
  BY <1>7, <1>8

LEMMA DialFailsKeepsInv ==
  ASSUME PathAssumption, PathInv, NEW i \in DOMAIN invocations, DialFails(i)
  PROVE  Finite' /\ RepliesReal' /\ ResultsInOrder' /\ Counted'
<1> DEFINE new == [invocations[i] EXCEPT !.attempt = @ + 1]
<1>1. /\ Becomes(i, new) /\ UNCHANGED <<requests, replies, executions>>
      /\ faults' = faults + 1 /\ faults \in Nat /\ invocations[i].state = "ready"
  BY DEF DialFails, Fault, Becomes, PathInv, TypeOK
<1>2. new.state = "ready" /\ new.result = invocations[i].result
  BY <1>1, NamesOfInvocations DEF Invocation, PathInv
<1>3. ResultsInOrder'
  BY <1>1, <1>2, ResultsAfterStep DEF PathInv, ResultsInOrder
<1>4. i \in Live /\ Live' \subseteq Live \cup {i}
  BY <1>1, <1>2, LiveAfterStep DEF Live
<1>5. Cardinality(Live') \in Nat /\ Cardinality(Live') <= Cardinality(Live)
  BY <1>4, LiveIsFinite, CountsOfSubset
<1>6. Counted'
  BY <1>1, <1>5, LiveIsFinite, StillCounted
<1> QED
  BY <1>1, <1>3, <1>6, UnchangedParts

LEMMA ConnectionFailsKeepsInv ==
  ASSUME PathAssumption, PathInv, NEW i \in DOMAIN invocations, ConnectionFails(i)
  PROVE  Finite' /\ RepliesReal' /\ ResultsInOrder' /\ Counted'
<1> DEFINE new == [invocations[i] EXCEPT !.state = "ready"]
<1>1. /\ Becomes(i, new) /\ UNCHANGED <<requests, replies, executions>>
      /\ faults' = faults + 1 /\ faults \in Nat /\ invocations[i].state = "waiting"
  BY DEF ConnectionFails, Fault, Becomes, PathInv, TypeOK
<1>2. new.state = "ready" /\ new.result = invocations[i].result
  BY <1>1, NamesOfInvocations DEF Invocation, PathInv
<1>3. ResultsInOrder'
  BY <1>1, <1>2, ResultsAfterStep DEF PathInv, ResultsInOrder
<1>4. Live' \subseteq Live \cup {i}
  BY <1>1, <1>2, LiveAfterStep
<1>5. /\ Cardinality(Live') \in Nat /\ Cardinality(Live) \in Nat
      /\ Cardinality(Live') <= Cardinality(Live) + 1
  <2>1. /\ IsFiniteSet(Live \cup {i}) /\ Cardinality(Live \cup {i}) \in Nat
        /\ Cardinality(Live) \in Nat
        /\ Cardinality(Live \cup {i}) <= Cardinality(Live) + 1
    BY LiveIsFinite, CountsOfAdding
  <2>2. Cardinality(Live') \in Nat /\ Cardinality(Live') <= Cardinality(Live \cup {i})
    BY <1>4, <2>1, CountsOfSubset
  <2> QED
    BY <2>1, <2>2
<1>6. Counted'
  BY <1>1, <1>5, StillCounted
<1> QED
  BY <1>1, <1>3, <1>6, UnchangedParts

LEMMA WakeUpKeepsInv ==
  ASSUME PathAssumption, PathInv, NEW i \in DOMAIN invocations, WakeUp(i)
  PROVE  Finite' /\ RepliesReal' /\ ResultsInOrder' /\ Counted'
<1>1. /\ UNCHANGED <<requests, replies, executions, faults>>
      /\ invocations[i].state = "asleep" /\ faults \in Nat
  BY DEF WakeUp, PathInv, TypeOK
<1>2. i # << >> /\ i \in Live
  BY <1>1 DEF PathInv, ResultsInOrder, Live
<1>3. invocations[i] \in Invocation
  BY NamesOfInvocations DEF PathInv
<1>4. CASE enabled[Len(i)]
  <2> DEFINE new == [invocations[i] EXCEPT !.state = "ready"]
  <2>1. Becomes(i, new)
    BY <1>4 DEF WakeUp, Becomes
  <2>2. new.state = "ready" /\ new.result = invocations[i].result
    BY <1>3 DEF Invocation
  <2>3. ResultsInOrder'
    BY <1>1, <1>2, <2>1, <2>2, ResultsAfterStep DEF PathInv, ResultsInOrder
  <2>4. Live' \subseteq Live
    BY <1>2, <2>1, <2>2, LiveAfterStep
  <2>5. Cardinality(Live') \in Nat /\ Cardinality(Live') <= Cardinality(Live)
    BY <2>4, LiveIsFinite, CountsOfSubset
  <2>6. Counted'
    BY <1>1, <2>5, LiveIsFinite, StillCounted
  <2> QED
    BY <1>1, <2>1, <2>3, <2>6, UnchangedParts
<1>5. CASE ~enabled[Len(i)]
  <2> DEFINE new == Drop(invocations[i])
  <2>1. Becomes(i, new)
    BY <1>5 DEF WakeUp, Becomes
  <2>2. new.state = "returned" /\ new.result = Nothing("dropped")
    BY <1>3 DEF Invocation, Drop
  <2>3. /\ Nothing("dropped") # Nothing("none yet")
        /\ Nothing("dropped") # Nothing("failed")
    BY DEF Nothing
  <2>4. ResultsInOrder'
    BY <1>2, <2>1, <2>2, <2>3, ResultsAfterStep DEF PathInv
  <2>5. PICK p : Live' \subseteq (Live \ {i}) \cup {p}
    BY <2>1, <2>2, LiveAfterRefusal
  <2>6. Cardinality(Live') \in Nat /\ Cardinality(Live') <= Cardinality(Live)
    BY <1>2, <2>5, LiveIsFinite, CountsOfSwapping
  <2>7. Counted'
    BY <1>1, <2>6, LiveIsFinite, StillCounted
  <2> QED
    BY <1>1, <2>1, <2>4, <2>7, UnchangedParts
<1> QED
  BY <1>4, <1>5

LEMMA GiveUpKeepsInv ==
  ASSUME PathAssumption, PathInv, NEW i \in DOMAIN invocations, GiveUp(i)
  PROVE  Finite' /\ RepliesReal' /\ ResultsInOrder' /\ Counted'
<1> DEFINE new ==
      [invocations[i] EXCEPT !.state = "returned", !.result = GiveUpResult(i)]
<1>1. /\ Becomes(i, new) /\ faults \in Nat
      /\ UNCHANGED <<requests, replies, executions, faults>>
  BY DEF GiveUp, Becomes, PathInv, TypeOK
<1>2. /\ Nothing("failed") # Nothing("none yet")
      /\ Nothing("failed") # Nothing("dropped")
      /\ Nothing("empty") # Nothing("none yet")
      /\ Nothing("empty") # Nothing("failed")
      /\ Nothing("empty") # Nothing("dropped")
  BY DEF Nothing
<1>3. new.state = "returned" /\ new.result = GiveUpResult(i)
  BY NamesOfInvocations DEF Invocation, PathInv
<1>4. ResultsInOrder'
  <2>1. /\ new.result # Nothing("none yet") /\ new.result # Nothing("dropped")
        /\ i # << >> => new.result # Nothing("failed")
    BY <1>2, <1>3 DEF GiveUpResult
  <2> QED
    BY <1>1, <1>3, <2>1, ResultsAfterStep DEF PathInv
<1>5. Live' \subseteq Live
  BY <1>1, <1>2, <1>3, LiveAfterStep DEF GiveUpResult
<1>6. Cardinality(Live') \in Nat /\ Cardinality(Live') <= Cardinality(Live)
  BY <1>5, LiveIsFinite, CountsOfSubset
<1>7. Counted'
  BY <1>1, <1>6, LiveIsFinite, StillCounted
<1> QED
  BY <1>1, <1>4, <1>7, UnchangedParts

LEMMA ReceiveKeepsInv ==
  ASSUME PathAssumption, PathInv, NEW i \in DOMAIN invocations, Receive(i)
  PROVE  Finite' /\ RepliesReal' /\ ResultsInOrder' /\ Counted'
<1>1. /\ UNCHANGED <<requests, replies, executions, faults>> /\ faults \in Nat
      /\ invocations[i].state = "waiting" /\ Answered(i)
      /\ invocations[i] \in Invocation
  BY NamesOfInvocations DEF Receive, PathInv, TypeOK
<1>2. /\ AnswerTo(i) # Nothing("none yet") /\ AnswerTo(i) # Nothing("failed")
      /\ AnswerTo(i) = Nothing("dropped") => Refused(i)
  BY <1>1, Answers
<1>3. CASE AnswerTo(i) = Nothing("dropped")
  <2> DEFINE new == [invocations[i] EXCEPT !.state = "ready"]
  <2>1. Becomes(i, new)
    BY <1>3 DEF Receive, Becomes
  <2>2. new.state = "ready" /\ new.result = invocations[i].result
    BY <1>1 DEF Invocation
  <2>3. ResultsInOrder'
    BY <1>1, <2>1, <2>2, ResultsAfterStep DEF PathInv, ResultsInOrder
  <2>4. i \in Live /\ Live' \subseteq Live \cup {i}
    BY <1>2, <1>3, <2>1, <2>2, LiveAfterStep DEF Live
  <2>5. Cardinality(Live') \in Nat /\ Cardinality(Live') <= Cardinality(Live)
    BY <2>4, LiveIsFinite, CountsOfSubset
  <2>6. Counted'
    BY <1>1, <2>5, LiveIsFinite, StillCounted
  <2> QED
    BY <1>1, <2>1, <2>3, <2>6, UnchangedParts
<1>4. CASE AnswerTo(i) # Nothing("dropped")
  <2> DEFINE new ==
        [invocations[i] EXCEPT !.state = "returned", !.result = AnswerTo(i)]
  <2>1. Becomes(i, new)
    BY <1>4 DEF Receive, Becomes
  <2>2. new.state = "returned" /\ new.result = AnswerTo(i)
    BY <1>1 DEF Invocation
  <2>3. ResultsInOrder'
    BY <1>2, <1>4, <2>1, <2>2, ResultsAfterStep DEF PathInv
  <2>4. Live' \subseteq Live
    BY <1>4, <2>1, <2>2, LiveAfterStep
  <2>5. Cardinality(Live') \in Nat /\ Cardinality(Live') <= Cardinality(Live)
    BY <2>4, LiveIsFinite, CountsOfSubset
  <2>6. Counted'
    BY <1>1, <2>5, LiveIsFinite, StillCounted
  <2> QED
    BY <1>1, <2>1, <2>3, <2>6, UnchangedParts
<1> QED
  BY <1>3, <1>4

LEMMA ExecuteKeepsInv ==
  ASSUME PathAssumption, PathInv, NEW q \in requests, Execute(q)
  PROVE  Finite' /\ RepliesReal' /\ ResultsInOrder' /\ Counted'
<1>1. /\ UNCHANGED <<invocations, faults>> /\ requests' = requests \ {q}
      /\ executions' = executions + 1 /\ executions \in Nat /\ faults \in Nat
      /\ replies' = Extended(replies, q, Reply(executions + 1))
  BY DEF Execute, PathInv, TypeOK
<1>2. ResultsInOrder' /\ Live' = Live
  BY <1>1 DEF ResultsInOrder, PathInv, Live, Refused, Tried
<1>3. /\ IsFiniteSet(requests') /\ Cardinality(requests') \in Nat
      /\ Cardinality(requests) \in Nat
      /\ Cardinality(requests') + 1 = Cardinality(requests)
  BY <1>1, CountsOfRemoving DEF PathInv, Finite
<1>4. Finite'
  BY <1>1, <1>3 DEF PathInv, Finite
<1>5. RepliesReal'
  <2> SUFFICES ASSUME NEW r \in DOMAIN replies'
               PROVE  \E n \in 1 .. executions' : replies'[r] = Reply(n)
    BY DEF RepliesReal
  <2>1. CASE r = q
    <3>1. executions + 1 \in 1 .. executions' /\ replies'[r] = Reply(executions + 1)
      BY <1>1, <2>1 DEF Extended
    <3> QED
      BY <3>1
  <2>2. CASE r # q
    <3>1. r \in DOMAIN replies /\ replies'[r] = replies[r]
      BY <1>1, <2>2 DEF Extended
    <3>2. PICK n \in 1 .. executions : replies[r] = Reply(n)
      BY <3>1 DEF PathInv, RepliesReal
    <3>3. n \in 1 .. executions'
      BY <1>1, <3>2
    <3> QED
      BY <3>1, <3>2, <3>3
  <2> QED
    BY <2>1, <2>2
<1>6. Counted'
  <2>1. executions + Cardinality(requests) + Cardinality(Live) <= 1 + faults
    BY DEF PathInv, Counted
  <2>2. executions' + Cardinality(requests') + Cardinality(Live') <= 1 + faults'
    BY <1>1, <1>2, <1>3, <2>1, LiveIsFinite
  <2> QED
    BY <2>2 DEF Counted
<1> QED
  BY <1>2, <1>4, <1>5, <1>6

LEMMA NothingElseKeepsInv ==
  ASSUME PathInv, UNCHANGED <<invocations, requests, replies, executions, faults>>
  PROVE  Finite' /\ RepliesReal' /\ ResultsInOrder' /\ Counted'
<1>1. Live' = Live
  BY DEF Live, Refused, Tried
<1> QED
  BY <1>1 DEF PathInv, Finite, RepliesReal, ResultsInOrder, Counted

LEMMA PathInvStep ==
  ASSUME PathAssumption, PathInv, [Next]_vars
  PROVE  PathInv'
<1>1. TypeOK'
  BY TypeStep DEF PathInv
<1>2. Finite' /\ RepliesReal' /\ ResultsInOrder' /\ Counted'
  <2>1. ASSUME NEW i \in DOMAIN invocations,
               \/ Send(i) \/ WakeUp(i) \/ GiveUp(i) \/ Receive(i)
               \/ DialFails(i) \/ ConnectionFails(i)
        PROVE  Finite' /\ RepliesReal' /\ ResultsInOrder' /\ Counted'
    BY <2>1, SendKeepsInv, WakeUpKeepsInv, GiveUpKeepsInv, ReceiveKeepsInv,
       DialFailsKeepsInv, ConnectionFailsKeepsInv
  <2>2. ASSUME NEW q \in requests, Execute(q)
        PROVE  Finite' /\ RepliesReal' /\ ResultsInOrder' /\ Counted'
    BY <2>2, ExecuteKeepsInv
  <2>3. ASSUME NEW h \in Handler, Toggle(h)
        PROVE  Finite' /\ RepliesReal' /\ ResultsInOrder' /\ Counted'
    BY <2>3, NothingElseKeepsInv DEF Toggle
  <2>4. CASE UNCHANGED vars
    BY <2>4, NothingElseKeepsInv DEF vars
  <2> QED
    BY <2>1, <2>2, <2>3, <2>4 DEF Next, Progress
<1> QED
  BY <1>1, <1>2 DEF PathInv

LEMMA PathInvInit == PathAssumption /\ Init => PathInv
<1> SUFFICES ASSUME PathAssumption, Init PROVE PathInv
  OBVIOUS
<1> DEFINE caller ==
      [state |-> "ready", attempt |-> 0, result |-> Nothing("none yet")]
<1>1. /\ DOMAIN invocations = {<< >>} /\ invocations[<< >>] = caller
      /\ requests = {} /\ executions = 0 /\ faults = 0
      /\ caller.state = "ready" /\ caller.result = Nothing("none yet")
  BY DEF Init
<1>2. /\ IsFiniteSet({<< >>}) /\ Cardinality({<< >>}) = 1
      /\ IsFiniteSet({}) /\ Cardinality({}) = 0
  BY FS_Singleton, FS_EmptySet
<1>3. TypeOK /\ Finite
  BY <1>1, <1>2, TypeInit DEF Finite
<1>4. DOMAIN replies = {}
  <2>1. << >> \in Seq({}) /\ Len(<< >>) = 0
    BY EmptySeq
  <2>2. DOMAIN << >> = {}
    BY <2>1, LenProperties
  <2> QED
    BY <2>2 DEF Init
<1>5. RepliesReal
  BY <1>4 DEF RepliesReal
<1>6. ResultsInOrder
  <2>1. /\ Nothing("none yet") # Nothing("dropped")
        /\ Nothing("none yet") # Nothing("failed")
    BY DEF Nothing
  <2> QED
    BY <1>1, <2>1 DEF ResultsInOrder
<1>7. Live = {<< >>}
  BY <1>1 DEF Live
<1>8. Counted
  <2>1. /\ Cardinality(Live) = 1 /\ Cardinality(requests) = 0
        /\ executions = 0 /\ faults = 0
    BY <1>1, <1>2, <1>7
  <2> QED
    BY <2>1 DEF Counted
<1> QED
  BY <1>3, <1>5, <1>6, <1>8 DEF PathInv

LEMMA PathInvariant == Spec => []PathInv
BY PathInvInit, PathInvStep, PathAssumption, PTL DEF Spec

-----------------------------------------------------------------------------
(***************************************************************************)
(* Theorems                                                                 *)
(***************************************************************************)

\* However many clients retry one behind the other and however their switches
\* are thrown, the peer carries a call out once, and once more for each
\* connection that fails (UnreliableRpcClient.Call, RaftHandler).
THEOREM Repetitions == Spec => []RepeatedOnlyByFaults
<1>1. ASSUME PathInv PROVE RepeatedOnlyByFaults
  <2>1. /\ executions \in Nat /\ faults \in Nat /\ Cardinality(requests) \in Nat
        /\ Cardinality(Live) \in Nat
        /\ executions + Cardinality(requests) + Cardinality(Live) <= 1 + faults
    BY <1>1, LiveIsFinite, FS_CardinalityType DEF PathInv, TypeOK, Finite, Counted
  <2> QED
    BY <2>1 DEF RepeatedOnlyByFaults
<1> QED
  BY <1>1, PathInvariant, PTL

LEMMA CallImplementsStep ==
  ASSUME PathAssumption, PathInv, [Next]_vars
  PROVE  [Remote!Next]_(Remote!vars)
<1>1. << >> \in DOMAIN invocations
  BY DEF PathInv, ResultsInOrder
<1>2. ASSUME NEW i \in DOMAIN invocations, NEW new, Becomes(i, new),
             i # << >> \/ new.result = invocations[i].result,
             executions' = executions
      PROVE  UNCHANGED Remote!vars
  BY <1>1, <1>2 DEF Becomes, Remote!vars, Outcome
<1>3. ASSUME NEW i \in DOMAIN invocations, Send(i)
      PROVE  UNCHANGED Remote!vars
  <2> DEFINE waiting ==
               [invocations[i] EXCEPT !.state = "waiting", !.attempt = @ + 1]
  <2>1. /\ executions' = executions /\ NextTry(i) # << >>
        /\ waiting.result = invocations[i].result
    BY <1>3, NextTryName, NamesOfInvocations DEF Send, PathInv, Invocation
  <2>2. CASE Len(i) < Handlers
    <3>1. invocations' =
            Extended([invocations EXCEPT ![i] = waiting], NextTry(i), Arrived)
      BY <1>3, <2>2 DEF Send, Arrived
    <3>2. invocations'[<< >>].result = invocations[<< >>].result
      BY <1>1, <2>1, <3>1 DEF Extended
    <3> QED
      BY <2>1, <3>2 DEF Remote!vars, Outcome
  <2>3. CASE ~(Len(i) < Handlers)
    <3>1. Becomes(i, waiting)
      BY <1>3, <2>3 DEF Send, Becomes
    <3> QED
      BY <1>2, <2>1, <3>1
  <2> QED
    BY <2>2, <2>3
<1>4. ASSUME NEW i \in DOMAIN invocations, DialFails(i) \/ ConnectionFails(i)
      PROVE  UNCHANGED Remote!vars
  <2>1. invocations[i] \in Invocation /\ executions' = executions
    BY <1>4, NamesOfInvocations DEF PathInv, DialFails, ConnectionFails
  <2>2. \/ Becomes(i, [invocations[i] EXCEPT !.attempt = @ + 1])
        \/ Becomes(i, [invocations[i] EXCEPT !.state = "ready"])
    BY <1>4 DEF DialFails, ConnectionFails, Becomes
  <2>3. /\ [invocations[i] EXCEPT !.attempt = @ + 1].result = invocations[i].result
        /\ [invocations[i] EXCEPT !.state = "ready"].result = invocations[i].result
    BY <2>1 DEF Invocation
  <2> QED
    BY <1>2, <2>1, <2>2, <2>3
<1>5. ASSUME NEW i \in DOMAIN invocations, WakeUp(i)
      PROVE  UNCHANGED Remote!vars
  <2>1. i # << >> /\ executions' = executions
    BY <1>5 DEF WakeUp, PathInv, ResultsInOrder
  <2>2. \E new : Becomes(i, new)
    BY <1>5 DEF WakeUp, Becomes
  <2> QED
    BY <1>2, <2>1, <2>2
<1>6. ASSUME NEW i \in DOMAIN invocations, GiveUp(i)
      PROVE  [Remote!Next]_(Remote!vars)
  <2> DEFINE new ==
        [invocations[i] EXCEPT !.state = "returned", !.result = GiveUpResult(i)]
  <2>1. Becomes(i, new) /\ executions' = executions /\ invocations[i].state = "ready"
    BY <1>6 DEF GiveUp, Becomes
  <2>2. new.result = GiveUpResult(i)
    BY NamesOfInvocations DEF Invocation, PathInv
  <2>3. CASE i = << >>
    <3>1. Outcome = Nothing("none yet")
      BY <1>1, <2>1, <2>3 DEF PathInv, ResultsInOrder, Outcome
    <3>2. Outcome' = Nothing("failed")
      BY <2>1, <2>2, <2>3 DEF Becomes, Outcome, GiveUpResult
    <3>3. Remote!Return(Remote!Nothing("failed"))
      BY <2>1, <3>1, <3>2 DEF Remote!Return, Remote!Nothing, Nothing
    <3> QED
      BY <3>3 DEF Remote!Next
  <2>4. CASE i # << >>
    BY <1>2, <2>1, <2>4
  <2> QED
    BY <2>3, <2>4
<1>7. ASSUME NEW i \in DOMAIN invocations, Receive(i)
      PROVE  [Remote!Next]_(Remote!vars)
  <2>1. /\ executions' = executions
        /\ invocations[i].state = "waiting" /\ Answered(i)
        /\ invocations[i] \in Invocation
    BY <1>7, NamesOfInvocations DEF Receive, PathInv
  <2>2. CASE AnswerTo(i) = Nothing("dropped")
    <3>1. Becomes(i, [invocations[i] EXCEPT !.state = "ready"])
      BY <1>7, <2>2 DEF Receive, Becomes
    <3>2. [invocations[i] EXCEPT !.state = "ready"].result = invocations[i].result
      BY <2>1 DEF Invocation
    <3> QED
      BY <1>2, <2>1, <3>1, <3>2
  <2>3. CASE AnswerTo(i) # Nothing("dropped") /\ i # << >>
    <3>1. \E new : Becomes(i, new)
      BY <1>7 DEF Receive, Becomes
    <3> QED
      BY <1>2, <2>1, <2>3, <3>1
  <2>4. CASE AnswerTo(i) # Nothing("dropped") /\ i = << >>
    <3> DEFINE new ==
          [invocations[i] EXCEPT !.state = "returned", !.result = AnswerTo(i)]
    <3>1. Becomes(i, new)
      BY <1>7, <2>4 DEF Receive, Becomes
    <3>2. new.result = AnswerTo(i)
      BY <2>1 DEF Invocation
    <3>3. Outcome = Nothing("none yet") /\ Outcome' = AnswerTo(i)
      BY <2>1, <2>4, <3>1, <3>2 DEF PathInv, ResultsInOrder, Outcome, Becomes
    <3>4. /\ AnswerTo(i) \in Result
          /\ AnswerTo(i) # Nothing("none yet") /\ AnswerTo(i) # Nothing("failed")
      BY <2>1, Answers, AnswerIsResult DEF PathInv
    <3>5. \/ AnswerTo(i) = Nothing("empty")
          \/ \E n \in 1 .. executions : AnswerTo(i) = Reply(n)
      BY <2>4, <3>4 DEF Result
    <3>6. \/ Remote!Return(Remote!Nothing("empty"))
          \/ \E n \in 1 .. executions : Remote!Return(Remote!Reply(n))
      BY <2>1, <3>3, <3>5
         DEF Remote!Return, Remote!Nothing, Remote!Reply, Nothing, Reply
    <3> QED
      BY <3>6 DEF Remote!Next
  <2> QED
    BY <2>2, <2>3, <2>4
<1>8. ASSUME NEW q \in requests, Execute(q)
      PROVE  Remote!Next
  BY <1>8 DEF Execute, Remote!Next, Remote!Execute, Outcome
<1>9. CASE (\E h \in Handler : Toggle(h)) \/ UNCHANGED vars
  BY <1>9 DEF Toggle, vars, Remote!vars, Outcome
<1> QED
  BY <1>3, <1>4, <1>5, <1>6, <1>7, <1>8, <1>9 DEF Next, Progress

\* Through any number of clients and handlers, a call comes to what module Raft
\* takes it for: it is carried out any number of times and returns once, with
\* the reply of an execution, an empty reply or nothing.
THEOREM CallIsRemoteCall == Spec => ImplementsRemoteCall
<1>1. Init => Remote!Init
  <2> SUFFICES ASSUME Init PROVE Remote!Init
    OBVIOUS
  <2> DEFINE caller ==
        [state |-> "ready", attempt |-> 0, result |-> Nothing("none yet")]
  <2>1. invocations[<< >>] = caller /\ executions = 0
    BY DEF Init
  <2>2. Outcome = Nothing("none yet")
    <3>1. caller.result = Nothing("none yet")
      OBVIOUS
    <3> HIDE DEF caller
    <3> QED
      BY <2>1, <3>1 DEF Outcome
  <2> QED
    BY <2>1, <2>2 DEF Remote!Init, Remote!Nothing, Nothing
<1>2. PathInv /\ [Next]_vars => [Remote!Next]_(Remote!vars)
  BY CallImplementsStep, PathAssumption
<1> QED
  BY <1>1, <1>2, PathInvariant, PTL DEF Spec, ImplementsRemoteCall, Remote!Spec

-----------------------------------------------------------------------------
(***************************************************************************)
(* The light of a call on the strip                                         *)
(***************************************************************************)

\* Whichever way it runs, every pixel is as it should look: those that a color
\* has reached show it and no others are lit (MakeMovingSegmentAnimation).
THEOREM SegmentRuns ==
  ASSUME NEW colors \in Seq(Color), NEW length \in Nat,
         NEW reverseDirection \in BOOLEAN,
         NEW frame \in 0 .. FrameCount(colors, length) - 1,
         NEW cell \in 0 .. length - 1
  PROVE  LET pixel == Pixel(colors, length, reverseDirection, frame, cell)
             at == FromSender(length, reverseDirection, cell)
         IN /\ \A n \in 1 .. Len(colors) :
                 Reached(colors, frame, n) = at => pixel = colors[n]
            /\ (\A n \in 1 .. Len(colors) : Reached(colors, frame, n) # at)
                 => pixel = Black
<1> DEFINE at == FromSender(length, reverseDirection, cell)
           number == at - frame + Len(colors)
           pixel == Pixel(colors, length, reverseDirection, frame, cell)
<1>1. /\ Len(colors) \in Nat /\ frame \in Int /\ cell \in Int
      /\ at \in Int /\ number \in Int
  BY DEF FrameCount, FromSender
<1>2. \A n \in 1 .. Len(colors) : Reached(colors, frame, n) = at <=> n = number
  BY <1>1 DEF Reached, FrameCount
<1>3. pixel = IF number \in 1 .. Len(colors) THEN colors[number] ELSE Black
  <2>1. CASE reverseDirection
    <3>1. at = length - 1 - cell
      BY <2>1 DEF FromSender
    <3>2. cell - BeginIndex(colors, length, reverseDirection, frame)
            = Len(colors) - number
      <4>1. BeginIndex(colors, length, reverseDirection, frame)
              = length - 1 - frame
        BY <2>1 DEF BeginIndex
      <4> QED
        BY <1>1, <3>1, <4>1
    <3>3. \A i : ColorAt(colors, reverseDirection, i) = colors[Len(colors) - i]
      BY <2>1 DEF ColorAt
    <3> HIDE DEF number, at
    <3> QED
      BY <1>1, <3>2, <3>3 DEF Pixel
  <2>2. CASE ~reverseDirection
    <3>1. at = cell
      BY <2>2 DEF FromSender
    <3>2. cell - BeginIndex(colors, length, reverseDirection, frame) = number - 1
      BY <1>1, <2>2, <3>1 DEF BeginIndex, FrameCount
    <3> QED
      BY <1>1, <2>2, <3>2 DEF Pixel, ColorAt
  <2> QED BY <2>1, <2>2
<1> QED BY <1>1, <1>2, <1>3

\* After the last frame, which is the one in which nothing is left to write, the
\* strip is black: its layer may be deleted (OnEventHandler, PlayAnimation).
THEOREM SegmentLeavesNothing ==
  ASSUME NEW colors \in Seq(Color), NEW length \in Nat,
         NEW reverseDirection \in BOOLEAN,
         NEW cell \in 0 .. length - 1
  PROVE  Pixel(colors, length, reverseDirection,
               FrameCount(colors, length) - 1, cell) = Black
  BY DEF Pixel, BeginIndex, FrameCount

=============================================================================
