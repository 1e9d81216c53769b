------------------------- MODULE InterceptorProofs -------------------------
(***************************************************************************)
(* What the interceptor's client and display promise, for any number of     *)
(* calls, events, timers and mishaps.                                       *)
(***************************************************************************)
EXTENDS Interceptor, FiniteSetTheorems, TLAPS

(***************************************************************************)
(* The connection of a client                                               *)
(***************************************************************************)

Places == {"get", "dial", "return", "call", "over"}
Call == [at : Places, tries : Int, uses : Nat]

ClientType ==
  /\ client \in Nat /\ connections \in Nat /\ lockedBy \in Nat
  /\ broken \in SUBSET (1 .. connections)
  /\ client <= connections
  /\ calls \in Seq(Call)
  /\ \A c \in CallId : calls[c].uses <= connections
  /\ dropped \in Seq(Nat) /\ errors \in Seq(Nat) /\ resets \in Nat
  /\ Len(dropped) = Len(calls) /\ Len(errors) = Len(calls)

\* A call is in getClient only with the lock, and dials only when there is no
\* connection.
OneInside ==
  \A c \in CallId :
    /\ calls[c].at \in {"dial", "return"} => lockedBy = c
    /\ calls[c].at = "dial" => client = None

\* Connections that broke and that call c will never use again.
Past(c) == {k \in broken : k # client /\ k # calls[c].uses}

ErrorsArePast ==
  \A c \in CallId : errors[c] <= dropped[c] + Cardinality(Past(c))

\* An unused connection is left for a reset, and no other.
OneLeftPerReset ==
  connections <= resets + (IF client = None THEN 0 ELSE 1)

ClientInv == ClientType /\ OneInside /\ ErrorsArePast /\ OneLeftPerReset

LEMMA ClientInvInit == ClientInit => ClientInv
<1> SUFFICES ASSUME ClientInit PROVE ClientInv
  OBVIOUS
<1>1. ClientType
  BY DEF ClientInit, ClientType, None, CallId
<1>2. CallId = {}
  BY DEF ClientInit, CallId
<1>3. OneInside /\ ErrorsArePast
  BY <1>2 DEF OneInside, ErrorsArePast
<1>4. OneLeftPerReset
  BY DEF ClientInit, OneLeftPerReset, None
<1> QED BY <1>1, <1>3, <1>4 DEF ClientInv

\* The calls are as before, but for c.
LEMMA OneCallChanges ==
  ASSUME ClientInv, NEW c \in CallId, NEW new \in Call,
         new.uses <= connections',
         connections' >= connections, connections' \in Nat,
         calls' = [calls EXCEPT ![c] = new]
  PROVE  /\ calls' \in Seq(Call) /\ Len(calls') = Len(calls)
         /\ CallId' = CallId
         /\ \A d \in CallId : d # c => calls'[d] = calls[d]
         /\ calls'[c] = new
         /\ \A d \in CallId : calls'[d].uses <= connections'
<1>1. calls \in Seq(Call) /\ c \in 1 .. Len(calls) /\ CallId = 1 .. Len(calls)
  BY DEF ClientInv, ClientType, CallId
<1>2. /\ calls' \in Seq(Call) /\ Len(calls') = Len(calls)
      /\ CallId' = CallId
      /\ \A d \in CallId : d # c => calls'[d] = calls[d]
      /\ calls'[c] = new
  BY <1>1 DEF CallId
<1>3. \A d \in CallId : calls'[d].uses <= connections'
  <2> SUFFICES ASSUME NEW d \in CallId PROVE calls'[d].uses <= connections'
    OBVIOUS
  <2>1. calls[d].uses <= connections
    BY DEF ClientInv, ClientType
  <2>2. calls[d].uses \in Nat /\ connections \in Nat
    <3>1. calls[d] \in Call /\ connections \in Nat
      BY <1>1 DEF ClientInv, ClientType
    <3> QED
      BY <3>1 DEF Call
  <2>3. CASE d = c
    BY <1>2, <2>3
  <2>4. CASE d # c
    BY <1>2, <2>1, <2>2, <2>4
  <2> QED
    BY <2>3, <2>4
<1> QED
  BY <1>2, <1>3

\* What was past stays so, unless the connection is changed to a past one.
LEMMA PastStays ==
  ASSUME ClientInv, NEW c \in CallId, c \in CallId',
         broken \subseteq broken', IsFiniteSet(broken'),
         client' = client \/ client' \notin broken,
         calls'[c].uses \in {calls[c].uses, client, None}
  PROVE  /\ Past(c) \subseteq Past(c)'
         /\ IsFiniteSet(Past(c)') /\ IsFiniteSet(Past(c))
         /\ Cardinality(Past(c)) \in Nat /\ Cardinality(Past(c)') \in Nat
         /\ Cardinality(Past(c)) <= Cardinality(Past(c)')
<1>1. Past(c) \subseteq Past(c)'
  <2> SUFFICES ASSUME NEW k \in Past(c) PROVE k \in Past(c)'
    OBVIOUS
  <2>1. k \in broken /\ k # client /\ k # calls[c].uses
    BY DEF Past
  <2>2. k # None
    BY <2>1 DEF None, ClientInv, ClientType
  <2> QED
    BY <2>1, <2>2 DEF Past
<1>2. IsFiniteSet(Past(c)')
  BY FS_Subset, Past(c)' \subseteq broken' DEF Past
<1> QED
  BY <1>1, <1>2, FS_Subset, FS_CardinalityType

LEMMA BrokenFinite == ASSUME ClientType PROVE IsFiniteSet(broken)
<1>1. IsFiniteSet(1 .. connections)
  BY FS_Interval DEF ClientType
<1> QED
  BY <1>1, FS_Subset DEF ClientType

LEMMA CallTypes ==
  ASSUME ClientInv, NEW c \in CallId
  PROVE  /\ calls[c] \in Call
         /\ calls[c].at \in Places
         /\ calls[c].uses \in Nat /\ calls[c].uses <= connections
         /\ \A a \in Places : [calls[c] EXCEPT !.at = a] \in Call
         /\ \A a \in Places, u \in Nat :
              [calls[c] EXCEPT !.at = a, !.uses = u] \in Call
         /\ Failed(c) \in Call /\ Failed(c).uses = None
         /\ Failed(c).at \in {"get", "over"}
         /\ dropped[c] \in Nat /\ errors[c] \in Nat /\ c \in Nat /\ c # None
<1>1. calls \in Seq(Call) /\ c \in 1 .. Len(calls)
  BY DEF ClientInv, ClientType, CallId
<1>2. calls[c] \in Call
  BY <1>1
<1>3. /\ calls[c].uses <= connections
      /\ dropped[c] \in Nat /\ errors[c] \in Nat /\ c \in Nat /\ c # None
  BY <1>1 DEF ClientInv, ClientType, None
<1>4. /\ calls[c].at \in Places /\ calls[c].tries \in Int
      /\ calls[c].uses \in Nat
  BY <1>2 DEF Call
<1>5. Failed(c) \in Call /\ Failed(c).uses = None /\ Failed(c).at \in {"get", "over"}
  BY <1>4 DEF Failed, Call, Places, None
<1>6. /\ \A a \in Places : [calls[c] EXCEPT !.at = a] \in Call
      /\ \A a \in Places, u \in Nat :
              [calls[c] EXCEPT !.at = a, !.uses = u] \in Call
  BY <1>2 DEF Call
<1> QED
  BY <1>2, <1>3, <1>4, <1>5, <1>6

\* What one step of a call does to it, and to the connection.
Becoming(c, new) ==
  /\ new \in Call
  /\ calls' = [calls EXCEPT ![c] = new]
  /\ new.uses \in {calls[c].uses, client, None}
  /\ new.at \in {"dial", "return"} => lockedBy' = c
  /\ new.at = "dial" => client' = None
  /\ \/ client' \in {client, None} /\ connections' = connections
     \/ /\ calls[c].at = "dial" /\ client' = connections'
        /\ connections' = connections + 1
  /\ \/ lockedBy' = lockedBy
     \/ lockedBy = None /\ lockedBy' = c
     \/ calls[c].at = "return" /\ lockedBy' = None
  /\ broken' = broken

LEMMA CallSteps ==
  ASSUME ClientInv, NEW c \in CallId,
         Attempt(c) \/ DialFails(c) \/ FailOnDrop(c)
  PROVE  \E new : Becoming(c, new)
<1> DEFINE To(a) == [calls[c] EXCEPT !.at = a]
           With(a, u) == [calls[c] EXCEPT !.at = a, !.uses = u]
<1>1. calls[c] \in Call /\ client \in Nat
  BY CallTypes DEF ClientInv, ClientType
<1>2. \A a \in Places :
        To(a) \in Call /\ To(a).at = a /\ To(a).uses = calls[c].uses
  BY <1>1 DEF Call
<1>3. \A a \in Places, u \in Nat :
        With(a, u) \in Call /\ With(a, u).at = a /\ With(a, u).uses = u
  BY <1>1 DEF Call
<1>4. /\ Failed(c) \in Call /\ Failed(c).uses = None
      /\ Failed(c).at \in {"get", "over"}
  BY CallTypes
<1>5. /\ calls[c].at \in {"dial", "return"} => lockedBy = c
      /\ calls[c].at = "dial" => client = None
  BY DEF ClientInv, OneInside
<1>6. None \in Nat
  BY DEF None
<1> HIDE DEF To, With
<1>7. CASE LookForClient(c)
  <2>1. PICK a \in {"dial", "return"} :
          calls' = [calls EXCEPT ![c] = To(a)] /\ (a = "dial" => client = None)
    BY <1>7 DEF LookForClient, GoesTo, Becomes, To
  <2>2. Becoming(c, To(a))
    BY <1>2, <1>7, <2>1 DEF Becoming, LookForClient, MayLock, Places
  <2> QED
    BY <2>2
<1>8. CASE Dial(c)
  <2>1. Becoming(c, To("return"))
    BY <1>2, <1>5, <1>8 DEF Becoming, Dial, GoesTo, Becomes, To, Places
  <2> QED
    BY <2>1
<1>9. CASE DialFails(c)
  <2>1. Becoming(c, To("return"))
    BY <1>2, <1>5, <1>9 DEF Becoming, DialFails, GoesTo, Becomes, To, Places
  <2> QED
    BY <2>1
<1>10. CASE ReturnClient(c)
  <2>1. CASE client = None
    <3>1. Becoming(c, Failed(c))
      BY <1>4, <1>10, <2>1 DEF Becoming, ReturnClient, Becomes, Unlocked
    <3> QED
      BY <3>1
  <2>2. CASE client # None
    <3>1. Becoming(c, With("call", client))
      BY <1>1, <1>3, <1>10, <2>2
      DEF Becoming, ReturnClient, Becomes, Unlocked, With, Places
    <3> QED
      BY <3>1
  <2> QED
    BY <2>1, <2>2
<1>11. CASE Succeed(c)
  <2>1. Becoming(c, With("over", None))
    BY <1>3, <1>6, <1>11 DEF Becoming, Succeed, Becomes, With, Places
  <2> QED
    BY <2>1
<1>12. CASE FailOnBroken(c) \/ FailOnDrop(c)
  <2>1. Becoming(c, Failed(c))
    BY <1>4, <1>12 DEF Becoming, FailOnBroken, FailOnDrop, Err, Becomes, Reset
  <2> QED
    BY <2>1
<1> QED
  BY <1>7, <1>8, <1>9, <1>10, <1>11, <1>12 DEF Attempt

ClientStep == BeginCall \/ ClientFault \/ \E c \in CallId : Attempt(c)

LEMMA ClientStepCases ==
  ASSUME ClientStep
  PROVE  \/ BeginCall
         \/ Break
         \/ \E c \in CallId : Attempt(c) \/ DialFails(c) \/ FailOnDrop(c)
  BY DEF ClientStep, ClientFault

LEMMA NewCall ==
  ASSUME ClientInv, BeginCall
  PROVE  /\ calls' \in Seq(Call) /\ Len(calls') = Len(calls) + 1
         /\ CallId = 1 .. Len(calls) /\ CallId' = 1 .. Len(calls)'
         /\ \A c \in CallId : calls'[c] = calls[c]
         /\ calls'[Len(calls')].uses = None /\ calls'[Len(calls')].at = "get"
         /\ dropped' \in Seq(Nat) /\ Len(dropped') = Len(calls')
         /\ errors' \in Seq(Nat) /\ Len(errors') = Len(calls')
         /\ \A c \in CallId : dropped'[c] = dropped[c] /\ errors'[c] = errors[c]
         /\ dropped'[Len(calls')] = 0 /\ errors'[Len(calls')] = 0
<1> DEFINE new == [at |-> "get", tries |-> RetryCount, uses |-> None]
<1>1. new \in Call /\ new.uses = None /\ new.at = "get"
  BY RetryAssumption DEF Call, Places, None
<1>2. /\ calls \in Seq(Call) /\ dropped \in Seq(Nat) /\ errors \in Seq(Nat)
      /\ Len(dropped) = Len(calls) /\ Len(errors) = Len(calls)
  BY DEF ClientInv, ClientType
<1>3. /\ calls' = Append(calls, new)
      /\ dropped' = Append(dropped, 0) /\ errors' = Append(errors, 0)
  BY DEF BeginCall
<1> HIDE DEF new
<1>4. /\ calls' \in Seq(Call) /\ Len(calls') = Len(calls) + 1
      /\ CallId = 1 .. Len(calls) /\ CallId' = 1 .. Len(calls)'
      /\ \A c \in CallId : calls'[c] = calls[c]
      /\ calls'[Len(calls')] = new
  BY <1>1, <1>2, <1>3 DEF CallId
<1>5. /\ dropped' \in Seq(Nat) /\ Len(dropped') = Len(calls')
      /\ \A c \in CallId : dropped'[c] = dropped[c]
      /\ dropped'[Len(calls')] = 0
  BY <1>2, <1>3, <1>4
<1>6. /\ errors' \in Seq(Nat) /\ Len(errors') = Len(calls')
      /\ \A c \in CallId : errors'[c] = errors[c]
      /\ errors'[Len(calls')] = 0
  BY <1>2, <1>3, <1>4
<1> QED
  BY <1>1, <1>4, <1>5, <1>6

\* What an attempt adds to the counts of its call.
LEMMA CountSteps ==
  ASSUME ClientInv, NEW c \in CallId,
         Attempt(c) \/ DialFails(c) \/ FailOnDrop(c)
  PROVE  /\ dropped' \in Seq(Nat) /\ Len(dropped') = Len(calls)
         /\ errors' \in Seq(Nat) /\ Len(errors') = Len(calls)
         /\ \A d \in CallId :
              d # c => dropped'[d] = dropped[d] /\ errors'[d] = errors[d]
         /\ \/ /\ dropped'[c] = dropped[c] /\ errors'[c] = errors[c]
               /\ resets' = resets
               /\ client' = client \/ (client = None /\ calls[c].at = "dial")
            \/ /\ resets' = resets + 1 /\ client' = None
               /\ connections' = connections
               /\ errors'[c] = errors[c] + 1
               /\ \/ dropped'[c] = dropped[c] + 1
                  \/ /\ dropped'[c] = dropped[c]
                     /\ calls[c].uses \in broken /\ calls'[c].uses = None
<1>1. /\ calls \in Seq(Call) /\ c \in 1 .. Len(calls) /\ CallId = 1 .. Len(calls)
      /\ dropped \in Seq(Nat) /\ errors \in Seq(Nat)
      /\ Len(dropped) = Len(calls) /\ Len(errors) = Len(calls)
  BY DEF ClientInv, ClientType, CallId
<1>2. CASE LookForClient(c) \/ Dial(c) \/ DialFails(c) \/ ReturnClient(c)
             \/ Succeed(c)
  <2>1. UNCHANGED <<dropped, errors, resets>>
    BY <1>2 DEF LookForClient, Dial, DialFails, ReturnClient, Succeed
  <2>2. client' = client \/ (client = None /\ calls[c].at = "dial")
    <3>1. calls[c].at = "dial" => client = None
      BY DEF ClientInv, OneInside
    <3>2. CASE Dial(c)
      BY <3>1, <3>2 DEF Dial
    <3>3. CASE LookForClient(c)
      BY <3>3 DEF LookForClient
    <3>4. CASE DialFails(c)
      BY <3>4 DEF DialFails
    <3>5. CASE ReturnClient(c)
      BY <3>5 DEF ReturnClient
    <3>6. CASE Succeed(c)
      BY <3>6 DEF Succeed
    <3> QED
      BY <1>2, <3>2, <3>3, <3>4, <3>5, <3>6
  <2> QED
    BY <1>1, <2>1, <2>2
<1>3. ASSUME Err(c)
      PROVE  /\ errors' \in Seq(Nat) /\ Len(errors') = Len(calls)
             /\ \A d \in CallId : d # c => errors'[d] = errors[d]
             /\ errors'[c] = errors[c] + 1
             /\ resets' = resets + 1 /\ client' = None
             /\ connections' = connections
             /\ calls'[c].uses = None
  <2>1. calls' = [calls EXCEPT ![c] = Failed(c)]
    BY <1>3 DEF Err, Becomes
  <2>2. calls'[c].uses = None
    <3>1. calls'[c] = Failed(c)
      BY <1>1, <2>1
    <3> QED
      BY <3>1, CallTypes
  <2>3. errors' = [errors EXCEPT ![c] = errors[c] + 1]
    BY <1>3 DEF Err
  <2> QED
    BY <1>1, <1>3, <2>2, <2>3 DEF Err, Reset
<1>4. CASE FailOnBroken(c)
  BY <1>1, <1>3, <1>4 DEF FailOnBroken
<1>5. CASE FailOnDrop(c)
  <2>1. dropped' = [dropped EXCEPT ![c] = dropped[c] + 1]
    BY <1>5 DEF FailOnDrop
  <2>2. /\ dropped' \in Seq(Nat) /\ Len(dropped') = Len(calls)
        /\ \A d \in CallId : d # c => dropped'[d] = dropped[d]
        /\ dropped'[c] = dropped[c] + 1
    BY <1>1, <2>1
  <2> QED
    BY <1>3, <1>5, <2>2 DEF FailOnDrop
<1> QED
  BY <1>2, <1>4, <1>5 DEF Attempt

LEMMA ClientTypeStep ==
  ASSUME ClientInv, ClientStep
  PROVE  ClientType'
<1>1. CASE BeginCall
  <2>1. /\ client' \in Nat /\ connections' \in Nat /\ lockedBy' \in Nat
        /\ broken' \in SUBSET (1 .. connections') /\ client' <= connections'
        /\ resets' \in Nat
    BY <1>1 DEF BeginCall, ClientInv, ClientType
  <2>2. \A c \in CallId' : calls'[c].uses <= connections'
    <3> SUFFICES ASSUME NEW c \in CallId' PROVE calls'[c].uses <= connections'
      OBVIOUS
    <3>1. CASE c \in CallId
      <4>1. calls'[c] = calls[c]
        BY <1>1, <3>1, NewCall
      <4>2. calls[c].uses <= connections /\ connections' = connections
        BY <1>1, <3>1, CallTypes DEF BeginCall
      <4> QED
        BY <4>1, <4>2
    <3>2. CASE c \notin CallId
      <4>1. c = Len(calls')
        <5>1. /\ CallId' = 1 .. Len(calls)' /\ CallId = 1 .. Len(calls)
              /\ Len(calls') = Len(calls) + 1 /\ Len(calls) \in Nat
          BY <1>1, NewCall DEF ClientInv, ClientType
        <5> QED
          BY <3>2, <5>1
      <4>2. calls'[c].uses = 0
        BY <1>1, <4>1, NewCall DEF None
      <4> QED
        BY <2>1, <4>2
    <3> QED
      BY <3>1, <3>2
  <2> QED
    BY <1>1, <2>1, <2>2, NewCall DEF ClientType
<1>2. CASE Break
  BY <1>2 DEF Break, CallId, ClientInv, ClientType
<1>3. ASSUME NEW c \in CallId, Attempt(c) \/ DialFails(c) \/ FailOnDrop(c)
      PROVE  ClientType'
  <2>1. PICK new : Becoming(c, new)
    BY <1>3, CallSteps
  <2>2. /\ connections \in Nat /\ client \in Nat /\ client <= connections
        /\ lockedBy \in Nat /\ resets \in Nat
        /\ broken \subseteq 1 .. connections
    BY DEF ClientInv, ClientType
  <2>3. calls[c].uses \in Nat /\ calls[c].uses <= connections /\ c \in Nat
    BY CallTypes
  <2>4. /\ connections' \in Nat /\ connections' >= connections
        /\ client' \in Nat /\ client' <= connections' /\ lockedBy' \in Nat
        /\ broken' \subseteq 1 .. connections'
    BY <2>1, <2>2, <2>3 DEF Becoming, None
  <2>5. new \in Call /\ new.uses <= connections'
    BY <2>1, <2>2, <2>3, <2>4 DEF Becoming, None
  <2>6. /\ calls' \in Seq(Call) /\ Len(calls') = Len(calls)
        /\ \A d \in CallId' : calls'[d].uses <= connections'
    BY <2>1, <2>4, <2>5, OneCallChanges DEF Becoming
  <2>7. /\ dropped' \in Seq(Nat) /\ Len(dropped') = Len(calls)
        /\ errors' \in Seq(Nat) /\ Len(errors') = Len(calls)
        /\ resets' \in Nat
    BY <1>3, <2>2, CountSteps
  <2> QED
    BY <2>4, <2>6, <2>7 DEF ClientType
<1> QED
  BY <1>1, <1>2, <1>3, ClientStepCases

LEMMA OneInsideStep ==
  ASSUME ClientInv, ClientStep
  PROVE  OneInside'
<1> SUFFICES ASSUME NEW d \in CallId'
             PROVE  /\ calls'[d].at \in {"dial", "return"} => lockedBy' = d
                    /\ calls'[d].at = "dial" => client' = None
  BY DEF OneInside
<1>1. CASE BeginCall
  <2>1. CASE d \in CallId
    <3>1. calls'[d] = calls[d]
      BY <1>1, <2>1, NewCall
    <3>2. lockedBy' = lockedBy /\ client' = client
      BY <1>1 DEF BeginCall
    <3> QED
      BY <2>1, <3>1, <3>2 DEF ClientInv, OneInside
  <2>2. CASE d \notin CallId
    <3>1. /\ CallId' = 1 .. Len(calls)' /\ CallId = 1 .. Len(calls)
          /\ Len(calls') = Len(calls) + 1 /\ Len(calls) \in Nat
      BY <1>1, NewCall DEF ClientInv, ClientType
    <3>2. d = Len(calls')
      BY <2>2, <3>1
    <3>3. calls'[d].at = "get"
      BY <1>1, <3>2, NewCall
    <3> QED
      BY <3>3
  <2> QED
    BY <2>1, <2>2
<1>2. CASE Break
  BY <1>2 DEF Break, CallId, ClientInv, OneInside
<1>3. ASSUME NEW c \in CallId, Attempt(c) \/ DialFails(c) \/ FailOnDrop(c)
      PROVE  /\ calls'[d].at \in {"dial", "return"} => lockedBy' = d
             /\ calls'[d].at = "dial" => client' = None
  <2>1. PICK new : Becoming(c, new)
    BY <1>3, CallSteps
  <2>2. /\ connections' \in Nat /\ connections' >= connections
        /\ new.uses <= connections'
    <3>1. /\ connections \in Nat /\ client <= connections /\ client \in Nat
          /\ calls[c].uses <= connections /\ calls[c].uses \in Nat
      BY CallTypes DEF ClientInv, ClientType
    <3> QED
      BY <2>1, <3>1 DEF Becoming, None
  <2>3. /\ d \in CallId /\ calls'[c] = new
        /\ d # c => calls'[d] = calls[d]
    BY <2>1, <2>2, OneCallChanges DEF Becoming
  <2>4. CASE d = c
    BY <2>1, <2>3, <2>4 DEF Becoming
  <2>5. CASE d # c
    <3>1. /\ calls[d].at \in {"dial", "return"} => lockedBy = d
          /\ calls[d].at = "dial" => client = None
          /\ calls[c].at \in {"dial", "return"} => lockedBy = c
      BY <2>3 DEF ClientInv, OneInside
    <3>2. lockedBy = d => lockedBy' = d
      BY <2>1, <2>3, <2>5, <3>1, CallTypes DEF Becoming
    <3>3. calls[d].at = "dial" => client' = None
      BY <2>1, <2>5, <3>1 DEF Becoming
    <3> QED
      BY <2>3, <2>5, <3>1, <3>2, <3>3
  <2> QED
    BY <2>4, <2>5
<1> QED
  BY <1>1, <1>2, <1>3, ClientStepCases

LEMMA OneLeftPerResetStep ==
  ASSUME ClientInv, ClientStep
  PROVE  OneLeftPerReset'
<1> USE DEF None
<1>1. /\ connections \in Nat /\ resets \in Nat /\ client \in Nat
      /\ connections <= resets + (IF client = None THEN 0 ELSE 1)
  BY DEF ClientInv, ClientType, OneLeftPerReset
<1>2. CASE BeginCall
  BY <1>1, <1>2 DEF BeginCall, OneLeftPerReset
<1>3. CASE Break
  BY <1>1, <1>3 DEF Break, OneLeftPerReset
<1>4. ASSUME NEW c \in CallId, Attempt(c) \/ DialFails(c) \/ FailOnDrop(c)
      PROVE  OneLeftPerReset'
  <2>1. PICK new : Becoming(c, new)
    BY <1>4, CallSteps
  <2>2. CASE resets' = resets + 1 /\ client' = None /\ connections' = connections
    BY <1>1, <2>2 DEF OneLeftPerReset
  <2>3. CASE resets' = resets /\ client' = client
    <3>1. connections' = connections
      BY <1>1, <2>1, <2>3 DEF Becoming, ClientInv, ClientType
    <3> QED
      BY <1>1, <2>3, <3>1 DEF OneLeftPerReset
  <2>4. CASE resets' = resets /\ client = None /\ client' # client
    <3>1. client' = connections' /\ connections' = connections + 1
      BY <2>1, <2>4 DEF Becoming
    <3> QED
      BY <1>1, <2>4, <3>1 DEF OneLeftPerReset
  <2> QED
    BY <1>4, <2>2, <2>3, <2>4, CountSteps
<1> QED
  BY <1>2, <1>3, <1>4, ClientStepCases

LEMMA ErrorsArePastStep ==
  ASSUME ClientInv, ClientStep
  PROVE  ErrorsArePast'
<1>1. ClientType' /\ ClientType
  BY ClientTypeStep DEF ClientInv
<1>2. IsFiniteSet(broken) /\ IsFiniteSet(broken')
  <2>1. connections' \in Int /\ broken' \in SUBSET (1 .. connections')
    BY <1>1 DEF ClientType
  <2>2. IsFiniteSet(1 .. connections')
    BY <2>1, FS_Interval
  <2>3. IsFiniteSet(broken')
    BY <2>1, <2>2, FS_Subset
  <2> QED
    BY <1>1, <2>3, BrokenFinite
<1> SUFFICES ASSUME NEW d \in CallId'
             PROVE  errors'[d] <= dropped'[d] + Cardinality(Past(d)')
  BY DEF ErrorsArePast
<1>3. ASSUME d \in CallId
      PROVE  /\ errors[d] \in Nat /\ dropped[d] \in Nat
             /\ errors[d] <= dropped[d] + Cardinality(Past(d))
  BY <1>3, CallTypes DEF ClientInv, ErrorsArePast
<1>4. CASE BeginCall
  <2>1. CASE d \in CallId
    <3>1. Cardinality(Past(d)) <= Cardinality(Past(d)')
                /\ Cardinality(Past(d)) \in Nat /\ Cardinality(Past(d)') \in Nat
      BY <1>2, <1>4, <2>1, NewCall, PastStays DEF BeginCall
    <3>2. errors'[d] = errors[d] /\ dropped'[d] = dropped[d]
      BY <1>4, <2>1, NewCall
    <3> QED
      BY <1>3, <2>1, <3>1, <3>2
  <2>2. CASE d \notin CallId
    <3>1. errors'[d] = 0 /\ dropped'[d] = 0
      BY <1>4, <2>2, NewCall DEF ClientInv, ClientType
    <3>2. Past(d)' \subseteq broken'
      BY DEF Past
    <3>3. Cardinality(Past(d)') \in Nat
      BY <1>2, <3>2, FS_Subset, FS_CardinalityType
    <3> QED
      BY <3>1, <3>3
  <2> QED
    BY <2>1, <2>2
<1>5. CASE Break
  <2>1. /\ d \in CallId /\ calls' = calls /\ client' = client
        /\ broken \subseteq broken' /\ UNCHANGED <<dropped, errors>>
    BY <1>5 DEF Break, CallId
  <2>2. Cardinality(Past(d)) <= Cardinality(Past(d)')
              /\ Cardinality(Past(d)) \in Nat /\ Cardinality(Past(d)') \in Nat
    BY <1>2, <2>1, PastStays
  <2> QED
    BY <1>3, <2>1, <2>2
<1>6. ASSUME NEW c \in CallId, Attempt(c) \/ DialFails(c) \/ FailOnDrop(c)
      PROVE  errors'[d] <= dropped'[d] + Cardinality(Past(d)')
  <2>1. PICK new : Becoming(c, new)
    BY <1>6, CallSteps
  <2>2. /\ connections \in Nat /\ client \in Nat /\ client <= connections
        /\ broken \subseteq 1 .. connections
        /\ calls[c].uses \in Nat /\ calls[c].uses <= connections
    BY CallTypes DEF ClientInv, ClientType
  <2>3. /\ connections' \in Nat /\ connections' >= connections
        /\ new.uses <= connections'
    BY <2>1, <2>2 DEF Becoming, None
  <2>4. /\ d \in CallId /\ calls'[c] = new
        /\ d # c => calls'[d] = calls[d]
    BY <2>1, <2>3, OneCallChanges DEF Becoming
  <2>5. client' = client \/ client' \notin broken
    BY <2>1, <2>2 DEF Becoming, None
  <2>6. /\ Past(d) \subseteq Past(d)' /\ IsFiniteSet(Past(d)')
        /\ IsFiniteSet(Past(d))
        /\ Cardinality(Past(d)) <= Cardinality(Past(d)')
        /\ Cardinality(Past(d)) \in Nat /\ Cardinality(Past(d)') \in Nat
    <3>1. calls'[d].uses \in {calls[d].uses, client, None}
      BY <2>1, <2>4 DEF Becoming
    <3>2. broken' = broken
      BY <2>1 DEF Becoming
    <3> QED
      BY <1>2, <2>4, <2>5, <3>1, <3>2, PastStays
  <2>7. CASE d # c
    <3>1. errors'[d] = errors[d] /\ dropped'[d] = dropped[d]
      BY <1>6, <2>4, <2>7, CountSteps
    <3> QED
      BY <1>3, <2>4, <2>6, <3>1
  <2>8. CASE d = c /\ errors'[c] = errors[c] /\ dropped'[c] = dropped[c]
    BY <1>3, <2>4, <2>6, <2>8
  <2>9. CASE d = c /\ errors'[c] = errors[c] + 1 /\ dropped'[c] = dropped[c] + 1
    BY <1>3, <2>4, <2>6, <2>9
  <2>10. CASE /\ d = c /\ errors'[c] = errors[c] + 1
              /\ dropped'[c] = dropped[c] /\ client' = None
              /\ calls[c].uses \in broken /\ calls'[c].uses = None
    <3>1. Past(c) \cup {calls[c].uses} \subseteq Past(c)'
      BY <2>1, <2>2, <2>6, <2>10 DEF Past, Becoming, None
    <3>2. calls[c].uses \notin Past(c)
      BY DEF Past
    <3>3. Cardinality(Past(c) \cup {calls[c].uses}) = Cardinality(Past(c)) + 1
      BY <2>6, <2>10, <3>2, FS_AddElement
    <3>4. Cardinality(Past(c)) + 1 <= Cardinality(Past(c)')
      BY <2>6, <2>10, <3>1, <3>3, FS_Subset
    <3> QED
      BY <1>3, <2>4, <2>6, <2>10, <3>4
  <2> QED
    BY <1>6, <2>7, <2>8, <2>9, <2>10, CountSteps
<1> QED
  BY <1>4, <1>5, <1>6, ClientStepCases

LEMMA ClientInvariant == Spec => []ClientInv
<1>1. Init => ClientInv
  BY ClientInvInit DEF Init
<1>2. ClientInv /\ [Next]_vars => ClientInv'
  <2> SUFFICES ASSUME ClientInv, [Next]_vars PROVE ClientInv'
    OBVIOUS
  <2>1. CASE ClientStep
    BY <2>1, ClientTypeStep, OneInsideStep, OneLeftPerResetStep,
       ErrorsArePastStep
    DEF ClientInv
  <2>2. CASE UNCHANGED clients
    BY <2>2 DEF clients, ClientInv, ClientType, OneInside, ErrorsArePast,
                OneLeftPerReset, Past, CallId
  <2>3. ClientStep \/ UNCHANGED clients
    BY DEF Next, ClientStep, Serve, PeerMoves, TimerIsSet, AnimateBar, Show,
           Mishap, CallIsMade, CallGoesOn, CallMeetsFault, vars
  <2> QED
    BY <2>1, <2>2, <2>3
<1> QED
  BY <1>1, <1>2, PTL DEF Spec

\* A call meets a broken connection once at most: for any number of calls that
\* share the client, of tries and of faults (getClient, Call).
THEOREM BrokenAreMetOnce == Spec => []BrokenMetOnce
<1>1. ClientInv => BrokenMetOnce
  <2> SUFFICES ASSUME ClientInv, NEW c \in CallId
               PROVE  errors[c] <= dropped[c] + Cardinality(broken)
    BY DEF BrokenMetOnce
  <2>1. IsFiniteSet(broken) /\ Past(c) \subseteq broken
    BY BrokenFinite DEF ClientInv, Past
  <2>2. Cardinality(Past(c)) <= Cardinality(broken)
    BY <2>1, FS_Subset
  <2>3. Cardinality(Past(c)) \in Nat /\ Cardinality(broken) \in Nat
    BY <2>1, FS_Subset, FS_CardinalityType
  <2>4. /\ errors[c] \in Nat /\ dropped[c] \in Nat
        /\ errors[c] <= dropped[c] + Cardinality(Past(c))
    BY CallTypes DEF ClientInv, ErrorsArePast
  <2> QED
    BY <2>2, <2>3, <2>4
<1> QED
  BY <1>1, ClientInvariant, PTL

\* No more connections are made than one, and one for each reset, whichever
\* calls look for one at the same time (getClient, Call).
THEOREM ConnectionsAreBounded == Spec => []OneConnectionPerError
<1>1. ClientInv => OneConnectionPerError
  BY DEF ClientInv, ClientType, OneLeftPerReset, OneConnectionPerError
<1> QED
  BY <1>1, ClientInvariant, PTL

-----------------------------------------------------------------------------
(***************************************************************************)
(* The state of the peer on the display                                     *)
(***************************************************************************)

States == {"Follower", "Candidate", "Leader"}
Snapshot == [state : States, term : Nat]
Stage == [next : {"state", "read", "bar", "term"}, read : Int]

DisplayType ==
  /\ state \in States /\ term \in Nat
  /\ sent \in Seq(Snapshot)
  /\ onWay \subseteq 1 .. Len(sent)
  /\ DOMAIN drawing \subseteq 1 .. Len(sent)
  /\ shown \in [state : States \cup {"none"}, term : Int]
  /\ intact \in -1 .. Len(sent)
  /\ intact = 0 => Len(sent) > 0
  /\ unsaid \in BOOLEAN

\* What was said last, unless nothing was said, is how things are.
LastSaid == ~unsaid => Len(sent) > 0 /\ sent[Len(sent)] = Now

\* The event that is drawn alone has drawn what it should have by now.
AloneDrawn ==
  intact > 0 =>
    /\ DOMAIN drawing \subseteq {intact}
    /\ (intact \in DOMAIN drawing => drawing[intact].next # "state") =>
         shown.state = sent[intact].state
    /\ DOMAIN drawing = {} => shown.term = Digits(sent[intact].term)

\* What is dark will be drawn.
DarkIsDrawn ==
  intact # Never =>
    /\ shown.state = "none" =>
         \E e \in DOMAIN drawing : drawing[e].next = "state"
    /\ shown.term = -1 => DOMAIN drawing # {}

DisplayInv == DisplayType /\ LastSaid /\ AloneDrawn /\ DarkIsDrawn

LEMMA DisplayInvInit == DisplayInit => DisplayInv
<1> SUFFICES ASSUME DisplayInit PROVE DisplayInv
  OBVIOUS
<1>1. DOMAIN drawing = {} /\ Len(sent) = 0 /\ sent \in Seq(Snapshot)
  BY DEF DisplayInit
<1>2. DisplayType
  BY <1>1 DEF DisplayInit, PeerInit, DisplayType, States, AllDark, Never
<1>3. LastSaid /\ AloneDrawn /\ DarkIsDrawn
  BY DEF DisplayInit, LastSaid, AloneDrawn, DarkIsDrawn, Never
<1> QED
  BY <1>2, <1>3 DEF DisplayInv

\* Sending leaves what was sent before.
LEMMA Sending ==
  ASSUME DisplayInv, state' \in States, term' \in Nat,
         NEW snapshots \in Seq(Snapshot), Send(snapshots),
         unsaid' \in BOOLEAN,
         unsaid' \/ (Len(snapshots) > 0 /\ snapshots[Len(snapshots)] = Now')
  PROVE  DisplayInv'
<1>1. /\ sent \in Seq(Snapshot) /\ sent' = sent \o snapshots
      /\ Len(snapshots) \in Nat
  BY DEF DisplayInv, DisplayType, Send
<1>2. /\ sent' \in Seq(Snapshot) /\ Len(sent') = Len(sent) + Len(snapshots)
      /\ \A e \in 1 .. Len(sent) : sent'[e] = sent[e]
      /\ Len(snapshots) > 0 => sent'[Len(sent')] = snapshots[Len(snapshots)]
  BY <1>1
<1>3. Len(sent) \in Nat /\ Len(sent') \in Nat
  BY <1>1, <1>2
<1>4. DisplayType'
  <2>1. 1 .. Len(sent) \subseteq 1 .. Len(sent')
    BY <1>2, <1>3
  <2>2. onWay' \subseteq 1 .. Len(sent')
    <3>1. onWay' = onWay \cup (Len(sent) + 1 .. Len(sent'))
      BY DEF Send
    <3>2. onWay \subseteq 1 .. Len(sent)
      BY DEF DisplayInv, DisplayType
    <3>3. (Len(sent) + 1 .. Len(sent')) \subseteq 1 .. Len(sent')
      BY <1>3
    <3> QED
      BY <2>1, <3>1, <3>2, <3>3, Zenon
  <2>3. /\ DOMAIN drawing' \subseteq 1 .. Len(sent')
        /\ shown' \in [state : States \cup {"none"}, term : Int]
    BY <2>1 DEF DisplayInv, DisplayType, Send
  <2>4. intact' \in -1 .. Len(sent') /\ (intact' = 0 => Len(sent') > 0)
    BY <1>1, <1>2, <1>3 DEF DisplayInv, DisplayType, Send
  <2> QED
    BY <1>2, <2>2, <2>3, <2>4 DEF DisplayType
<1>5. LastSaid'
  BY <1>1, <1>2, <1>3 DEF LastSaid
<1>6. AloneDrawn'
  <2>1. intact > 0 => intact \in 1 .. Len(sent)
    BY DEF DisplayInv, DisplayType
  <2> QED
    BY <1>2, <2>1 DEF DisplayInv, AloneDrawn, Send
<1>7. DarkIsDrawn'
  BY DEF DisplayInv, DarkIsDrawn, Send
<1> QED
  BY <1>4, <1>5, <1>6, <1>7 DEF DisplayInv

LEMMA PeerActsStep ==
  ASSUME DisplayInv, PeerActs
  PROVE  DisplayInv'
<1>1. state \in States /\ term \in Nat /\ Now \in Snapshot
  BY DEF DisplayInv, DisplayType, Now, Snapshot
<1>2. ASSUME state' \in States, term' \in Nat, unsaid' = FALSE,
             Send(<<Now'>>) \/ Send(<<Now', Now'>>) \/ Send(<<Now, Now'>>)
      PROVE  DisplayInv'
  <2>1. Now' \in Snapshot
    BY <1>2 DEF Now, Snapshot
  <2>2. PICK snapshots \in {<<Now'>>, <<Now', Now'>>, <<Now, Now'>>} :
          Send(snapshots)
    BY <1>2
  <2>3. /\ snapshots \in Seq(Snapshot) /\ Len(snapshots) > 0
        /\ snapshots[Len(snapshots)] = Now'
    BY <1>1, <2>1, <2>2
  <2> QED
    BY <1>2, <2>2, <2>3, Sending
<1>3. CASE SayCampaign
  <2>1. state' \in States /\ term' \in Nat
    BY <1>1, <1>3 DEF SayCampaign, Campaign, States
  <2> QED
    BY <1>2, <1>3, <2>1 DEF SayCampaign, Changed
<1>4. CASE SayWin
  <2>1. state' \in States /\ term' \in Nat
    BY <1>1, <1>4 DEF SayWin, Win, States
  <2> QED
    BY <1>2, <1>4, <2>1 DEF SayWin, Changed
<1>5. CASE SayNothingNew
  <2>1. state' \in States /\ term' \in Nat
    BY <1>1, <1>5 DEF SayNothingNew, peer
  <2> QED
    BY <1>2, <1>5, <2>1 DEF SayNothingNew, Changed
<1>6. CASE PeerRestarts
  <2>1. state' \in States /\ term' \in Nat
    BY <1>1, <1>6 DEF PeerRestarts, Follow, States
  <2>2. /\ UNCHANGED <<sent, drawing, shown, intact>>
        /\ onWay' = {} /\ unsaid' = TRUE
    BY <1>6 DEF PeerRestarts
  <2> QED
    BY <2>1, <2>2
    DEF DisplayInv, DisplayType, LastSaid, AloneDrawn, DarkIsDrawn
<1>7. ASSUME NEW t \in {term, term + 1}, SayFollow(t) \/ SayFollowBeforehand(t)
      PROVE  DisplayInv'
  <2>1. state' \in States /\ term' \in Nat
    BY <1>1, <1>7 DEF SayFollow, SayFollowBeforehand, Follow, States
  <2>2. CASE SayFollow(t)
    BY <1>2, <2>1, <2>2 DEF SayFollow, Changed
  <2>3. CASE SayFollowBeforehand(t)
    <3>1. <<Now>> \in Seq(Snapshot)
      BY <1>1
    <3> QED
      BY <2>1, <2>3, <3>1, Sending DEF SayFollowBeforehand
  <2> QED
    BY <1>7, <2>2, <2>3
<1> QED
  BY <1>3, <1>4, <1>5, <1>6, <1>7 DEF PeerActs

LEMMA ReceiveStep ==
  ASSUME DisplayInv, NEW e, Receive(e)
  PROVE  DisplayInv'
<1>1. /\ e \in 1 .. Len(sent) /\ Len(sent) \in Nat
      /\ sent \in Seq(Snapshot) /\ e \in Nat \ {0}
  BY DEF Receive, DisplayInv, DisplayType
<1>2. /\ DOMAIN drawing' = DOMAIN drawing \cup {e}
      /\ drawing'[e].next = "state"
  BY DEF Receive
<1>3. /\ shown' = AllDark /\ UNCHANGED <<state, term, sent, onWay, unsaid>>
      /\ intact' = IF DOMAIN drawing = {} THEN e ELSE 0
  BY DEF Receive, peer
<1>4. DisplayType'
  <2>1. shown' \in [state : States \cup {"none"}, term : Int]
    BY <1>3 DEF AllDark
  <2>2. intact' \in -1 .. Len(sent') /\ (intact' = 0 => Len(sent') > 0)
    BY <1>1, <1>3
  <2>3. DOMAIN drawing' \subseteq 1 .. Len(sent')
    BY <1>1, <1>2, <1>3 DEF DisplayInv, DisplayType
  <2> QED
    BY <1>3, <2>1, <2>2, <2>3 DEF DisplayInv, DisplayType
<1>5. LastSaid'
  BY <1>3 DEF DisplayInv, LastSaid, Now
<1>6. AloneDrawn'
  BY <1>2, <1>3 DEF AloneDrawn
<1>7. DarkIsDrawn'
  BY <1>2 DEF DarkIsDrawn
<1> QED
  BY <1>4, <1>5, <1>6, <1>7 DEF DisplayInv

LEMMA DrawStep ==
  ASSUME DisplayInv, NEW e, NEW answered \in BOOLEAN, Draw(e, answered)
  PROVE  DisplayInv'
<1>1. /\ e \in DOMAIN drawing /\ e \in 1 .. Len(sent)
      /\ shown \in [state : States \cup {"none"}, term : Int]
      /\ sent[e].state \in States /\ sent[e].term \in Nat
  <2>1. e \in DOMAIN drawing /\ e \in 1 .. Len(sent) /\ sent \in Seq(Snapshot)
    BY DEF Draw, DisplayInv, DisplayType
  <2>2. sent[e] \in Snapshot
    BY <2>1
  <2> QED
    BY <2>1, <2>2 DEF Snapshot, DisplayInv, DisplayType
<1>2. /\ UNCHANGED <<state, term, sent, intact, unsaid>>
      /\ onWay' \subseteq onWay
  BY DEF Draw, peer, DrawState, ReadBar, DrawBar, DrawTerm
<1>3. /\ DOMAIN drawing' \subseteq DOMAIN drawing
      /\ shown' \in [state : States \cup {"none"}, term : Int]
      => DisplayType' /\ LastSaid'
  BY <1>2 DEF DisplayInv, DisplayType, LastSaid, Now
<1>4. intact > 0 => DOMAIN drawing = {intact} /\ e = intact
  BY <1>1 DEF DisplayInv, AloneDrawn
<1>5. CASE DrawState(e)
  <2>1. /\ DOMAIN drawing' = DOMAIN drawing
        /\ shown' = [shown EXCEPT !.state = sent[e].state]
    BY <1>5 DEF DrawState, Drawn
  <2>2. /\ shown'.state = sent[e].state /\ shown'.term = shown.term
        /\ shown' \in [state : States \cup {"none"}, term : Int]
    BY <1>1, <2>1
  <2>3. AloneDrawn'
    BY <1>1, <1>2, <1>4, <2>1, <2>2 DEF AloneDrawn
  <2>4. DarkIsDrawn'
    BY <1>1, <1>2, <2>1, <2>2 DEF DarkIsDrawn, DisplayInv, States
  <2> QED
    BY <1>3, <2>1, <2>2, <2>3, <2>4 DEF DisplayInv
<1>6. CASE ReadBar(e) \/ DrawBar(e)
  <2>1. /\ DOMAIN drawing' = DOMAIN drawing /\ shown' = shown
        /\ \A d \in DOMAIN drawing : d # e => drawing'[d] = drawing[d]
        /\ drawing[e].next # "state"
    BY <1>6 DEF ReadBar, DrawBar
  <2>2. AloneDrawn'
    BY <1>1, <1>2, <1>4, <2>1 DEF AloneDrawn, DisplayInv
  <2>3. DarkIsDrawn'
    BY <1>1, <1>2, <2>1 DEF DarkIsDrawn, DisplayInv
  <2> QED
    BY <1>1, <1>3, <2>1, <2>2, <2>3 DEF DisplayInv
<1>7. CASE DrawTerm(e, answered)
  <2>1. /\ drawing' = [d \in DOMAIN drawing \ {e} |-> drawing[d]]
        /\ shown' = [shown EXCEPT !.term = Digits(sent[e].term)]
        /\ drawing[e].next # "state"
    BY <1>7 DEF DrawTerm, Drawn, Restrict
  <2>2. Digits(sent[e].term) \in Nat
    BY <1>1 DEF Digits
  <2>3. /\ shown'.state = shown.state /\ shown'.term = Digits(sent[e].term)
        /\ shown' \in [state : States \cup {"none"}, term : Int]
    BY <1>1, <2>1, <2>2
  <2>4. AloneDrawn'
    BY <1>1, <1>2, <1>4, <2>1, <2>3 DEF AloneDrawn, DisplayInv
  <2>5. DarkIsDrawn'
    BY <1>1, <1>2, <2>1, <2>2, <2>3 DEF DarkIsDrawn, DisplayInv
  <2> QED
    BY <1>3, <2>1, <2>3, <2>4, <2>5 DEF DisplayInv
<1> QED
  BY <1>5, <1>6, <1>7 DEF Draw

LEMMA DisplayInvariant == Spec => []DisplayInv
<1>1. Init => DisplayInv
  BY DisplayInvInit DEF Init
<1>2. DisplayInv /\ [Next]_vars => DisplayInv'
  <2> SUFFICES ASSUME DisplayInv, [Next]_vars PROVE DisplayInv'
    OBVIOUS
  <2>1. CASE UNCHANGED <<state, term, sent, drawing, shown, intact, unsaid>>
                /\ onWay' \subseteq onWay
    BY <2>1 DEF DisplayInv, DisplayType, LastSaid, AloneDrawn, DarkIsDrawn, Now
  <2>2. CASE PeerMoves
    BY <2>2, PeerActsStep DEF PeerMoves
  <2>3. CASE AnimateBar
    BY <2>1, <2>3 DEF AnimateBar, AnimateOnDisplay, peer
  <2>4. ASSUME NEW e, Show(e) \/ Mishap(e)
        PROVE  DisplayInv'
    <3>1. CASE Receive(e)
      BY <3>1, ReceiveStep
    <3>2. CASE Draw(e, TRUE) \/ Draw(e, FALSE)
      BY <3>2, DrawStep
    <3>3. CASE GiveUp(e)
      BY <2>1, <3>3 DEF GiveUp, peer
    <3> QED
      BY <2>4, <3>1, <3>2, <3>3 DEF Show, Mishap
  <2>5. CASE Serve \/ TimerIsSet \/ CallIsMade \/ CallGoesOn \/ CallMeetsFault
                \/ UNCHANGED vars
    BY <2>1, <2>5 DEF Serve, TimerIsSet, CallIsMade, CallGoesOn, CallMeetsFault,
                      vars, display, events, peer
  <2> QED
    BY <2>2, <2>3, <2>4, <2>5 DEF Next
<1> QED
  BY <1>1, <1>2, PTL DEF Spec

\* The display settles on the peer: for any number of events, sent and drawn in
\* any order, many at once, again or not at all (onStateUpdated).
THEOREM DisplaySettles == Spec => []DisplayShowsPeer
<1>1. DisplayInv => DisplayShowsPeer
  <2> SUFFICES ASSUME DisplayInv, intact = Len(sent), DOMAIN drawing = {},
                      ~unsaid
               PROVE  shown = [state |-> state, term |-> Digits(term)]
    BY DEF DisplayShowsPeer
  <2>1. intact > 0 /\ sent[intact] = Now
    BY DEF DisplayInv, DisplayType, LastSaid
  <2>2. shown.state = state /\ shown.term = Digits(term)
    BY <2>1 DEF DisplayInv, AloneDrawn, Now
  <2> QED
    BY <2>2 DEF DisplayInv, DisplayType
<1> QED
  BY <1>1, DisplayInvariant, PTL

\* However many events are drawn into the frame at once, no part of it is dark
\* when they are done (onStateUpdated).
THEOREM DisplayIsLit == Spec => []NotLeftDark
<1>1. DisplayInv => NotLeftDark
  BY DEF DisplayInv, DarkIsDrawn, NotLeftDark, AllDark
<1> QED
  BY <1>1, DisplayInvariant, PTL

-----------------------------------------------------------------------------
(***************************************************************************)
(* The bar                                                                  *)
(***************************************************************************)

BarPlaces == {"increment", "reread", "display", "wipe", "fill", "asleep", "over"}

AnimationType ==
  [at : BarPlaces, index : Int, i : Int, awaits : SUBSET Nat]

BarType ==
  /\ timeoutIndex \in Int
  /\ animations \in Seq(AnimationType)
  /\ raced \in BOOLEAN

\* a's call of BeginTimeoutAnimation has not returned.
Begins(a) == animations[a].at \in {"increment", "reread"}

\* a will go on when it wakes.
IsCurrent(a) ==
  /\ animations[a].at \notin {"increment", "reread", "over"}
  /\ animations[a].index = timeoutIndex

\* Nobody holds an index that is still to come, and one who is about to write
\* timeoutIndex is going to change it.
IndexesArePast ==
  \A a \in Animation :
    /\ animations[a].at # "over" => animations[a].index <= timeoutIndex
    /\ animations[a].at = "increment" => animations[a].index = timeoutIndex

\* One call at a time, and between its write and its second read nobody else's
\* index is timeoutIndex.
OneAtATime ==
  /\ \A a, b \in Animation : Begins(a) /\ Begins(b) => a = b
  /\ \A a, b \in Animation :
       animations[a].at = "reread" => ~IsCurrent(b)
  /\ (\A a \in Animation : animations[a].at # "increment") =>
       \A a, b \in Animation : IsCurrent(a) /\ IsCurrent(b) => a = b

Orderly == ~raced => IndexesArePast /\ OneAtATime

BarInv == BarType /\ Orderly

LEMMA BarInvInit == TimeoutInit => BarInv
<1> SUFFICES ASSUME TimeoutInit PROVE BarInv
  OBVIOUS
<1>1. Animation = {} /\ timeoutIndex = 0 /\ raced = FALSE /\ animations = << >>
  BY DEF TimeoutInit, Animation
<1>2. BarType
  <2>1. << >> \in Seq(AnimationType)
    OBVIOUS
  <2>2. raced \in BOOLEAN
    BY <1>1, Zenon
  <2>3. timeoutIndex \in Int
    BY <1>1
  <2>4. animations \in Seq(AnimationType)
    BY <1>1, <2>1, Zenon
  <2> QED
    BY <2>2, <2>3, <2>4, Zenon DEF BarType
<1>3. IndexesArePast /\ OneAtATime
  BY <1>1 DEF IndexesArePast, OneAtATime
<1> QED
  BY <1>2, <1>3 DEF BarInv, Orderly

\* What the steps of an animation read and write.
LEMMA AnimationsAreRecords ==
  ASSUME BarType
  PROVE  /\ Animation = 1 .. Len(animations) /\ Len(animations) \in Nat
         /\ \A a \in Animation :
              /\ animations[a] \in AnimationType
              /\ animations[a].index \in Int /\ animations[a].i \in Int
<1>1. Animation = 1 .. Len(animations) /\ Len(animations) \in Nat
  BY DEF BarType, Animation
<1>2. \A a \in Animation : animations[a] \in AnimationType
  BY <1>1 DEF BarType
<1> QED
  BY <1>1, <1>2 DEF AnimationType

\* A new call keeps the types ...
LEMMA BeginTimeoutType ==
  ASSUME BarType, TimeoutAssumption, NEW b \in BeginIndex, BeginTimeout(b)
  PROVE  BarType'
<1>1. [at |-> "increment", index |-> timeoutIndex, i |-> b, awaits |-> {}]
        \in AnimationType
  BY TimeoutAssumption DEF BarType, AnimationType, BarPlaces
<1>2. animations' \in Seq(AnimationType)
  BY <1>1 DEF BeginTimeout, BarType
<1> QED
  BY <1>2 DEF BarType, BeginTimeout

\* ... and so does each step of an animation.
LEMMA AnimationStepType ==
  ASSUME BarType, NEW a \in Running,
         \/ Increment(a) \/ Reread(a)
         \/ SetDisplayIndex(a) \/ Wipe(a) \/ Fill(a) \/ Wake(a)
  PROVE  BarType'
<1>1. /\ a \in 1 .. Len(animations) /\ a \in Animation
      /\ Animation = 1 .. Len(animations) /\ Len(animations) \in Nat
      /\ \A o \in Animation : animations[o] \in AnimationType
      /\ animations[a] \in AnimationType
      /\ animations[a].index \in Int /\ animations[a].i \in Int
      /\ animations \in Seq(AnimationType)
  BY AnimationsAreRecords DEF Running, BarType
<1>2. timeoutIndex' \in Int /\ raced' \in BOOLEAN
  BY <1>1 DEF BarType, Increment, Reread, SetDisplayIndex, Wipe, Fill, Wake
<1>3. ASSUME NEW new \in AnimationType,
             animations' = [animations EXCEPT ![a] = new]
      PROVE  animations' \in Seq(AnimationType)
  BY <1>1, <1>3
<1>4. ASSUME NEW place \in BarPlaces, Goes(a, place)
      PROVE  animations' \in Seq(AnimationType)
  <2>1. [animations[a] EXCEPT !.at = place] \in AnimationType
    BY <1>1 DEF AnimationType
  <2> QED
    BY <1>3, <1>4, <2>1 DEF Goes
<1>5. CASE Increment(a) \/ SetDisplayIndex(a) \/ Wipe(a)
  BY <1>2, <1>4, <1>5
  DEF Increment, SetDisplayIndex, Wipe, BarPlaces, BarType
<1>6. CASE Reread(a)
  <2>1. [[animations[a] EXCEPT !.at = "display"] EXCEPT !.index = timeoutIndex]
          \in AnimationType
    BY <1>1 DEF AnimationType, BarPlaces, BarType
  <2>2. animations' =
          [animations EXCEPT
             ![a] = [[animations[a] EXCEPT !.at = "display"]
                       EXCEPT !.index = timeoutIndex]]
    BY <1>1, <1>6 DEF Reread
  <2> QED
    BY <1>2, <1>3, <2>1, <2>2 DEF BarType
<1>7. CASE Fill(a)
  <2>1. /\ animations' = [o \in 1 .. Len(animations) |-> animations'[o]]
        /\ \A o \in 1 .. Len(animations) : animations'[o] \in AnimationType
    <3>1. ASSUME NEW o \in Animation
          PROVE  /\ [animations[a] EXCEPT !.at = "asleep",
                                          !.awaits = Awake \ {a}]
                      \in AnimationType
                 /\ [animations[o] EXCEPT !.awaits = @ \ {a}] \in AnimationType
      <4>1. /\ Awake \ {a} \in SUBSET Nat
            /\ animations[o].awaits \ {a} \in SUBSET Nat
        <5>1. Awake \subseteq Animation
          BY DEF Awake, Running
        <5>2. animations[o].awaits \in SUBSET Nat
          BY <1>1 DEF AnimationType
        <5> QED
          BY <1>1, <5>1, <5>2
      <4>2. /\ animations[o] \in AnimationType /\ animations[a] \in AnimationType
            /\ "asleep" \in BarPlaces
        BY <1>1 DEF BarPlaces
      <4> QED
        BY <4>1, <4>2 DEF AnimationType
    <3> QED
      BY <1>1, <1>7, <3>1 DEF Fill
  <2>2. animations' \in Seq(AnimationType)
    BY <1>1, <2>1
  <2> QED
    BY <1>2, <2>2 DEF BarType
<1>8. CASE Wake(a)
  <2>1. CASE Cancelled(a) \/ Finished(animations[a].i)
    <3>1. [[[animations[a] EXCEPT !.at = "over"] EXCEPT !.index = 0]
             EXCEPT !.i = 0] \in AnimationType
      <4> "over" \in BarPlaces /\ 0 \in Int
        BY DEF BarPlaces
      <4> QED
        BY <1>1 DEF AnimationType
    <3>2. animations' =
            [animations EXCEPT
               ![a] = [[[animations[a] EXCEPT !.at = "over"] EXCEPT !.index = 0]
                         EXCEPT !.i = 0]]
      BY <1>1, <1>8, <2>1 DEF Wake
    <3> QED
      BY <1>2, <1>3, <3>1, <3>2 DEF BarType
  <2>2. CASE ~(Cancelled(a) \/ Finished(animations[a].i))
    <3>1. [[animations[a] EXCEPT !.at = "display"]
             EXCEPT !.i = animations[a].i - 1] \in AnimationType
      <4> "display" \in BarPlaces /\ animations[a].i - 1 \in Int
        BY <1>1 DEF BarPlaces
      <4> QED
        BY <1>1 DEF AnimationType
    <3>2. animations' =
            [animations EXCEPT
               ![a] = [[animations[a] EXCEPT !.at = "display"]
                         EXCEPT !.i = animations[a].i - 1]]
      BY <1>1, <1>8, <2>2 DEF Wake
    <3> QED
      BY <1>2, <1>3, <3>1, <3>2 DEF BarType
  <2> QED
    BY <2>1, <2>2
<1> QED
  BY <1>5, <1>6, <1>7, <1>8

\* Nobody's index is still to come when a call begins alone and the others have
\* timeoutIndex for theirs, which may well be several of them.
LEMMA BeginTimeoutOrderly ==
  ASSUME BarInv, TimeoutAssumption, NEW b \in BeginIndex, BeginTimeout(b)
  PROVE  Orderly'
<1> SUFFICES ASSUME ~raced'
             PROVE  IndexesArePast' /\ OneAtATime'
  BY DEF Orderly
<1> DEFINE n == Len(animations) + 1
<1>1. /\ Animation = 1 .. Len(animations) /\ Len(animations) \in Nat
      /\ timeoutIndex \in Int /\ timeoutIndex' = timeoutIndex
      /\ animations \in Seq(AnimationType)
  BY AnimationsAreRecords DEF BarInv, BarType, BeginTimeout
<1>2. /\ Animation' = 1 .. n
      /\ \A a \in Animation : animations'[a] = animations[a]
      /\ animations'[n].at = "increment"
      /\ animations'[n].index = timeoutIndex
  BY <1>1 DEF BeginTimeout, Animation
<1>3. \A a \in Animation : ~Begins(a)
  BY DEF BeginTimeout, Begins, At
<1>4. \A a \in Animation :
        animations[a].at # "over" => animations[a].index <= timeoutIndex
  <2>1. CASE ~raced
    BY <2>1 DEF BarInv, Orderly, IndexesArePast
  <2>2. CASE raced
    <3>1. \A a \in Running : animations[a].index = timeoutIndex
      BY <2>2 DEF BeginTimeout
    <3> QED
      BY <1>1, <3>1 DEF Running, At
  <2> QED
    BY <2>1, <2>2
<1>5. \A a \in Animation' : a \in Animation \/ a = n
  BY <1>1, <1>2
<1>6. IndexesArePast'
  BY <1>1, <1>2, <1>3, <1>4, <1>5 DEF IndexesArePast, Begins
<1>7. \A a \in Animation' : Begins(a)' => a = n
  BY <1>2, <1>3, <1>5 DEF Begins
<1>8. \A a \in Animation' : animations'[a].at # "reread"
  BY <1>2, <1>3, <1>5 DEF Begins
<1>9. n \in Animation' /\ animations'[n].at = "increment"
  BY <1>1, <1>2
<1> QED
  BY <1>6, <1>7, <1>8, <1>9 DEF OneAtATime

\* A step of an animation that has begun leaves the indexes alone: it goes on,
\* or is over.
GoesOn(a) ==
  /\ Animation' = Animation
  /\ \A o \in Animation :
       o # a => /\ animations'[o].at = animations[o].at
                /\ animations'[o].index = animations[o].index
  /\ animations[a].at \notin {"increment", "reread", "over"}
  /\ \/ animations'[a].at = "over"
     \/ /\ animations'[a].at \notin {"increment", "reread"}
        /\ animations'[a].index = animations[a].index
  /\ UNCHANGED <<timeoutIndex, raced>>

LEMMA BegunGoesOn ==
  ASSUME BarType, NEW a \in Running,
         SetDisplayIndex(a) \/ Wipe(a) \/ Fill(a) \/ Wake(a)
  PROVE  GoesOn(a)
<1>1. /\ a \in Animation /\ a \in 1 .. Len(animations)
      /\ \A o \in Animation : animations[o] \in AnimationType
      /\ animations \in Seq(AnimationType)
      /\ Animation = 1 .. Len(animations) /\ Len(animations) \in Nat
  BY AnimationsAreRecords DEF Running, BarType
<1>2. CASE SetDisplayIndex(a) \/ Wipe(a)
  BY <1>1, <1>2
  DEF SetDisplayIndex, Wipe, Goes, GoesOn, Animation, AnimationType
<1>3. CASE Fill(a)
  BY <1>1, <1>3 DEF Fill, GoesOn, Animation, AnimationType
<1>4. CASE Wake(a)
  BY <1>1, <1>4 DEF Wake, GoesOn, Animation, AnimationType
<1> QED
  BY <1>2, <1>3, <1>4

\* A step of an animation keeps the indexes in order.
LEMMA AnimationStepOrderly ==
  ASSUME BarInv, NEW a \in Running,
         \/ Increment(a) \/ Reread(a)
         \/ SetDisplayIndex(a) \/ Wipe(a) \/ Fill(a) \/ Wake(a)
  PROVE  Orderly'
<1> SUFFICES ASSUME ~raced'
             PROVE  IndexesArePast' /\ OneAtATime'
  BY DEF Orderly
<1>1. /\ a \in Animation /\ a \in 1 .. Len(animations)
      /\ \A o \in Animation :
           animations[o] \in AnimationType /\ animations[o].index \in Int
      /\ animations \in Seq(AnimationType) /\ timeoutIndex \in Int
      /\ Animation = 1 .. Len(animations) /\ Len(animations) \in Nat
      /\ BarType
  BY AnimationsAreRecords DEF Running, BarInv, BarType
<1>2. ~raced
  BY DEF Increment, Reread, SetDisplayIndex, Wipe, Fill, Wake
<1>3. IndexesArePast /\ OneAtATime
  BY <1>2 DEF BarInv, Orderly
<1>4. CASE Increment(a)
  <2>1. /\ Animation' = Animation
        /\ \A o \in Animation :
             /\ animations'[o].index = animations[o].index
             /\ o # a => animations'[o].at = animations[o].at
        /\ animations'[a].at = "reread" /\ animations[a].at = "increment"
    BY <1>1, <1>4 DEF Increment, Goes, Animation, AnimationType
  <2>2. timeoutIndex' = timeoutIndex + 1
    BY <1>3, <1>1, <1>4 DEF Increment, IndexesArePast
  <2>3. \A o \in Animation : o # a => ~Begins(o)
    BY <1>1, <1>3, <2>1 DEF OneAtATime, Begins
  <2>4. \A o \in Animation :
          animations[o].at # "over" => animations[o].index <= timeoutIndex
    BY <1>3 DEF IndexesArePast
  <2>5. IndexesArePast'
    BY <1>1, <2>1, <2>2, <2>3, <2>4 DEF IndexesArePast, Begins
  <2>6. \A o \in Animation' : IsCurrent(o)' => FALSE
    BY <1>1, <2>1, <2>2, <2>4 DEF IsCurrent
  <2>7. \A o \in Animation' : Begins(o)' => o = a
    BY <2>1, <2>3 DEF Begins
  <2> QED
    BY <2>5, <2>6, <2>7 DEF OneAtATime
<1>5. CASE Reread(a)
  <2>1. /\ Animation' = Animation /\ timeoutIndex' = timeoutIndex
        /\ \A o \in Animation :
             o # a => /\ animations'[o].index = animations[o].index
                      /\ animations'[o].at = animations[o].at
        /\ animations'[a].at = "display" /\ animations[a].at = "reread"
        /\ animations'[a].index = timeoutIndex
    BY <1>1, <1>5 DEF Reread, Animation, AnimationType
  <2>2. IndexesArePast'
    BY <1>1, <1>3, <2>1 DEF IndexesArePast
  <2>3. \A o \in Animation : o # a => ~Begins(o)
    BY <1>1, <1>3, <2>1 DEF OneAtATime, Begins
  <2>4. \A o \in Animation : ~IsCurrent(o)
    BY <1>1, <1>3, <2>1 DEF OneAtATime
  <2>5. \A o \in Animation' : IsCurrent(o)' => o = a
    BY <2>1, <2>4 DEF IsCurrent
  <2>6. \A o \in Animation' : ~Begins(o)'
    BY <2>1, <2>3 DEF Begins
  <2> QED
    BY <2>2, <2>5, <2>6 DEF OneAtATime, Begins
<1>6. CASE SetDisplayIndex(a) \/ Wipe(a) \/ Fill(a) \/ Wake(a)
  <2>1. GoesOn(a)
    BY <1>1, <1>6, BegunGoesOn
  <2>2. IndexesArePast'
    BY <1>1, <1>3, <2>1 DEF IndexesArePast, GoesOn
  <2>3. \A o \in Animation :
          /\ Begins(o)' = Begins(o)
          /\ (animations'[o].at = "reread") = (animations[o].at = "reread")
          /\ (animations'[o].at = "increment") = (animations[o].at = "increment")
          /\ IsCurrent(o)' => IsCurrent(o)
    BY <1>1, <2>1 DEF Begins, IsCurrent, GoesOn
  <2>4. Animation' = Animation
    BY <2>1 DEF GoesOn
  <2> QED
    BY <1>3, <2>2, <2>3, <2>4 DEF OneAtATime
<1> QED
  BY <1>4, <1>5, <1>6

\* The bar moves by a call or by a step of an animation, or not at all.
LEMMA BarStep ==
  ASSUME BarInv, TimeoutAssumption, [Next]_vars
  PROVE  BarInv'
<1>1. CASE \E b \in BeginIndex : BeginTimeout(b)
  BY <1>1, BeginTimeoutType, BeginTimeoutOrderly DEF BarInv
<1>2. CASE Animate
  BY <1>2, AnimationStepType, AnimationStepOrderly DEF BarInv, Animate
<1>3. CASE UNCHANGED <<timeoutIndex, animations, raced>>
  BY <1>3
  DEF BarInv, BarType, Orderly, IndexesArePast, OneAtATime, Animation, Begins,
      IsCurrent
<1>4. \/ \E b \in BeginIndex : BeginTimeout(b)
      \/ Animate
      \/ UNCHANGED <<timeoutIndex, animations, raced>>
  <2>1. UNCHANGED <<timeoutIndex, animations, raced>> \/ Animate
        \/ TimerIsSet
    BY DEF Next, Serve, PeerMoves, AnimateBar, AnimateOnDisplay, Show, Mishap,
           Receive, Draw, GiveUp, CallIsMade, CallGoesOn, CallMeetsFault,
           display, timeouts, vars
  <2> QED
    BY <2>1 DEF TimerIsSet
<1> QED
  BY <1>1, <1>2, <1>3, <1>4

LEMMA BarInvariant == Spec => []BarInv
<1>1. Init => BarInv
  BY BarInvInit DEF Init
<1>2. BarInv /\ [Next]_vars => BarInv'
  BY BarStep, TimeoutAssumption
<1> QED
  BY <1>1, <1>2, PTL DEF Spec

\* Of the goroutines that draw the bar at most one goes on once all are asleep,
\* however many timers were set, unless two of their calls overlapped since the
\* last of them came alone (BeginTimeoutAnimation).
THEOREM OneAnimationSurvives == Spec => []OneRunsOn
<1>1. BarInv => OneRunsOn
  <2> SUFFICES ASSUME BarInv, Awake = {}, ~raced
               PROVE  Cardinality({a \in Running : ~Cancelled(a)}) <= 1
    BY DEF OneRunsOn
  <2> DEFINE going == {a \in Running : ~Cancelled(a)}
  <2>1. \A a \in Running : animations[a].at = "asleep"
    BY DEF Awake, Running, At
  <2>2. OneAtATime
    BY DEF BarInv, Orderly
  <2>3. \A a \in Animation : animations[a].at # "increment"
    BY <2>1 DEF Running, At
  <2>4. \A a \in going : a \in Animation /\ IsCurrent(a)
    BY <2>1 DEF Running, IsCurrent, Cancelled
  <2>5. \A a, b \in going : a = b
    BY <2>2, <2>3, <2>4 DEF OneAtATime
  <2>6. CASE going = {}
    BY <2>6, FS_EmptySet
  <2>7. CASE going # {}
    <3>1. PICK a \in going : going = {a}
      BY <2>5, <2>7
    <3> QED
      BY <3>1, FS_Singleton
  <2> QED
    BY <2>6, <2>7
<1> QED
  BY <1>1, BarInvariant, PTL

=============================================================================
