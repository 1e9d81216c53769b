------------------------------ MODULE RpcClient ------------------------------
(***************************************************************************)
(* What the calls of one UnreliableRpcClient share: its connection.         *)
(* getClient looks for it, dials and returns it under a lock; a call that   *)
(* fails resets it without the lock.  (Module RpcPath follows one call and  *)
(* its attempts through the clients of two interceptors.)                   *)
(***************************************************************************)
EXTENDS Integers, FiniteSets, Sequences

CONSTANT RetryCount

ASSUME RetryAssumption == RetryCount \in Nat \ {0}

VARIABLES
  client,       \* the connection that the next call will use, or None
  connections,  \* how many have been made
  broken,       \* those that the other end has closed
  lockedBy,     \* the call that is inside getClient, or None
  calls,        \* what each call is at, its tries left and its connection
  \* history
  dropped,      \* for each call, how many of its attempts the other end refused
  errors,       \* and how many made it reset the connection
  resets        \* how often the connection has been reset

clients ==
  <<client, connections, broken, lockedBy, calls, dropped, errors, resets>>

None == 0
CallId == DOMAIN calls

-----------------------------------------------------------------------------
(* Deliberately wrong variants, one slip each, for the properties to refute *)

\* urc.Client = nil left out
ResetForgotten(c) == client

\* the lock is not taken, or not given back
UnlockedAlways(c) == TRUE

LockedForGood(c) == c

-----------------------------------------------------------------------------
\* NewUnreliableRpcClient tries to connect at once.
ClientInit ==
  /\ \/ client = None /\ connections = 0
     \/ client = 1 /\ connections = 1
  /\ broken = {} /\ lockedBy = None
  /\ calls = << >> /\ dropped = << >> /\ errors = << >> /\ resets = 0

Becomes(c, call) == calls' = [calls EXCEPT ![c] = call]

GoesTo(c, place) == Becomes(c, [calls[c] EXCEPT !.at = place])

BeginCall ==
  /\ calls' = Append(calls, [at |-> "get", tries |-> RetryCount, uses |-> None])
  /\ dropped' = Append(dropped, 0) /\ errors' = Append(errors, 0)
  /\ UNCHANGED <<client, connections, broken, lockedBy, resets>>

MayLock(c) == lockedBy = None

\* getClient: is there a connection?
LookForClient(c) ==
  /\ calls[c].at = "get" /\ MayLock(c)
  /\ lockedBy' = c
  /\ GoesTo(c, IF client = None THEN "dial" ELSE "return")
  /\ UNCHANGED <<client, connections, broken, dropped, errors, resets>>

Dial(c) ==
  /\ calls[c].at = "dial"
  /\ connections' = connections + 1
  /\ client' = connections'
  /\ GoesTo(c, "return")
  /\ UNCHANGED <<broken, lockedBy, dropped, errors, resets>>

DialFails(c) ==
  /\ calls[c].at = "dial"
  /\ GoesTo(c, "return")
  /\ UNCHANGED <<client, connections, broken, lockedBy>>
  /\ UNCHANGED <<dropped, errors, resets>>

\* After a failed attempt the call sleeps and tries again, or gives up.
Failed(c) ==
  LET tries == calls[c].tries - 1
  IN [at |-> IF tries > 0 THEN "get" ELSE "over",
      tries |-> tries, uses |-> None]

Unlocked(c) == None

\* It returns urc.Client as it is now.
ReturnClient(c) ==
  /\ calls[c].at = "return"
  /\ lockedBy' = Unlocked(c)
  /\ Becomes(c, IF client = None
                  THEN Failed(c)
                  ELSE [calls[c] EXCEPT !.at = "call", !.uses = client])
  /\ UNCHANGED <<client, connections, broken, dropped, errors, resets>>

Succeed(c) ==
  /\ calls[c].at = "call" /\ calls[c].uses \notin broken
  /\ Becomes(c, [calls[c] EXCEPT !.at = "over", !.uses = None])
  /\ UNCHANGED <<client, connections, broken, lockedBy>>
  /\ UNCHANGED <<dropped, errors, resets>>

Reset(c) == None

\* client.Call returns an error, and the connection is taken to be closed.
Err(c) ==
  /\ Becomes(c, Failed(c))
  /\ client' = Reset(c)
  /\ errors' = [errors EXCEPT ![c] = @ + 1] /\ resets' = resets + 1
  /\ UNCHANGED <<connections, broken, lockedBy>>

FailOnBroken(c) ==
  /\ calls[c].at = "call" /\ calls[c].uses \in broken
  /\ Err(c)
  /\ UNCHANGED dropped

\* The handler at the other end returns an error: "RPC Dropped".
FailOnDrop(c) ==
  /\ calls[c].at = "call" /\ calls[c].uses \notin broken
  /\ Err(c)
  /\ dropped' = [dropped EXCEPT ![c] = @ + 1]

Break ==
  /\ \E k \in 1 .. connections : k \notin broken /\ broken' = broken \cup {k}
  /\ UNCHANGED <<client, connections, lockedBy, calls, dropped, errors, resets>>

Attempt(c) ==
  \/ LookForClient(c) \/ Dial(c) \/ ReturnClient(c) \/ Succeed(c)
  \/ FailOnBroken(c)

ClientFault == Break \/ \E c \in CallId : DialFails(c) \/ FailOnDrop(c)

-----------------------------------------------------------------------------
(***************************************************************************)
(* Properties                                                               *)
(***************************************************************************)

\* A call meets a broken connection once at most, whichever calls share it and
\* however late they find out: it fails for what was refused of it, and once
\* for each connection that broke (Call, getClient).
BrokenMetOnce ==
  \A c \in CallId : errors[c] <= dropped[c] + Cardinality(broken)

\* Calls that find no connection at the same time make one.  Of those left
\* behind, open and out of use, there is at most one for each error: a refused
\* call leaves its own, or the one that another call has just made (getClient).
OneConnectionPerError == connections <= 1 + resets

\* Every call returns: none waits for ever for one that is dialling or sleeping
\* (Call, getClient).
CallsReturn == <>[](\A c \in CallId : calls[c].at = "over")

=============================================================================
