--------------------------- MODULE ControlsProofs ---------------------------
(***************************************************************************)
(* What knobs, buttons and the panel promise, for panels of any size, any   *)
(* number of colors and any use of the controls.  Assumed where a theorem   *)
(* says so: the poller of the knobs sees every quarter step (Unseen = 1).   *)
(***************************************************************************)
EXTENDS Interceptor, FiniteSetTheorems, SequenceTheorems, TLAPS

-----------------------------------------------------------------------------
(***************************************************************************)
(* Remainders                                                               *)
(***************************************************************************)

LEMMA Remainder ==
  ASSUME NEW n \in Nat \ {0}, NEW a \in Int
  PROVE  a = n * (a \div n) + (a % n) /\ a % n \in 0 .. n - 1 /\ a \div n \in Int
<1>1. a \div n \in Int
  BY SMT
<1>2. a = n * (a \div n) + (a % n)
  BY SMT
<1>3. a % n \in 0 .. n - 1
  BY SMT
<1> QED
  BY <1>1, <1>2, <1>3

LEMMA Distributes ==
  ASSUME NEW n \in Int, NEW p \in Int, NEW q \in Int
  PROVE  n * (p - q) = n * p - n * q /\ n * p \in Int /\ n * q \in Int
BY SMT

LEMMA ProductMoves ==
  ASSUME NEW n \in Int, NEW p \in Int, NEW q \in Int
  PROVE  (n * p) * q = n * (p * q) /\ p * q \in Int
BY SMT

LEMMA SameRemainder ==
  ASSUME NEW n \in Nat \ {0}, NEW a \in Int, NEW b \in Int, NEW k \in Int,
         a = b + n * k
  PROVE  a % n = b % n
<1>1. /\ a = n * (a \div n) + (a % n) /\ b = n * (b \div n) + (b % n)
      /\ a % n \in 0 .. n - 1 /\ b % n \in 0 .. n - 1
  BY Remainder
<1> DEFINE d == (a \div n) - (b \div n) - k
<1>2. d \in Int /\ n * d = (b % n) - (a % n)
  BY <1>1
<1> HIDE DEF d
<1>3. -n < n * d /\ n * d < n
  BY <1>1, <1>2
<1>4. ~(d >= 1) /\ ~(d <= -1)
  BY <1>2, <1>3
<1> QED
  BY <1>1, <1>2, <1>4

LEMMA QuotientExists ==
  ASSUME NEW n \in Nat \ {0}, NEW a \in Int
  PROVE  \E q \in Int : a = n * q + (a % n)
BY Remainder

LEMMA Shifted ==
  ASSUME NEW n \in Int, NEW p \in Int, NEW q \in Int, NEW r \in Int, NEW c \in Int
  PROVE  (n * p + r) + c = ((n * q + r) + c) + n * (p - q)
BY Distributes

Congruent(a, b, n) == a % n = b % n
Divides(n, m) == m % n = 0

LEMMA SumsCongruent ==
  ASSUME NEW n \in Nat \ {0}, NEW a \in Int, NEW b \in Int, NEW c \in Int,
         NEW u \in Int, NEW v \in Int, u = a + c, v = b + c, Congruent(a, b, n)
  PROVE  Congruent(u, v, n)
<1>1. PICK r \in Int : r = a % n /\ r = b % n
  BY Remainder DEF Congruent
<1>2. PICK p \in Int : a = n * p + r
  BY <1>1, QuotientExists
<1>3. PICK q \in Int : b = n * q + r
  BY <1>1, QuotientExists
<1>4. PICK k \in Int : k = p - q
  OBVIOUS
<1>5. u = v + n * k
  BY <1>2, <1>3, <1>4, Shifted
<1>6. u % n = v % n
  BY <1>5, SameRemainder
<1> QED
  BY <1>6 DEF Congruent

\* What is left of a after m's are taken away is the same to n, if n divides m.
LEMMA RemainderCongruent ==
  ASSUME NEW m \in Nat \ {0}, NEW n \in Nat \ {0}, Divides(n, m),
         NEW a \in Int, NEW r \in Int, NEW p \in Int, a = m * p + r
  PROVE  Congruent(r, a, n)
<1>1. PICK q \in Int : m = n * q
  <2>1. m = n * (m \div n) + (m % n) /\ m \div n \in Int
    BY Remainder
  <2> QED
    BY <2>1 DEF Divides
<1>2. PICK k \in Int : k = q * p
  BY ProductMoves
<1>3. a = r + n * k
  BY <1>1, <1>2, ProductMoves
<1>4. a % n = r % n
  BY <1>3, SameRemainder
<1> QED
  BY <1>4 DEF Congruent

-----------------------------------------------------------------------------
(***************************************************************************)
(* The knob and its contacts                                                *)
(***************************************************************************)

EncoderType ==
  /\ shaft \in Int /\ polled \in Int /\ restedAt \in Int
  /\ seq \in 0 .. IntWord - 1 /\ readings \in 0 .. 4 /\ fiddled \in BOOLEAN
  /\ offered \in [Direction -> Nat]

\* The poller keeps up with the shaft.
KeepsUp == polled - shaft \in {-1, 0, 1} /\ prev = Contacts(polled)

\* How far the shaft has come from its last rest, and what seq makes of that.
Away == polled - restedAt

\* Three changed readings or fewer leave nothing to doubt.
SeqTellsPath ==
  /\ readings = 0 => Away = 0 /\ seq = 0
  /\ readings = 1 => (Away = 1 /\ seq = 1) \/ (Away = -1 /\ seq = 2)
  /\ readings = 2 => (Away = 2 /\ seq = 4) \/ (Away = -2 /\ seq = 8)
  /\ readings = 3 => \/ (Away = 3 /\ seq = 18) \/ (Away = 1 /\ seq = 17)
                     \/ (Away = -3 /\ seq = 33) \/ (Away = -1 /\ seq = 34)

\* No two readings in a row are of both contacts closed: whatever has overflowed,
\* more than three readings do not look like three.
LongSeqShows ==
  readings = 4 =>
    /\ Away \in {-3, -2, -1, 1, 2, 3}
    /\ seq % 4 = 2 * Contacts(polled)[1] + Contacts(polled)[2]
    /\ seq % 16 # 0 /\ (seq \div 4) % 16 # 0 /\ (seq \div 16) % 16 # 0
    /\ (seq \div 64) % 16 # 0

EncoderInv ==
  /\ EncoderType /\ KeepsUp
  /\ restedAt % 4 = 0
  /\ SeqTellsPath /\ LongSeqShows

LEMMA EncoderInvInit == EncoderInit => EncoderInv
<1> SUFFICES ASSUME EncoderInit PROVE EncoderInv
  OBVIOUS
<1>1. EncoderType
  <2>1. 0 \in 0 .. IntWord - 1
    BY EncoderAssumption
  <2>2. offered \in [Direction -> Nat]
    BY DEF EncoderInit
  <2>3. shaft \in Int /\ polled \in Int /\ restedAt \in Int
    BY DEF EncoderInit
  <2>4. seq = 0 /\ readings \in 0 .. 4
    BY DEF EncoderInit
  <2>5. fiddled \in BOOLEAN
    BY DEF EncoderInit
  <2> QED
    BY <2>1, <2>2, <2>3, <2>4, <2>5 DEF EncoderType
<1>2. Contacts(0) = Open
  BY DEF Contacts
<1>3. KeepsUp
  BY <1>2 DEF EncoderInit, KeepsUp
<1> QED
  BY <1>1, <1>3 DEF EncoderInit, EncoderInv, SeqTellsPath, LongSeqShows, Away

\* Where the contacts differ.
LEMMA ContactsAt ==
  ASSUME NEW p \in Int
  PROVE  /\ p % 4 \in 0 .. 3
         /\ p % 4 = 0 => Contacts(p) = <<1, 1>>
         /\ p % 4 = 1 => Contacts(p) = <<0, 1>>
         /\ p % 4 = 2 => Contacts(p) = <<0, 0>>
         /\ p % 4 = 3 => Contacts(p) = <<1, 0>>
         /\ Contacts(p)[1] \in {0, 1} /\ Contacts(p)[2] \in {0, 1}
         /\ Contacts(p) = Open <=> p % 4 = 0
         /\ \A q \in Int : q - p \in {-1, 1} => Contacts(q) # Contacts(p)
         /\ \A q \in Int : q - p \in {-1, 1} =>
              ~(Contacts(q) = <<0, 0>> /\ Contacts(p) = <<0, 0>>)
<1>1. \A q \in Int :
        /\ q % 4 \in 0 .. 3
        /\ q % 4 = 0 => Contacts(q) = <<1, 1>>
        /\ q % 4 = 1 => Contacts(q) = <<0, 1>>
        /\ q % 4 = 2 => Contacts(q) = <<0, 0>>
        /\ q % 4 = 3 => Contacts(q) = <<1, 0>>
  <2> TAKE q \in Int
  <2>1. q % 4 \in 0 .. 3
    BY SMT
  <2>2. q % 4 = 0 => Contacts(q) = <<1, 1>>
    BY DEF Contacts, Open
  <2>3. q % 4 = 1 => Contacts(q) = <<0, 1>>
    BY DEF Contacts, Open
  <2>4. q % 4 = 2 => Contacts(q) = <<0, 0>>
    BY DEF Contacts, Open
  <2>5. q % 4 = 3 => Contacts(q) = <<1, 0>>
    BY DEF Contacts, Open
  <2> QED
    BY <2>1, <2>2, <2>3, <2>4, <2>5
<1>2. Contacts(p)[1] \in {0, 1} /\ Contacts(p)[2] \in {0, 1}
  BY <1>1
<1>3. Contacts(p) = Open <=> p % 4 = 0
  BY <1>1 DEF Open
<1>4. ASSUME NEW q \in Int, q - p \in {-1, 1}
      PROVE  Contacts(q) # Contacts(p)
  <2>1. q % 4 # p % 4
    BY <1>4
  <2> QED
    BY <1>1, <2>1
<1> QED
  BY <1>1, <1>2, <1>3, <1>4

\* A rest of the shaft ends a step, plain or not, or none; only a step leaves
\* in seq what is recognized.
LEMMA PollAtRest ==
  ASSUME EncoderInv, Unseen = 1, Poll, Contacts(shaft) # prev, Contacts(shaft) = Open
  PROVE  /\ Moved \in {-4, 0, 4} /\ readings \in 1 .. 4 /\ readings # 2
         /\ readings = 1 => Moved = 0 /\ Recognized(seq) = {}
         /\ readings = 3 =>
              \/ Moved = 0 /\ Recognized(seq) = {}
              \/ Moved = 4 /\ Recognized(seq) = {Right}
              \/ Moved = -4 /\ Recognized(seq) = {Left}
         /\ readings = 4 => Recognized(seq) = {}
<1>1. /\ shaft \in Int /\ polled \in Int /\ restedAt \in Int /\ seq \in Nat
      /\ readings \in 0 .. 4
      /\ polled - shaft \in {-1, 0, 1} /\ prev = Contacts(polled) /\ restedAt % 4 = 0
  BY EncoderAssumption DEF EncoderInv, EncoderType, KeepsUp
<1>2. shaft % 4 = 0 /\ polled % 4 # 0 /\ polled - shaft \in {-1, 1}
  <2>1. shaft % 4 = 0 /\ polled % 4 # 0
    BY <1>1, ContactsAt
  <2>2. polled # shaft
    BY <2>1
  <2> QED
    BY <1>1, <2>1, <2>2
<1>3. readings # 0
  BY <1>1, <1>2 DEF EncoderInv, SeqTellsPath, Away
<1>4. Moved = Away - (polled - shaft) /\ Moved % 4 = 0 /\ Away \in Int /\ Moved \in Int
  BY <1>1, <1>2 DEF Moved, Away
<1>5. CASE readings = 1
  <2>1. (Away = 1 /\ seq = 1) \/ (Away = -1 /\ seq = 2)
    BY <1>5 DEF EncoderInv, SeqTellsPath
  <2>2. Moved = 0
    BY <1>1, <1>4, <2>1
  <2> QED
    BY <1>5, <2>1, <2>2 DEF Recognized, leftNum, rightNum
<1>6. readings # 2
  <2>1. readings = 2 => Away = 2 \/ Away = -2
    BY DEF EncoderInv, SeqTellsPath
  <2> QED
    BY <1>1, <1>2, <1>4, <2>1
<1>7. CASE readings = 3
  <2>1. \/ (Away = 3 /\ seq = 18) \/ (Away = 1 /\ seq = 17)
        \/ (Away = -3 /\ seq = 33) \/ (Away = -1 /\ seq = 34)
    BY <1>7 DEF EncoderInv, SeqTellsPath
  <2>2. /\ Away = 3 => Moved = 4
        /\ Away = 1 => Moved = 0
        /\ Away = -3 => Moved = -4
        /\ Away = -1 => Moved = 0
    BY <1>1, <1>2, <1>4
  <2> QED
    BY <1>7, <2>1, <2>2 DEF Recognized, leftNum, rightNum
<1>8. CASE readings = 4
  <2>1. Away \in {-3, -2, -1, 1, 2, 3} /\ (seq \div 64) % 16 # 0
    BY <1>8 DEF EncoderInv, LongSeqShows
  <2>2. seq >= 64
    BY <1>1, <2>1
  <2>3. Moved \in {-4, 0, 4}
    BY <1>2, <1>4, <2>1
  <2> QED
    BY <1>8, <2>2, <2>3 DEF Recognized, leftNum, rightNum
<1> QED
  BY <1>1, <1>3, <1>5, <1>6, <1>7, <1>8

\* The last five digits of two numbers to the base 4 are the same.
SameDigits(m, n) == m % 1024 = n % 1024

\* What a reading of closed contacts does to seq: nothing gets lost while three or
\* fewer came, and the last five stay.
LEMMA PushedSeq ==
  ASSUME EncoderType, NEW p \in Int
  PROVE  \E s \in Nat, t \in Nat, d \in 0 .. 3 :
           /\ s = seq /\ t \in 0 .. IntWord - 1 /\ t = Pushed(seq, Contacts(p))
           /\ d = 2 * Contacts(p)[1] + Contacts(p)[2]
           /\ s < 64 => t = 4 * s + d
           /\ SameDigits(t, 4 * s + d)
<1>0. PICK a \in {0, 1}, b \in {0, 1} : a = Contacts(p)[1] /\ b = Contacts(p)[2]
  BY ContactsAt
<1>1. PICK d \in 0 .. 3 : d = 2 * a + b
  OBVIOUS
<1>2. PICK w \in Nat \ {0} : w = IntWord /\ w % 1024 = 0 /\ w >= 1024
  <2>1. IntWord \in Nat \ {0} /\ IntWord % 1024 = 0
    BY EncoderAssumption
  <2> QED
    BY <2>1
<1>3. PICK s \in Nat : s = seq
  BY <1>2 DEF EncoderType
<1>4. PICK n \in Nat : n = 4 * s + d
  OBVIOUS
<1>5. PICK t \in Nat : t = n % w /\ t \in 0 .. w - 1
  BY Remainder
<1>6. Pushed(seq, Contacts(p)) = t
  <2>1. 4 * s + 2 * a + b = n
    BY <1>1, <1>4
  <2> QED
    BY <1>0, <1>2, <1>3, <1>5, <2>1 DEF Pushed
<1>7. s < 64 => t = 4 * s + d
  BY <1>2, <1>4, <1>5
<1>8. SameDigits(t, 4 * s + d)
  <2>1. PICK k \in Nat \ {0} : k = 1024
    OBVIOUS
  <2>2. Congruent(t, n, k)
    <3>1. Divides(k, w)
      <4>1. w % 1024 = 0
        BY <1>2
      <4> QED
        BY <2>1, <4>1 DEF Divides
    <3>2. PICK n1 \in Int, t1 \in Int : n1 = n /\ t1 = t
      OBVIOUS
    <3>3. PICK p1 \in Int : n1 = w * p1 + (n1 % w)
      BY QuotientExists
    <3>4. n1 = w * p1 + t1
      BY <1>5, <3>2, <3>3
    <3>5. Congruent(t1, n1, k)
      BY <3>1, <3>4, RemainderCongruent
    <3> QED
      BY <3>2, <3>5
  <2>3. t % 1024 = n % 1024
    BY <2>1, <2>2 DEF Congruent
  <2> QED
    BY <1>4, <2>3 DEF SameDigits
<1>9. t \in 0 .. IntWord - 1 /\ d = 2 * Contacts(p)[1] + Contacts(p)[2]
  BY <1>0, <1>1, <1>2, <1>5
<1> QED
  BY <1>3, <1>6, <1>7, <1>8, <1>9

\* The digits of a number that is shifted by one digit.
LEMMA ShiftedDigits ==
  \A s \in Nat, t \in Nat, d \in 0 .. 3 :
    SameDigits(t, 4 * s + d) =>
      /\ t % 4 = d /\ t % 16 = 4 * (s % 4) + d
      /\ (t \div 4) % 16 = s % 16 /\ (t \div 16) % 16 = (s \div 4) % 16
      /\ (t \div 64) % 16 = (s \div 16) % 16
<1> SUFFICES ASSUME NEW s \in Nat, NEW t \in Nat, NEW d \in 0 .. 3,
                    SameDigits(t, 4 * s + d)
             PROVE  /\ t % 4 = d /\ t % 16 = 4 * (s % 4) + d
                    /\ (t \div 4) % 16 = s % 16 /\ (t \div 16) % 16 = (s \div 4) % 16
                    /\ (t \div 64) % 16 = (s \div 16) % 16
  OBVIOUS
<1>1. t % 4 = d
  BY DEF SameDigits
<1>2. t % 16 = 4 * (s % 4) + d
  BY DEF SameDigits
<1>3. (t \div 4) % 16 = s % 16
  BY DEF SameDigits
<1>4. (t \div 16) % 16 = (s \div 4) % 16
  BY DEF SameDigits
<1>5. (t \div 64) % 16 = (s \div 16) % 16
  BY DEF SameDigits
<1> QED
  BY <1>1, <1>2, <1>3, <1>4, <1>5

\* The shaft never goes further than a step from its rest without another rest,
\* and where it is tells what the contacts read.
LEMMA AwayAfter ==
  ASSUME NEW a \in -3 .. 3, NEW b \in Int, a - b \in {-1, 1}, b % 4 \in 1 .. 3
  PROVE  /\ b \in {-3, -2, -1, 1, 2, 3}
         /\ b \in {1, -3} => b % 4 = 1
         /\ b \in {2, -2} => b % 4 = 2
         /\ b \in {3, -1} => b % 4 = 3
<1>1. b \in -4 .. 4
  OBVIOUS
<1>2. b \in {-3, -2, -1, 1, 2, 3}
  BY <1>1
<1> QED
  BY <1>2

LEMMA PollKeepsInv ==
  ASSUME EncoderInv, Unseen = 1, Poll
  PROVE  EncoderInv'
<1> DEFINE reading == Contacts(shaft)
<1>1. /\ shaft \in Int /\ polled \in Int /\ restedAt \in Int /\ seq \in Nat
      /\ readings \in 0 .. 4 /\ EncoderType
      /\ polled - shaft \in {-1, 0, 1} /\ prev = Contacts(polled) /\ restedAt % 4 = 0
  BY EncoderAssumption DEF EncoderInv, EncoderType, KeepsUp
<1>2. polled' = shaft /\ prev' = Contacts(shaft) /\ shaft' = shaft
  BY DEF Poll
<1>3. KeepsUp'
  BY <1>1, <1>2 DEF KeepsUp, Contacts
<1>4. CASE reading = prev
  <2>1. UNCHANGED <<seq, offered, restedAt, readings, fiddled>>
    BY <1>4 DEF Poll
  <2>2. polled' = polled
    <3>1. polled - shaft \notin {-1, 1}
      BY <1>1, <1>4, ContactsAt
    <3> QED
      BY <1>1, <1>2, <3>1
  <2>3. Contacts(polled') = Contacts(polled)
    BY <2>2
  <2>4. EncoderType' /\ SeqTellsPath' /\ LongSeqShows'
    BY <1>1, <1>2, <2>1, <2>2, <2>3
    DEF EncoderInv, EncoderType, SeqTellsPath, LongSeqShows, Away, Contacts
  <2> QED
    BY <1>1, <1>3, <2>1, <2>4 DEF EncoderInv
<1>5. CASE reading # prev /\ reading = Open
  <2>1. /\ seq' = 0 /\ restedAt' = shaft /\ readings' = 0
        /\ offered' = [d \in Direction |->
                         IF d \in Recognized(seq) THEN offered[d] + 1
                                                  ELSE offered[d]]
        /\ fiddled' = (fiddled \/ (restedAt # shaft /\ readings # 3))
    BY <1>5 DEF Poll, Cleared
  <2>2. offered' \in [Direction -> Nat]
    BY <1>1, <2>1 DEF EncoderType
  <2>3. fiddled' \in BOOLEAN
    BY <1>1, <2>1 DEF EncoderType
  <2>4. EncoderType'
    BY <1>1, <1>2, <2>1, <2>2, <2>3, EncoderAssumption DEF EncoderType
  <2>5. restedAt' % 4 = 0
    BY <1>1, <1>5, <2>1, ContactsAt
  <2>6. SeqTellsPath' /\ LongSeqShows'
    BY <1>1, <1>2, <2>1 DEF SeqTellsPath, LongSeqShows, Away
  <2> QED
    BY <1>3, <2>4, <2>5, <2>6 DEF EncoderInv
<1>6. CASE reading # prev /\ reading # Open
  <2>1. /\ seq' = Pushed(seq, reading)
        /\ readings' = IF readings < 4 THEN readings + 1 ELSE 4
        /\ UNCHANGED <<offered, restedAt, fiddled>>
    BY <1>6 DEF Poll
  <2>2. PICK s \in Nat, t \in Nat, d \in 0 .. 3 :
          /\ s = seq /\ t \in 0 .. IntWord - 1 /\ t = Pushed(seq, Contacts(shaft))
          /\ d = 2 * Contacts(shaft)[1] + Contacts(shaft)[2]
          /\ s < 64 => t = 4 * s + d
          /\ SameDigits(t, 4 * s + d)
    BY <1>1, PushedSeq
  <2>3. EncoderType'
    BY <1>1, <1>2, <2>1, <2>2 DEF EncoderType
  <2>4. polled - shaft \in {-1, 1}
    BY <1>1, <1>6
  <2>5. /\ shaft % 4 = 1 => d = 1
        /\ shaft % 4 = 2 => d = 0
        /\ shaft % 4 = 3 => d = 2
        /\ shaft % 4 \in 1 .. 3
    <3>1. /\ shaft % 4 = 1 => reading = <<0, 1>>
          /\ shaft % 4 = 2 => reading = <<0, 0>>
          /\ shaft % 4 = 3 => reading = <<1, 0>>
          /\ shaft % 4 \in 0 .. 3 /\ shaft % 4 # 0
      BY <1>1, <1>6, ContactsAt
    <3> QED
      BY <2>2, <3>1
  <2>6. PICK a \in Int, b \in Int :
          /\ a = polled - restedAt /\ b = shaft - restedAt
          /\ a - b \in {-1, 1} /\ b % 4 = shaft % 4 /\ a % 4 = polled % 4
    <3>1. PICK a \in Int, b \in Int : a = polled - restedAt /\ b = shaft - restedAt
      BY <1>1
    <3>2. a - b \in {-1, 1}
      BY <1>1, <2>4, <3>1
    <3>3. b % 4 = shaft % 4 /\ a % 4 = polled % 4
      BY <1>1, <3>1
    <3> QED
      BY <3>1, <3>2, <3>3
  <2>7. /\ Away = a /\ Away' = b /\ s = seq /\ t = seq'
        /\ d = (2 * Contacts(polled)[1] + Contacts(polled)[2])'
    <3>1. Away = a /\ Away' = b
      BY <1>2, <2>1, <2>6 DEF Away
    <3>2. d = (2 * Contacts(polled)[1] + Contacts(polled)[2])'
      BY <1>2, <2>2 DEF Contacts
    <3> QED
      BY <2>1, <2>2, <3>1, <3>2
  <2> HIDE DEF reading
  <2>10. a \in -3 .. 3 => /\ b \in {-3, -2, -1, 1, 2, 3}
                          /\ b \in {1, -3} => d = 1
                          /\ b \in {2, -2} => d = 0
                          /\ b \in {3, -1} => d = 2
    BY <2>5, <2>6, AwayAfter
  <2>11. (s < 64 => t = 4 * s + d) /\ t \in Nat /\ a - b \in {-1, 1}
    BY <2>2, <2>6
  <2>8. ASSUME readings < 3 PROVE SeqTellsPath' /\ LongSeqShows'
    <3>1. readings' = readings + 1 /\ readings' # 4 /\ readings' # 0
      BY <1>1, <2>1, <2>8
    <3>2. CASE readings = 0
      <4>1. a = 0 /\ s = 0
        BY <2>7, <3>2 DEF EncoderInv, SeqTellsPath
      <4>2. (b = 1 /\ t = 1) \/ (b = -1 /\ t = 2)
        BY <2>10, <2>11, <4>1
      <4> QED
        BY <2>7, <3>1, <3>2, <4>2 DEF SeqTellsPath, LongSeqShows
    <3>3. CASE readings = 1
      <4>1. (a = 1 /\ s = 1) \/ (a = -1 /\ s = 2)
        BY <2>7, <3>3 DEF EncoderInv, SeqTellsPath
      <4>2. (b = 2 /\ t = 4) \/ (b = -2 /\ t = 8)
        BY <2>10, <2>11, <4>1
      <4> QED
        BY <2>7, <3>1, <3>3, <4>2 DEF SeqTellsPath, LongSeqShows
    <3>4. CASE readings = 2
      <4>1. (a = 2 /\ s = 4) \/ (a = -2 /\ s = 8)
        BY <2>7, <3>4 DEF EncoderInv, SeqTellsPath
      <4>2. \/ (b = 3 /\ t = 18) \/ (b = 1 /\ t = 17)
            \/ (b = -3 /\ t = 33) \/ (b = -1 /\ t = 34)
        BY <2>10, <2>11, <4>1
      <4> QED
        BY <2>7, <3>1, <3>4, <4>2 DEF SeqTellsPath, LongSeqShows
    <3> QED
      BY <1>1, <2>8, <3>2, <3>3, <3>4
  <2>9. ASSUME readings >= 3 PROVE SeqTellsPath' /\ LongSeqShows'
    <3>1. readings' = 4
      BY <1>1, <2>1, <2>9
    <3>4. SeqTellsPath'
      BY <3>1 DEF SeqTellsPath
    <3>2. CASE readings = 3
      <4>1. \/ (a = 3 /\ s = 18) \/ (a = 1 /\ s = 17)
            \/ (a = -3 /\ s = 33) \/ (a = -1 /\ s = 34)
        BY <2>7, <3>2 DEF EncoderInv, SeqTellsPath
      <4>2. \/ (b = 2 /\ d = 0 /\ t = 72) \/ (b = 2 /\ d = 0 /\ t = 68)
            \/ (b = -2 /\ d = 0 /\ t = 132) \/ (b = -2 /\ d = 0 /\ t = 136)
        BY <2>10, <2>11, <4>1
      <4>3. /\ b \in {-3, -2, -1, 1, 2, 3} /\ t % 4 = d
            /\ t % 16 # 0 /\ (t \div 4) % 16 # 0 /\ (t \div 16) % 16 # 0
            /\ (t \div 64) % 16 # 0
        BY <4>2
      <4> QED
        BY <1>2, <2>7, <3>1, <3>4, <4>3 DEF LongSeqShows
    <3>3. CASE readings = 4
      <4>1. /\ a \in {-3, -2, -1, 1, 2, 3}
            /\ s % 4 = 2 * Contacts(polled)[1] + Contacts(polled)[2]
            /\ s % 16 # 0 /\ (s \div 4) % 16 # 0 /\ (s \div 16) % 16 # 0
        BY <2>7, <3>3 DEF EncoderInv, LongSeqShows
      <4>2. /\ t % 4 = d /\ t % 16 = 4 * (s % 4) + d
            /\ (t \div 4) % 16 # 0 /\ (t \div 16) % 16 # 0
            /\ (t \div 64) % 16 # 0
        <5>1. /\ t % 4 = d /\ t % 16 = 4 * (s % 4) + d
              /\ (t \div 4) % 16 = s % 16
              /\ (t \div 16) % 16 = (s \div 4) % 16
              /\ (t \div 64) % 16 = (s \div 16) % 16
          BY <2>2, ShiftedDigits
        <5> QED
          BY <4>1, <5>1
      <4>3. s % 4 # 0 \/ d # 0
        <5>1. \/ polled % 4 # 2 \/ shaft % 4 # 2
          BY <1>1, <2>4
        <5>2. d = 0 => shaft % 4 = 2
          BY <2>5
        <5>3. s % 4 = 0 => polled % 4 = 2
          <6>1. /\ polled % 4 \in 0 .. 3 /\ polled % 4 # 0
                /\ polled % 4 = 1 => Contacts(polled) = <<0, 1>>
                /\ polled % 4 = 3 => Contacts(polled) = <<1, 0>>
            BY <1>1, <2>6, <4>1, ContactsAt
          <6> QED
            BY <4>1, <6>1
        <5> QED
          BY <5>1, <5>2, <5>3
      <4>4. t % 16 # 0
        <5>1. PICK c \in 0 .. 3 : c = s % 4
          BY <1>1
        <5>2. c # 0 \/ d # 0
          BY <4>3, <5>1
        <5>3. 4 * c + d # 0
          BY <5>2
        <5> QED
          BY <4>2, <5>1, <5>3
      <4>5. b \in {-3, -2, -1, 1, 2, 3}
        BY <2>10, <4>1
      <4> QED
        BY <1>2, <2>7, <3>1, <3>4, <4>2, <4>4, <4>5 DEF LongSeqShows
    <3> QED
      BY <1>1, <2>9, <3>2, <3>3
  <2> QED
    BY <1>1, <1>3, <2>1, <2>3, <2>8, <2>9 DEF EncoderInv
<1> QED
  BY <1>4, <1>5, <1>6

\* What changes the encoder but not the announcements that are taken from it.
KnobStep ==
  \/ \E step \in {-1, 1} : Turn(step)
  \/ Poll
  \/ UNCHANGED encoder

EncoderStep == KnobStep \/ \E d \in Direction : Take(d)

LEMMA EncoderInvStep ==
  ASSUME EncoderInv, Unseen = 1, EncoderStep
  PROVE  EncoderInv'
<1>1. ASSUME NEW step \in {-1, 1}, Turn(step)
      PROVE  EncoderInv'
  <2>1. /\ shaft' = shaft + step /\ Distance(shaft + step, polled) <= 1
        /\ UNCHANGED <<polled, prev, seq, offered, restedAt, readings, fiddled>>
    BY <1>1 DEF Turn
  <2>2. shaft' \in Int /\ polled' - shaft' \in {-1, 0, 1}
    BY <2>1 DEF EncoderInv, EncoderType, Distance
  <2>3. KeepsUp' /\ SeqTellsPath' /\ LongSeqShows'
    BY <2>1, <2>2
    DEF EncoderInv, KeepsUp, SeqTellsPath, LongSeqShows, Away, Contacts
  <2>4. EncoderType'
    BY <2>1, <2>2 DEF EncoderInv, EncoderType
  <2> QED
    BY <2>1, <2>3, <2>4 DEF EncoderInv
<1>2. ASSUME NEW d \in Direction, Take(d)
      PROVE  EncoderInv'
  <2>1. /\ offered[d] > 0 /\ offered' = [offered EXCEPT ![d] = @ - 1]
        /\ UNCHANGED <<shaft, polled, prev, seq, restedAt, readings, fiddled>>
    BY <1>2 DEF Take
  <2>2. offered' \in [Direction -> Nat]
    BY <2>1 DEF EncoderInv, EncoderType
  <2>3. EncoderType'
    BY <2>1, <2>2 DEF EncoderInv, EncoderType
  <2>4. KeepsUp'
    BY <2>1 DEF EncoderInv, KeepsUp, Contacts
  <2>5. SeqTellsPath'
    BY <2>1 DEF EncoderInv, SeqTellsPath, Away
  <2>6. LongSeqShows'
    BY <2>1 DEF EncoderInv, LongSeqShows, Away, Contacts
  <2> QED
    BY <2>1, <2>3, <2>4, <2>5, <2>6 DEF EncoderInv
<1>3. CASE UNCHANGED encoder
  BY <1>3 DEF encoder, EncoderInv, EncoderType, KeepsUp, SeqTellsPath,
              LongSeqShows, Away, Contacts
<1> QED
  BY <1>1, <1>2, <1>3, PollKeepsInv DEF EncoderStep, KnobStep

-----------------------------------------------------------------------------
(***************************************************************************)
(* The steps that concern the controls                                      *)
(***************************************************************************)

LEMMA ControlSteps ==
  ASSUME [Next]_vars
  PROVE  ControlsNext \/ UNCHANGED fixtures
BY DEF Next, vars, fixtures, controls, Serve, PeerMoves, TimerIsSet, AnimateBar,
       Show, Mishap, CallIsMade, CallGoesOn, CallMeetsFault

\* What a control does with the encoder and the cursor at the same time.
CursorStep ==
  \/ KnobStep /\ UNCHANGED cursor
  \/ \E d \in Direction : Take(d) /\ Turned("rotaryL", d)
  \/ \E k \in {"rotaryM", "rotaryR"}, d \in Direction :
       Turned(k, d) /\ UNCHANGED encoder
  \/ \E k \in Knob : Settle(k) /\ UNCHANGED encoder

LEMMA CursorSteps ==
  ASSUME [Next]_vars
  PROVE  CursorStep
<1>1. CASE UNCHANGED fixtures
  BY <1>1 DEF fixtures, panel, KnobStep, CursorStep
<1>2. CASE ControlsNext
  <2>1. ASSUME NEW step \in {-1, 1}, TurnShaft(step)
        PROVE  CursorStep
    BY <2>1 DEF TurnShaft, panel, KnobStep, CursorStep
  <2>2. CASE PollEncoder
    BY <2>2 DEF PollEncoder, panel, KnobStep, CursorStep
  <2>3. ASSUME NEW k \in Knob, NEW d \in Direction, TakeTurn(k, d)
        PROVE  CursorStep
    <3>1. Turned(k, d)
      BY <2>3 DEF TakeTurn, HandleTurn
    <3>2. CASE k = "rotaryL"
      BY <2>3, <3>1, <3>2 DEF TakeTurn, CursorStep
    <3>3. CASE k # "rotaryL"
      BY <2>3, <3>1, <3>3 DEF TakeTurn, CursorStep, Knob
    <3> QED
      BY <3>2, <3>3
  <2>4. CASE ~(\E step \in {-1, 1} : TurnShaft(step)) /\ ~PollEncoder
             /\ ~(\E k \in Knob, d \in Direction : TakeTurn(k, d))
             /\ ~(\E k \in Knob : EndTurn(k) /\ UNCHANGED encoder)
    <3>1. UNCHANGED <<encoder, cursor>>
      BY <1>2, <2>4
      DEF ControlsNext, ThrowSwitch, WatchSwitch, TakeFrom, TakeBigButton,
          TakeButtonR, TakeS1, EndOrCopy, ReadCell, WriteCell, ServeBigButton, AimX,
          AimY, Fire, SetLink, panel
    <3> QED
      BY <3>1 DEF KnobStep, CursorStep
  <2>5. ASSUME NEW k \in Knob, EndTurn(k), UNCHANGED encoder
        PROVE  CursorStep
    BY <2>5 DEF EndTurn, CursorStep
  <2> QED
    BY <2>1, <2>2, <2>3, <2>4, <2>5
<1> QED
  BY <1>1, <1>2, ControlSteps

LEMMA EncoderSteps ==
  ASSUME [Next]_vars
  PROVE  EncoderStep
BY CursorSteps DEF CursorStep, EncoderStep, KnobStep

LEMMA EncoderInvariant ==
  ASSUME Unseen = 1
  PROVE  Spec => []EncoderInv
<1>1. Init => EncoderInv
  BY EncoderInvInit DEF Init, ControlsInit
<1>2. EncoderInv /\ [Next]_vars => EncoderInv'
  BY EncoderInvStep, EncoderSteps
<1> QED
  BY <1>1, <1>2, PTL DEF Spec

\* If the poller sees every quarter step, a step is announced only if the knob
\* rests one step further in that direction, whatever it was used for before and
\* whatever seq has lost (watchChanges).
THEOREM NoStepIsPhantom ==
  ASSUME Unseen = 1
  PROVE  Spec => NoPhantomStep
<1>1. EncoderInv /\ [Next]_vars
        => [ /\ offered'[Left] > offered[Left] => Moved = -4
             /\ offered'[Right] > offered[Right] => Moved = 4 ]_encoder
  <2> SUFFICES ASSUME EncoderInv, [Next]_vars
               PROVE  \/ UNCHANGED encoder
                      \/ /\ offered'[Left] > offered[Left] => Moved = -4
                         /\ offered'[Right] > offered[Right] => Moved = 4
    OBVIOUS
  <2>1. offered \in [Direction -> Nat] /\ Left \in Direction /\ Right \in Direction
    BY DEF EncoderInv, EncoderType, Direction
  <2>2. CASE UNCHANGED offered
    BY <2>1, <2>2
  <2>3. ASSUME NEW d \in Direction, Take(d)
        PROVE  offered'[Left] <= offered[Left] /\ offered'[Right] <= offered[Right]
    BY <2>1, <2>3 DEF Take
  <2>4. CASE Poll /\ offered' # offered
    <3>1. /\ Contacts(shaft) # prev /\ Contacts(shaft) = Open
          /\ offered' = [d \in Direction |->
                           IF d \in Recognized(seq) THEN offered[d] + 1
                                                    ELSE offered[d]]
      BY <2>4 DEF Poll
    <3>2. /\ offered'[Left] > offered[Left] => Left \in Recognized(seq)
          /\ offered'[Right] > offered[Right] => Right \in Recognized(seq)
      BY <2>1, <3>1
    <3>3. \/ Recognized(seq) = {}
          \/ Moved = 4 /\ Recognized(seq) = {Right}
          \/ Moved = -4 /\ Recognized(seq) = {Left}
      BY <2>4, <3>1, PollAtRest
    <3> QED
      BY <3>2, <3>3 DEF Left, Right
  <2>5. CASE \E step \in {-1, 1} : Turn(step)
    BY <2>2, <2>5 DEF Turn
  <2>6. (\E d \in Direction : Take(d)) =>
          ~(offered'[Left] > offered[Left]) /\ ~(offered'[Right] > offered[Right])
    <3> SUFFICES ASSUME NEW d \in Direction, Take(d)
                 PROVE  ~(offered'[Left] > offered[Left])
                          /\ ~(offered'[Right] > offered[Right])
      OBVIOUS
    <3>1. offered' \in [Direction -> Nat]
      BY <2>1 DEF Take
    <3> QED
      BY <2>1, <2>3, <3>1
  <2> QED
    BY <2>2, <2>4, <2>5, <2>6, EncoderSteps DEF EncoderStep, KnobStep, encoder
<1> QED
  BY <1>1, EncoderInvariant, PTL DEF Spec, NoPhantomStep

\* A step made without turning back is announced (watchChanges).
THEOREM PlainStepsAnnounced ==
  ASSUME Unseen = 1
  PROVE  Spec => PlainStepAnnounced
<1>1. EncoderInv
        => (Poll /\ restedAt' # restedAt /\ readings = 3 /\ Distance(Moved, 0) = 4
              => offered' # offered)
  <2> SUFFICES ASSUME EncoderInv, Poll, restedAt' # restedAt, readings = 3,
                      Distance(Moved, 0) = 4
               PROVE  offered' # offered
    OBVIOUS
  <2>1. /\ Contacts(shaft) # prev /\ Contacts(shaft) = Open
        /\ offered' = [d \in Direction |->
                         IF d \in Recognized(seq) THEN offered[d] + 1
                                                  ELSE offered[d]]
    BY DEF Poll
  <2>2. \/ Moved = 4 /\ Recognized(seq) = {Right}
        \/ Moved = -4 /\ Recognized(seq) = {Left}
    <3>1. Moved # 0
      BY DEF Distance
    <3> QED
      BY <2>1, <3>1, PollAtRest
  <2>3. PICK e \in Direction : e \in Recognized(seq)
    BY <2>2 DEF Direction
  <2>4. offered'[e] = offered[e] + 1 /\ offered[e] \in Nat
    BY <2>1, <2>3 DEF EncoderInv, EncoderType
  <2> QED
    BY <2>4
<1> QED
  BY <1>1, EncoderInvariant, PTL DEF Spec, PlainStepAnnounced

-----------------------------------------------------------------------------
(***************************************************************************)
(* The cursor                                                               *)
(***************************************************************************)

CursorType ==
  /\ x \in -1 .. Width - 1 /\ y \in -1 .. Height - 1
  /\ hue \in Nat /\ turned \in Int
  /\ x = -1 => mu = "rotaryL"
  /\ y = -1 => mu = "rotaryM"

\* A panel's edge is the other one's neighbour.
LEMMA Wraps ==
  ASSUME NEW n \in Nat \ {0}
  PROVE  /\ \A p \in 0 .. n - 1 :
              /\ Up(p, n) \in 0 .. n - 1
              /\ \E k \in {0, 1} : Up(p, n) = (p + 1) + n * (-k)
         /\ \A p \in -1 .. n - 1 :
              /\ Wrapped(p, n) \in 0 .. n - 1
              /\ \E k \in {0, 1} : Wrapped(p, n) = p + n * k
<1>1. ASSUME NEW p \in 0 .. n - 1
      PROVE  Up(p, n) = IF p = n - 1 THEN 0 ELSE p + 1
  <2>1. CASE p = n - 1
    <3>1. n % n = 0
      OBVIOUS
    <3>2. p + 1 = n
      BY <2>1
    <3> QED
      BY <2>1, <3>1, <3>2 DEF Up
  <2>2. CASE p # n - 1
    <3>1. p + 1 \in 0 .. n - 1
      BY <2>2
    <3>2. (p + 1) % n = p + 1
      BY <3>1
    <3> QED
      BY <2>2, <3>2 DEF Up
  <2> QED
    BY <2>1, <2>2
<1>2. ASSUME NEW p \in 0 .. n - 1
      PROVE  \E k \in {0, 1} : Up(p, n) = (p + 1) + n * (-k)
  <2>1. n * (-1) = -n /\ n * (-0) = 0
    OBVIOUS
  <2> QED
    BY <1>1, <2>1
<1>3. ASSUME NEW p \in -1 .. n - 1
      PROVE  /\ Wrapped(p, n) = IF p = -1 THEN n - 1 ELSE p
             /\ Wrapped(p, n) \in 0 .. n - 1
  BY DEF Wrapped
<1>4. ASSUME NEW p \in -1 .. n - 1
      PROVE  \E k \in {0, 1} : Wrapped(p, n) = p + n * k
  <2>1. n * 1 = n /\ n * 0 = 0
    OBVIOUS
  <2> QED
    BY <1>3, <2>1
<1> QED
  BY <1>1, <1>2, <1>3, <1>4

\* Each value from a knob changes one of column, row and hue, if any.
LEMMA TurnedSteps ==
  ASSUME CursorType, NEW k \in Knob, NEW d, Turned(k, d)
  PROVE  /\ CursorType' /\ mu = Nobody /\ mu' = k
         /\ (k = "rotaryL" /\ d = Left) => x' = x - 1
         /\ (k = "rotaryL" /\ d = Right) => x' = Up(x, Width)
         /\ k # "rotaryL" => x' = x
         /\ k # "rotaryM" => y' = y
         /\ k # "rotaryR" => UNCHANGED <<hue, turned>>
         /\ \/ UNCHANGED <<hue, turned>>
            \/ /\ hue' = ((hue + HueStep) % HueWord) % Hues
               /\ turned' = turned + 1
            \/ hue' = Lowered(hue) /\ turned' = turned - 1
<1>1. /\ Width \in Nat \ {0} /\ Height \in Nat \ {0} /\ HueStep \in Nat \ {0}
      /\ Hues \in Nat \ {0} /\ HueWord \in Nat \ {0}
  BY PanelAssumption
<1>2. /\ x \in 0 .. Width - 1 /\ y \in 0 .. Height - 1
      /\ hue \in Nat /\ turned \in Int /\ mu = Nobody /\ mu' = k
  <2>1. mu = Nobody /\ mu' = k
    BY DEF Turned
  <2>2. x # -1 /\ y # -1
    BY <2>1 DEF CursorType, Nobody
  <2> QED
    BY <1>1, <2>1, <2>2 DEF CursorType
<1>3. Up(x, Width) \in 0 .. Width - 1 /\ Up(y, Height) \in 0 .. Height - 1
  BY <1>1, <1>2, Wraps
<1>4. CASE k = "rotaryL" /\ d = 0 /\ MoveLeft
  <2>1. x' = x - 1 /\ UNCHANGED <<y, hue, turned>>
    BY <1>4 DEF MoveLeft, MoveTo
  <2> QED
    BY <1>1, <1>2, <1>4, <2>1 DEF CursorType, Left, Right
<1>5. CASE k = "rotaryL" /\ d = 1 /\ MoveRight
  <2>1. x' = Up(x, Width) /\ UNCHANGED <<y, hue, turned>>
    BY <1>5 DEF MoveRight, MoveTo
  <2> QED
    BY <1>1, <1>2, <1>3, <1>5, <2>1 DEF CursorType, Left, Right
<1>6. CASE k = "rotaryM" /\ d = 0 /\ MoveDown
  <2>1. y' = Up(y, Height) /\ UNCHANGED <<x, hue, turned>>
    BY <1>6 DEF MoveDown, MoveTo
  <2> QED
    BY <1>1, <1>2, <1>3, <1>6, <2>1 DEF CursorType
<1>7. CASE k = "rotaryM" /\ d = 1 /\ MoveUp
  <2>1. y' = y - 1 /\ UNCHANGED <<x, hue, turned>>
    BY <1>7 DEF MoveUp, MoveTo
  <2> QED
    BY <1>1, <1>2, <1>7, <2>1 DEF CursorType
<1>8. CASE k = "rotaryR" /\ d = 0 /\ DecrementHue
  <2>1. /\ hue' = Lowered(hue) /\ turned' = turned - 1 /\ UNCHANGED <<x, y>>
    BY <1>8 DEF DecrementHue, Dye
  <2>2. Lowered(hue) \in Nat
    <3>1. (hue - HueStep) % HueWord \in 0 .. HueWord - 1
      BY <1>1, <1>2, Remainder
    <3>2. Hues - 1 \in Nat
      BY <1>1
    <3> QED
      BY <1>1, <3>1, <3>2 DEF Lowered
  <2> QED
    BY <1>1, <1>2, <1>8, <2>1, <2>2 DEF CursorType
<1>9. CASE k = "rotaryR" /\ d = 1 /\ IncrementHue
  <2>1. /\ hue' = ((hue + HueStep) % HueWord) % Hues
        /\ turned' = turned + 1 /\ UNCHANGED <<x, y>>
    BY <1>9 DEF IncrementHue, Dye
  <2>2. hue' \in Nat
    <3>1. (hue + HueStep) % HueWord \in Int
      BY <1>1, <1>2, Remainder
    <3>2. ((hue + HueStep) % HueWord) % Hues \in 0 .. Hues - 1
      BY <1>1, <3>1, Remainder
    <3> QED
      BY <1>1, <2>1, <3>2
  <2> QED
    BY <1>1, <1>2, <1>9, <2>1, <2>2 DEF CursorType
<1> QED
  BY <1>4, <1>5, <1>6, <1>7, <1>8, <1>9 DEF Turned

\* The end of a turn only takes -1 to the other edge.
LEMMA SettleSteps ==
  ASSUME CursorType, NEW k \in Knob, Settle(k)
  PROVE  /\ CursorType' /\ mu = k /\ mu' = Nobody
         /\ UNCHANGED <<hue, turned>>
         /\ x' \in 0 .. Width - 1 /\ y' \in 0 .. Height - 1
         /\ k # "rotaryL" => x' = x
         /\ k # "rotaryM" => y' = y
         /\ \E c \in Int : x' = x + Width * c
<1>1. Width \in Nat \ {0} /\ Height \in Nat \ {0}
  BY PanelAssumption
<1>2. /\ mu = k /\ mu' = Nobody /\ UNCHANGED <<hue, turned>>
      /\ x' = Wrapped(x, Width) /\ y' = Wrapped(y, Height)
  BY DEF Settle
<1>3. x \in -1 .. Width - 1 /\ y \in -1 .. Height - 1
  BY DEF CursorType
<1>4. x' \in 0 .. Width - 1 /\ y' \in 0 .. Height - 1
  BY <1>1, <1>2, <1>3, Wraps
<1>5. \E c \in Int : x' = x + Width * c
  <2>1. PICK c \in {0, 1} : Wrapped(x, Width) = x + Width * c
    BY <1>1, <1>3, Wraps
  <2> QED
    BY <1>2, <2>1
<1>6. (k # "rotaryL" => x' = x) /\ (k # "rotaryM" => y' = y)
  <2>1. (k # "rotaryL" => x # -1) /\ (k # "rotaryM" => y # -1)
    BY <1>2 DEF CursorType
  <2> QED
    BY <1>1, <1>2, <1>3, <2>1 DEF Wrapped
<1>7. CursorType'
  BY <1>1, <1>2, <1>4 DEF CursorType
<1> QED
  BY <1>2, <1>4, <1>5, <1>6, <1>7

LEMMA CursorTypeStep ==
  ASSUME CursorType, CursorStep
  PROVE  CursorType'
<1>1. CASE UNCHANGED cursor
  BY <1>1 DEF cursor, CursorType
<1>2. ASSUME NEW k \in Knob, NEW d, Turned(k, d)
      PROVE  CursorType'
  BY <1>2, TurnedSteps
<1>3. ASSUME NEW k \in Knob, Settle(k)
      PROVE  CursorType'
  BY <1>3, SettleSteps
<1> QED
  BY <1>1, <1>2, <1>3 DEF CursorStep, Knob

LEMMA CursorInit == Init => CursorType
<1> SUFFICES ASSUME Init PROVE CursorType
  OBVIOUS
<1>1. x = 0 /\ y = 0 /\ hue = 0 /\ turned = 0
  BY DEF Init, ControlsInit, PanelInit
<1>2. 0 \in 0 .. Width - 1 /\ 0 \in 0 .. Height - 1
  BY PanelAssumption
<1> QED
  BY <1>1, <1>2, PanelAssumption DEF CursorType

-----------------------------------------------------------------------------
(* The hue *)

LEMMA HueStays ==
  ASSUME CursorType, HueFollowsKnob, CursorStep
  PROVE  HueFollowsKnob'
<1>1. PICK n \in Nat \ {0}, w \in Nat \ {0}, s \in Int :
        n = Hues /\ w = HueWord /\ s = HueStep /\ Divides(n, w)
  BY PanelAssumption DEF Divides
<1>2. PICK h \in Int, t \in Int, p \in Int :
        h = hue /\ t = turned /\ p = t * s /\ Congruent(h, p, n)
  BY <1>1 DEF CursorType, HueFollowsKnob, Congruent
<1>3. CASE UNCHANGED <<hue, turned>>
  BY <1>3 DEF HueFollowsKnob
<1>4. ASSUME NEW u \in Int
      PROVE  \E v \in Int : v = u % w /\ Congruent(v, u, n)
  <2>1. PICK p1 \in Int : u = w * p1 + (u % w)
    BY QuotientExists
  <2>2. PICK v \in Int : v = u % w
    BY Remainder
  <2>3. u = w * p1 + v
    BY <2>1, <2>2
  <2>4. Divides(n, w)
    BY <1>1
  <2>5. Congruent(v, u, n)
    BY <2>3, <2>4, RemainderCongruent
  <2> QED
    BY <2>2, <2>5
<1>5. CASE hue' = ((hue + HueStep) % HueWord) % Hues /\ turned' = turned + 1
  <2>1. turned' * HueStep = p + s
    BY <1>1, <1>2, <1>5
  <2>2. PICK u \in Int, v \in Int :
          u = h + s /\ v = u % w /\ Congruent(v, u, n)
    BY <1>4
  <2>3. hue' = v % n
    BY <1>1, <1>2, <1>5, <2>2
  <2>4. (v % n) % n = v % n
    <3>1. v % n \in 0 .. n - 1
      BY Remainder
    <3> QED
      BY <3>1
  <2>5. PICK z \in Int : z = p + s
    OBVIOUS
  <2>6. Congruent(u, z, n)
    <3>1. u = h + s /\ z = p + s /\ Congruent(h, p, n)
      BY <1>2, <2>2, <2>5
    <3> QED
      BY <3>1, SumsCongruent
  <2>7. (v % n) % n = (p + s) % n
    BY <2>2, <2>4, <2>5, <2>6 DEF Congruent
  <2> QED
    BY <1>1, <2>1, <2>3, <2>7 DEF HueFollowsKnob
<1>6. CASE hue' = Lowered(hue) /\ turned' = turned - 1
  <2>1. turned' * HueStep = p + (-s)
    BY <1>1, <1>2, <1>6
  <2>2. PICK u \in Int, v \in Int :
          u = h + (-s) /\ u = h - s /\ v = u % w /\ Congruent(v, u, n)
    BY <1>4
  <2>3. hue' = v
    BY <1>1, <1>2, <1>6, <2>2 DEF Lowered
  <2>4. PICK c \in Int, z \in Int : c = -s /\ z = p + (-s)
    OBVIOUS
  <2>5. Congruent(u, z, n)
    <3>1. u = h + c /\ z = p + c /\ Congruent(h, p, n)
      BY <1>2, <2>2, <2>4
    <3> QED
      BY <3>1, SumsCongruent
  <2>6. v % n = (p + (-s)) % n
    BY <2>2, <2>4, <2>5 DEF Congruent
  <2> QED
    BY <1>1, <2>1, <2>3, <2>6 DEF HueFollowsKnob
<1>7. \/ UNCHANGED <<hue, turned>>
      \/ hue' = ((hue + HueStep) % HueWord) % Hues /\ turned' = turned + 1
      \/ hue' = Lowered(hue) /\ turned' = turned - 1
  <2>1. CASE UNCHANGED cursor
    BY <2>1 DEF cursor
  <2>2. ASSUME NEW k \in Knob, NEW d, Turned(k, d)
        PROVE  \/ UNCHANGED <<hue, turned>>
               \/ hue' = ((hue + HueStep) % HueWord) % Hues /\ turned' = turned + 1
               \/ hue' = Lowered(hue) /\ turned' = turned - 1
    BY <2>2, TurnedSteps
  <2>3. ASSUME NEW k \in Knob, Settle(k)
        PROVE  UNCHANGED <<hue, turned>>
    BY <2>3, SettleSteps
  <2> QED
    BY <2>1, <2>2, <2>3 DEF CursorStep, Knob
<1> QED
  BY <1>3, <1>5, <1>6, <1>7

\* The hue stays in step with its knob, whatever the numbers (IncrementHue,
\* DecrementHue).
THEOREM HueInStep == Spec => []HueFollowsKnob
<1>1. Init => HueFollowsKnob
  <2> SUFFICES ASSUME Init PROVE HueFollowsKnob
    OBVIOUS
  <2>1. hue = 0 /\ turned = 0 /\ HueStep \in Nat
    BY PanelAssumption DEF Init, ControlsInit, PanelInit
  <2>2. turned * HueStep = 0
    BY <2>1
  <2> QED
    BY <2>1, <2>2 DEF HueFollowsKnob
<1>2. CursorType /\ HueFollowsKnob /\ [Next]_vars
        => CursorType' /\ HueFollowsKnob'
  BY CursorSteps, CursorTypeStep, HueStays
<1> QED
  BY <1>1, <1>2, CursorInit, PTL DEF Spec

-----------------------------------------------------------------------------
(* The column *)

\* Where the cursor will be when it has followed all announcements, and where
\* the knob was turned to, in steps.
Ahead == x + offered[Right] - offered[Left]
Turns == restedAt \div 4

LEMMA CursorFollows ==
  CursorFollowsShaft <=> (~fiddled => Congruent(Ahead, Turns, Width))
BY DEF CursorFollowsShaft, Congruent, Ahead, Turns

\* A step of the cursor answers an announcement, around the edge or not.
LEMMA TakeKeepsUp ==
  ASSUME EncoderInv, CursorType, NEW d \in Direction, Take(d), Turned("rotaryL", d)
  PROVE  \E k \in Int : Ahead' = Ahead + Width * k
<1>1. Width \in Nat \ {0}
  BY PanelAssumption
<1>2. /\ x \in 0 .. Width - 1 /\ offered \in [Direction -> Nat]
      /\ Left \in Direction /\ Right \in Direction /\ Left # Right
      /\ "rotaryL" \in Knob
  <2>1. x # -1
    BY TurnedSteps DEF CursorType, Nobody, Knob
  <2> QED
    BY <1>1, <2>1
    DEF CursorType, EncoderInv, EncoderType, Direction, Left, Right, Knob
<1>3. PICK l \in Nat, r \in Nat : l = offered[Left] /\ r = offered[Right]
  BY <1>2
<1>4. CASE d = Left
  <2>1. offered'[Left] = l - 1 /\ offered'[Right] = r
    BY <1>2, <1>3, <1>4 DEF Take
  <2>2. x' = x - 1
    BY <1>2, <1>4, TurnedSteps
  <2>3. Width * 0 = 0
    BY <1>1
  <2>4. Ahead' = Ahead + Width * 0
    BY <1>1, <1>2, <1>3, <2>1, <2>2, <2>3 DEF Ahead
  <2> QED
    BY <2>4
<1>5. CASE d = Right
  <2>1. offered'[Left] = l /\ offered'[Right] = r - 1
    BY <1>2, <1>3, <1>5 DEF Take
  <2>2. x' = Up(x, Width)
    BY <1>2, <1>5, TurnedSteps
  <2>3. PICK k \in {0, 1} : x' = (x + 1) + Width * (-k)
    BY <1>1, <1>2, <2>2, Wraps
  <2>4. Ahead' = Ahead + Width * (-k)
    BY <1>1, <1>2, <1>3, <2>1, <2>3 DEF Ahead
  <2> QED
    BY <2>4
<1> QED
  BY <1>4, <1>5 DEF Direction

\* A rest a step further is announced; a rest where it was before is not.
LEMMA RestIsAnnounced ==
  ASSUME EncoderInv, Unseen = 1, Poll, UNCHANGED x, x \in Int, ~fiddled'
  PROVE  ~fiddled /\ \E c \in {-1, 0, 1} : Ahead' = Ahead + c /\ Turns' = Turns + c
<1>1. /\ offered \in [Direction -> Nat] /\ restedAt \in Int /\ shaft \in Int
      /\ restedAt % 4 = 0
  BY DEF EncoderInv, EncoderType
<1>2. PICK l \in Nat, r \in Nat : l = offered[Left] /\ r = offered[Right]
  BY <1>1 DEF Direction
<1>3. Ahead = x + r - l /\ Ahead \in Int /\ Turns \in Int
  BY <1>1, <1>2 DEF Ahead, Turns
<1>4. CASE UNCHANGED <<offered, restedAt, fiddled>>
  <2>1. Ahead' = Ahead + 0 /\ Turns' = Turns + 0
    BY <1>3, <1>4 DEF Ahead, Turns
  <2> QED
    BY <1>4, <2>1
<1>5. CASE ~UNCHANGED <<offered, restedAt, fiddled>>
  <2>1. /\ Contacts(shaft) # prev /\ Contacts(shaft) = Open
        /\ offered' = [d \in Direction |->
                         IF d \in Recognized(seq) THEN offered[d] + 1
                                                  ELSE offered[d]]
        /\ restedAt' = shaft
        /\ fiddled' = (fiddled \/ (restedAt # shaft /\ readings # 3))
    BY <1>5 DEF Poll
  <2>2. ~fiddled /\ (restedAt # shaft => readings = 3)
    BY <2>1
  <2>3. /\ offered'[Left] = (IF Left \in Recognized(seq) THEN l + 1 ELSE l)
        /\ offered'[Right] = (IF Right \in Recognized(seq) THEN r + 1 ELSE r)
    BY <1>1, <1>2, <2>1 DEF Direction
  <2>4. \/ Moved = 0 /\ Recognized(seq) = {}
        \/ Moved = 4 /\ Recognized(seq) = {Right}
        \/ Moved = -4 /\ Recognized(seq) = {Left}
    <3>1. restedAt # shaft <=> Moved # 0
      BY <1>1 DEF Moved
    <3> QED
      BY <2>1, <2>2, <3>1, PollAtRest
  <2>5. CASE Moved = 0 /\ Recognized(seq) = {}
    <3>1. restedAt' = restedAt
      BY <1>1, <2>1, <2>5 DEF Moved
    <3>2. Ahead' = Ahead + 0 /\ Turns' = Turns + 0
      BY <1>2, <1>3, <2>3, <2>5, <3>1 DEF Ahead, Turns
    <3> QED
      BY <2>2, <3>2
  <2>6. CASE Moved = 4 /\ Recognized(seq) = {Right}
    <3>1. restedAt' = restedAt + 4
      BY <1>1, <2>1, <2>6 DEF Moved
    <3>2. Turns' = Turns + 1
      BY <1>1, <3>1 DEF Turns
    <3>3. offered'[Left] = l /\ offered'[Right] = r + 1
      BY <2>3, <2>6 DEF Left, Right
    <3>4. Ahead' = Ahead + 1
      BY <1>2, <1>3, <3>3 DEF Ahead
    <3> QED
      BY <2>2, <3>2, <3>4
  <2>7. CASE Moved = -4 /\ Recognized(seq) = {Left}
    <3>1. restedAt' = restedAt - 4
      BY <1>1, <2>1, <2>7 DEF Moved
    <3>2. Turns' = Turns + (-1)
      BY <1>1, <3>1 DEF Turns
    <3>3. offered'[Left] = l + 1 /\ offered'[Right] = r
      BY <2>3, <2>7 DEF Left, Right
    <3>4. Ahead' = Ahead + (-1)
      BY <1>2, <1>3, <3>3 DEF Ahead
    <3> QED
      BY <2>2, <3>2, <3>4
  <2> QED
    BY <2>4, <2>5, <2>6, <2>7
<1> QED
  BY <1>4, <1>5

LEMMA CursorKeepsFollowing ==
  ASSUME EncoderInv, Unseen = 1, CursorType, CursorFollowsShaft, CursorStep
  PROVE  CursorFollowsShaft'
<1>1. PICK w \in Nat \ {0} : w = Width
  BY PanelAssumption
<1>2. PICK a \in Int, b \in Int : a = Ahead /\ b = Turns
  <2>1. /\ x \in Int /\ offered[Left] \in Int /\ offered[Right] \in Int
        /\ restedAt \in Int
    BY PanelAssumption DEF CursorType, EncoderInv, EncoderType, Direction
  <2>2. Ahead \in Int /\ Turns \in Int
    BY <2>1 DEF Ahead, Turns
  <2> QED
    BY <2>2
<1>3. ASSUME NEW d \in Direction, Take(d), Turned("rotaryL", d), ~fiddled'
      PROVE  Congruent(Ahead', Turns', w)
  <2>1. PICK k \in Int : Ahead' = Ahead + Width * k
    BY <1>3, TakeKeepsUp
  <2>2. Turns' = b /\ ~fiddled
    BY <1>2, <1>3 DEF Take, Turns
  <2>3. PICK e \in Int : e = Ahead' /\ e = a + w * k
    BY <1>1, <1>2, <2>1
  <2>4. e % w = a % w
    BY <2>3, SameRemainder
  <2>5. Congruent(a, b, w)
    BY <1>1, <1>2, <2>2 DEF CursorFollowsShaft, Congruent, Ahead, Turns
  <2> QED
    BY <2>2, <2>3, <2>4, <2>5 DEF Congruent
<1>4. ASSUME KnobStep, UNCHANGED cursor, ~fiddled'
      PROVE  Congruent(Ahead', Turns', w)
  <2>1. UNCHANGED x /\ x \in Int
    BY <1>4, PanelAssumption DEF cursor, CursorType
  <2>2. CASE UNCHANGED <<offered, restedAt, fiddled>>
    <3>1. Ahead' = Ahead /\ Turns' = Turns
      BY <2>1, <2>2 DEF Ahead, Turns
    <3> QED
      BY <1>1, <1>4, <2>2, <3>1 DEF CursorFollowsShaft, Congruent, Ahead, Turns
  <2>3. CASE Poll
    <3>1. PICK c \in {-1, 0, 1} : Ahead' = Ahead + c /\ Turns' = Turns + c
      BY <1>4, <2>1, <2>3, RestIsAnnounced
    <3>2. ~fiddled
      BY <1>4, <2>1, <2>3, RestIsAnnounced
    <3>3. Congruent(a, b, w)
      BY <1>1, <1>2, <3>2 DEF CursorFollowsShaft, Congruent, Ahead, Turns
    <3>4. PICK e \in Int, f \in Int, g \in Int :
            g = c /\ e = a + g /\ f = b + g /\ e = Ahead' /\ f = Turns'
      BY <1>2, <3>1
    <3>5. Congruent(e, f, w)
      BY <3>3, <3>4, SumsCongruent
    <3> QED
      BY <3>4, <3>5
  <2> QED
    BY <1>4, <2>2, <2>3 DEF KnobStep, Turn, encoder
<1>5. ASSUME NEW k \in {"rotaryM", "rotaryR"}, NEW d \in Direction,
             Turned(k, d), UNCHANGED encoder, ~fiddled'
      PROVE  Congruent(Ahead', Turns', w)
  <2>1. Ahead' = Ahead /\ Turns' = Turns /\ ~fiddled
    BY <1>5, TurnedSteps DEF encoder, Ahead, Turns, Knob
  <2>2. Congruent(Ahead, Turns, w)
    BY <1>1, <2>1 DEF CursorFollowsShaft, Congruent, Ahead, Turns
  <2> QED
    BY <2>1, <2>2
<1>6. ASSUME NEW k \in Knob, Settle(k), UNCHANGED encoder, ~fiddled'
      PROVE  Congruent(Ahead', Turns', w)
  <2>1. PICK c \in Int : x' = x + Width * c
    BY <1>6, SettleSteps
  <2>2. Turns' = b /\ ~fiddled
    BY <1>2, <1>6 DEF encoder, Turns
  <2>3. PICK e \in Int : e = Ahead' /\ e = a + w * c
    <3>1. /\ x \in Int /\ offered[Left] \in Int /\ offered[Right] \in Int
          /\ offered' = offered
      BY <1>6, PanelAssumption
      DEF CursorType, EncoderInv, EncoderType, Direction, encoder
    <3> QED
      BY <1>1, <1>2, <2>1, <3>1 DEF Ahead
  <2>4. e % w = a % w
    BY <2>3, SameRemainder
  <2>5. Congruent(a, b, w)
    BY <1>1, <1>2, <2>2 DEF CursorFollowsShaft, Congruent, Ahead, Turns
  <2> QED
    BY <2>2, <2>3, <2>4, <2>5 DEF Congruent
<1>7. ~fiddled' => Congruent(Ahead', Turns', w)
  BY <1>3, <1>4, <1>5, <1>6 DEF CursorStep
<1> QED
  BY <1>1, <1>7 DEF CursorFollowsShaft, Congruent, Ahead, Turns

\* If the poller sees every quarter step, the cursor gets to the column that the
\* knob was turned to, once it has followed what is announced, unless a step
\* was fiddled with (watchChanges, MoveLeft, MoveRight).
THEOREM CursorGetsThere ==
  ASSUME Unseen = 1
  PROVE  Spec => []CursorFollowsShaft
<1>1. Init => CursorFollowsShaft
  <2> SUFFICES ASSUME Init PROVE CursorFollowsShaft
    OBVIOUS
  <2>1. x = 0 /\ restedAt = 0 /\ offered[Left] = 0 /\ offered[Right] = 0
    BY DEF Init, ControlsInit, PanelInit, EncoderInit, Direction
  <2>2. x + offered[Right] - offered[Left] = 0 /\ restedAt \div 4 = 0
    BY <2>1
  <2> QED
    BY <2>2 DEF CursorFollowsShaft
<1>2. EncoderInv /\ CursorType /\ CursorFollowsShaft /\ [Next]_vars
        => CursorType' /\ CursorFollowsShaft'
  BY CursorSteps, CursorTypeStep, CursorKeepsFollowing
<1> QED
  BY <1>1, <1>2, CursorInit, EncoderInvariant, PTL DEF Spec

-----------------------------------------------------------------------------
(***************************************************************************)
(* Presses: found at most as often as made, served at most as often as      *)
(* found.                                                                   *)
(***************************************************************************)

Presses(u) == {i \in DOMAIN u : u[i] = 0}

LEMMA PressesFinite ==
  ASSUME NEW u \in Seq(Level)
  PROVE  IsFiniteSet(Presses(u)) /\ Cardinality(Presses(u)) \in Nat
<1>1. IsFiniteSet(1 .. Len(u))
  BY FS_Interval
<1>2. Presses(u) \in SUBSET (1 .. Len(u))
  BY DEF Presses
<1> QED
  BY <1>1, <1>2, FS_Subset, FS_CardinalityType

LEMMA PressOffered ==
  ASSUME NEW u \in Seq(Level), NEW e \in Level
  PROVE  /\ Append(u, e) \in Seq(Level)
         /\ Cardinality(Presses(Append(u, e))) = Cardinality(Presses(u)) + 1 - e
<1>1. /\ Append(u, e) \in Seq(Level) /\ DOMAIN Append(u, e) = 1 .. Len(u) + 1
      /\ DOMAIN u = 1 .. Len(u) /\ Append(u, e)[Len(u) + 1] = e
      /\ \A i \in 1 .. Len(u) : Append(u, e)[i] = u[i]
  OBVIOUS
<1>2. CASE e = 0
  <2>1. Presses(Append(u, e)) = Presses(u) \cup {Len(u) + 1}
    BY <1>1, <1>2 DEF Presses
  <2>2. Len(u) + 1 \notin Presses(u)
    BY <1>1 DEF Presses
  <2>3. Cardinality(Presses(u) \cup {Len(u) + 1}) = Cardinality(Presses(u)) + 1
    BY <2>2, PressesFinite, FS_AddElement
  <2>4. PICK c \in Nat : c = Cardinality(Presses(u))
    BY PressesFinite
  <2>5. Cardinality(Presses(Append(u, e))) = c + 1
    BY <2>1, <2>3, <2>4
  <2> QED
    BY <1>1, <1>2, <2>4, <2>5
<1>3. CASE e = 1
  <2>1. Presses(Append(u, e)) = Presses(u)
    BY <1>1, <1>3 DEF Presses
  <2> QED
    BY <1>1, <1>3, <2>1, PressesFinite
<1> QED
  BY <1>2, <1>3 DEF Level

LEMMA Removed ==
  ASSUME NEW u \in Seq(Level), NEW i \in DOMAIN u
  PROVE  /\ RemoveAt(u, i) \in Seq(Level) /\ Len(RemoveAt(u, i)) = Len(u) - 1
         /\ DOMAIN RemoveAt(u, i) = 1 .. Len(u) - 1
         /\ \A j \in 1 .. Len(u) - 1 :
              RemoveAt(u, i)[j] = IF j < i THEN u[j] ELSE u[j + 1]
<1>1. i \in 1 .. Len(u) /\ Len(u) \in Nat
  OBVIOUS
<1>2. PICK p \in Seq(Level) :
        /\ p = SubSeq(u, 1, i - 1) /\ Len(p) = i - 1
        /\ \A j \in 1 .. i - 1 : p[j] = u[j]
  <2>1. \A j \in 1 .. i - 1 : u[j] \in Level
    BY <1>1
  <2>2. /\ SubSeq(u, 1, i - 1) \in Seq(Level)
        /\ Len(SubSeq(u, 1, i - 1)) = IF 1 <= i - 1 THEN i - 1 - 1 + 1 ELSE 0
        /\ \A j \in 1 .. i - 1 - 1 + 1 : SubSeq(u, 1, i - 1)[j] = u[1 + j - 1]
    BY <1>1, <2>1, SubSeqProperties
  <2>3. Len(SubSeq(u, 1, i - 1)) = i - 1 /\ i - 1 - 1 + 1 = i - 1
    BY <1>1, <2>2
  <2>4. \A j \in 1 .. i - 1 : 1 + j - 1 = j
    OBVIOUS
  <2>5. \A j \in 1 .. i - 1 : SubSeq(u, 1, i - 1)[j] = u[j]
    BY <2>2, <2>3, <2>4
  <2> QED
    BY <2>2, <2>3, <2>5
<1>3. PICK q \in Seq(Level) :
        /\ q = SubSeq(u, i + 1, Len(u)) /\ Len(q) = Len(u) - i
        /\ \A j \in 1 .. Len(u) - i : q[j] = u[i + j]
  <2>1. \A j \in i + 1 .. Len(u) : u[j] \in Level
    BY <1>1
  <2>2. /\ SubSeq(u, i + 1, Len(u)) \in Seq(Level)
        /\ Len(SubSeq(u, i + 1, Len(u)))
             = IF i + 1 <= Len(u) THEN Len(u) - (i + 1) + 1 ELSE 0
        /\ \A j \in 1 .. Len(u) - (i + 1) + 1 :
             SubSeq(u, i + 1, Len(u))[j] = u[(i + 1) + j - 1]
    BY <1>1, <2>1, SubSeqProperties
  <2>3. /\ Len(SubSeq(u, i + 1, Len(u))) = Len(u) - i
        /\ Len(u) - (i + 1) + 1 = Len(u) - i
    BY <1>1, <2>2
  <2>4. \A j \in 1 .. Len(u) - i : (i + 1) + j - 1 = i + j
    BY <1>1
  <2>5. \A j \in 1 .. Len(u) - i : SubSeq(u, i + 1, Len(u))[j] = u[i + j]
    BY <2>2, <2>3, <2>4
  <2> QED
    BY <2>2, <2>3, <2>5
<1>4. Len(p) = i - 1 /\ \A j \in 1 .. i - 1 : p[j] = u[j]
  BY <1>2
<1>5. Len(q) = Len(u) - i /\ \A j \in 1 .. Len(u) - i : q[j] = u[i + j]
  BY <1>3
<1>6. RemoveAt(u, i) = p \o q
  BY <1>2, <1>3 DEF RemoveAt
<1>7. p \o q \in Seq(Level) /\ Len(p \o q) = Len(u) - 1
  BY <1>1, <1>4, <1>5
<1>8. ASSUME NEW j \in 1 .. Len(u) - 1
      PROVE  (p \o q)[j] = IF j < i THEN u[j] ELSE u[j + 1]
  <2>1. CASE j < i
    BY <1>1, <1>4, <1>5, <1>8, <2>1
  <2>2. CASE ~(j < i)
    <3>1. (p \o q)[j] = q[j - (i - 1)]
      <4>1. j \in Len(p) + 1 .. Len(p) + Len(q)
        BY <1>1, <1>4, <1>5, <1>8, <2>2
      <4>2. (p \o q)[j] = q[j - Len(p)]
        BY <4>1, ConcatProperties
      <4> QED
        BY <1>4, <4>2
    <3>2. q[j - (i - 1)] = u[i + (j - (i - 1))]
      BY <1>1, <1>5, <1>8, <2>2
    <3>3. i + (j - (i - 1)) = j + 1
      BY <1>1
    <3> QED
      BY <2>2, <3>1, <3>2, <3>3
  <2> QED
    BY <2>1, <2>2
<1>9. DOMAIN (p \o q) = 1 .. Len(u) - 1
  BY <1>7
<1> QED
  BY <1>6, <1>7, <1>8, <1>9, Zenon

LEMMA PressTaken ==
  ASSUME NEW u \in Seq(Level), NEW i \in DOMAIN u
  PROVE  /\ RemoveAt(u, i) \in Seq(Level)
         /\ Cardinality(Presses(RemoveAt(u, i))) + 1 - u[i]
              <= Cardinality(Presses(u))
<1>1. /\ i \in 1 .. Len(u) /\ Len(u) \in Nat /\ DOMAIN u = 1 .. Len(u)
      /\ u[i] \in {0, 1}
  BY DEF Level
<1>2. PICK v \in Seq(Level) : v = RemoveAt(u, i)
  BY Removed
<1>3. /\ Len(v) = Len(u) - 1 /\ DOMAIN v = 1 .. Len(u) - 1
      /\ \A j \in 1 .. Len(u) - 1 : v[j] = IF j < i THEN u[j] ELSE u[j + 1]
  BY <1>2, Removed
<1> DEFINE T == Presses(u) \ {i}
           f == [j \in Presses(v) |-> IF j < i THEN j ELSE j + 1]
<1>4. f \in [Presses(v) -> T]
  <2> SUFFICES ASSUME NEW j \in Presses(v) PROVE f[j] \in T
    OBVIOUS
  <2>1. j \in 1 .. Len(u) - 1 /\ v[j] = 0
    BY <1>3 DEF Presses
  <2>2. CASE j < i
    <3>1. u[j] = 0 /\ j \in 1 .. Len(u) /\ j # i
      BY <1>1, <1>3, <2>1, <2>2
    <3> QED
      BY <1>1, <2>2, <3>1 DEF Presses
  <2>3. CASE ~(j < i)
    <3>1. u[j + 1] = 0 /\ j + 1 \in 1 .. Len(u) /\ j + 1 # i
      BY <1>1, <1>3, <2>1, <2>3
    <3> QED
      BY <1>1, <2>3, <3>1 DEF Presses
  <2> QED
    BY <2>2, <2>3
<1>5. \A j, k \in Presses(v) : f[j] = f[k] => j = k
  <2> SUFFICES ASSUME NEW j \in Presses(v), NEW k \in Presses(v), f[j] = f[k]
               PROVE  j = k
    OBVIOUS
  <2>1. j \in Int /\ k \in Int
    BY <1>3 DEF Presses
  <2> QED
    BY <1>1, <2>1
<1>6. IsFiniteSet(T)
  BY PressesFinite, FS_RemoveElement
<1>7. Cardinality(Presses(v)) <= Cardinality(T)
  <2>1. f \in Injection(Presses(v), T)
    BY <1>4, <1>5 DEF Injection, IsInjective
  <2> HIDE DEF f, T
  <2> QED
    BY <1>6, <2>1, FS_Injection
<1>8. Cardinality(T) = Cardinality(Presses(u)) - (1 - u[i])
  <2>1. Cardinality(T)
          = IF i \in Presses(u) THEN Cardinality(Presses(u)) - 1
                                ELSE Cardinality(Presses(u))
    BY PressesFinite, FS_RemoveElement
  <2>2. i \in Presses(u) <=> u[i] = 0
    BY DEF Presses
  <2>3. Cardinality(Presses(u)) \in Nat
    BY PressesFinite
  <2> QED
    BY <1>1, <2>1, <2>2, <2>3
<1>9. /\ Cardinality(Presses(u)) \in Nat /\ Cardinality(Presses(v)) \in Nat
      /\ Cardinality(T) \in Int
  BY <1>1, <1>8, PressesFinite
<1> HIDE DEF T, f
<1> QED
  BY <1>1, <1>2, <1>7, <1>8, <1>9

SwitchType ==
  /\ level \in [Switch -> Level] /\ prevVal \in [Switch -> {Unread, 0, 1}]
  /\ updates \in [Switch -> Seq(Level)]
  /\ closed \in [Switch -> Nat] /\ found \in [Switch -> Nat]

\* A press that has been made and not found is the last one.
Unfound(s) == IF level[s] = 0 /\ prevVal[s] # 0 THEN 1 ELSE 0

FoundAsMade == \A s \in Switch : found[s] + Unfound(s) <= closed[s]

\* Presses that goroutines offer.
Waits(s) == Cardinality(Presses(updates[s]))

\* The press that the big button's goroutine is at work for.
Served == IF aim = << >> THEN 0 ELSE 1

BigButtonServed ==
  fired \in Nat /\ fired + Served + Waits("buttonBig") <= found["buttonBig"]

ButtonRServed == toggles \in Nat /\ toggles + Waits("buttonR") <= found["buttonR"]

PressInv == SwitchType /\ FoundAsMade /\ BigButtonServed /\ ButtonRServed

LEMMA ButtonsAreSwitches == "buttonBig" \in Switch /\ "buttonR" \in Switch
BY ControlsAssumption DEF Button

LEMMA PressInit == Init => PressInv
<1> SUFFICES ASSUME Init PROVE PressInv
  OBVIOUS
<1>1. PICK known : SwitchInit(known)
  BY DEF Init, ControlsInit
<1>2. fired = 0 /\ toggles = 0 /\ aim = << >>
  BY DEF Init, ControlsInit, PanelInit
<1>3. SwitchType
  <2>1. /\ level \in [Switch -> Level] /\ updates \in [Switch -> Seq(Level)]
        /\ closed \in [Switch -> Nat] /\ found \in [Switch -> Nat]
    BY <1>1 DEF SwitchInit, Level
  <2>2. prevVal \in [Switch -> {Unread, 0, 1}]
    BY <1>1 DEF SwitchInit, Level, FirstVal
  <2> QED
    BY <2>1, <2>2 DEF SwitchType
<1>4. FoundAsMade
  <2> SUFFICES ASSUME NEW s \in Switch
               PROVE  found[s] + Unfound(s) <= closed[s]
    BY DEF FoundAsMade
  <2>1. level[s] \in {0, 1} /\ closed[s] = 1 - level[s]
    BY <1>1 DEF SwitchInit, Level
  <2>2. CASE s \in known
    <3>1. prevVal[s] = level[s] /\ found[s] = 1 - level[s]
      BY <1>1, <2>2 DEF SwitchInit
    <3> QED
      BY <2>1, <3>1 DEF Unfound
  <2>3. CASE s \notin known
    <3>1. prevVal[s] = -1 /\ found[s] = 0
      BY <1>1, <2>3 DEF SwitchInit, FirstVal, Unread
    <3> QED
      BY <2>1, <3>1 DEF Unfound
  <2> QED
    BY <2>2, <2>3
<1>5. \A s \in Switch : Waits(s) = 0
  <2> SUFFICES ASSUME NEW s \in Switch PROVE Waits(s) = 0
    OBVIOUS
  <2>1. updates[s] = << >>
    BY <1>1 DEF SwitchInit
  <2>2. Presses(updates[s]) = {}
    BY <2>1 DEF Presses
  <2> QED
    BY <2>2, FS_EmptySet DEF Waits
<1>6. found["buttonBig"] >= 0 /\ found["buttonR"] >= 0
  BY <1>3, ButtonsAreSwitches DEF SwitchType
<1>7. BigButtonServed
  BY <1>2, <1>5, <1>6, ButtonsAreSwitches DEF BigButtonServed, Served
<1>8. ButtonRServed
  BY <1>2, <1>5, <1>6, ButtonsAreSwitches DEF ButtonRServed
<1> QED
  BY <1>3, <1>4, <1>7, <1>8 DEF PressInv

LEMMA WaitsCounted ==
  ASSUME SwitchType, NEW s \in Switch
  PROVE  Waits(s) \in Nat
BY PressesFinite DEF SwitchType, Waits

\* What the steps of a switch do to the counts.
LEMMA ThrowCounts ==
  ASSUME PressInv, NEW s \in Switch, Throw(s)
  PROVE  SwitchType' /\ FoundAsMade' /\ \A b \in Switch : Waits(b)' = Waits(b)
<1>1. /\ level' = [level EXCEPT ![s] = 1 - @]
      /\ closed' = [closed EXCEPT ![s] = @ + level[s]]
      /\ UNCHANGED <<prevVal, updates, found>>
  BY DEF Throw
<1>2. SwitchType /\ FoundAsMade
  BY DEF PressInv
<1>3. level[s] \in {0, 1} /\ closed[s] \in Nat /\ found[s] \in Nat
  BY <1>2 DEF SwitchType, Level
<1>4. /\ level' \in [Switch -> Level]
      /\ closed' \in [Switch -> Nat]
  <2>1. 1 - level[s] \in Level /\ closed[s] + level[s] \in Nat
    BY <1>3 DEF Level
  <2> QED
    BY <1>1, <1>2, <2>1 DEF SwitchType
<1>5. SwitchType'
  BY <1>1, <1>2, <1>4 DEF SwitchType
<1>6. ASSUME NEW b \in Switch
      PROVE  found'[b] + Unfound(b)' <= closed'[b]
  <2>1. found[b] + Unfound(b) <= closed[b]
    BY <1>2 DEF FoundAsMade
  <2>2. CASE b = s
    <3>1. level'[s] = 1 - level[s] /\ closed'[s] = closed[s] + level[s]
      BY <1>1, <1>2 DEF SwitchType
    <3>2. CASE level[s] = 0
      BY <1>1, <1>3, <2>1, <2>2, <3>1, <3>2 DEF Unfound
    <3>3. CASE level[s] = 1
      BY <1>1, <1>3, <2>1, <2>2, <3>1, <3>3 DEF Unfound
    <3> QED
      BY <1>3, <3>2, <3>3
  <2>3. CASE b # s
    <3>1. level'[b] = level[b] /\ closed'[b] = closed[b]
      BY <1>1, <1>2, <2>3 DEF SwitchType
    <3> QED
      BY <1>1, <2>1, <3>1 DEF Unfound
  <2> QED
    BY <2>2, <2>3
<1>7. \A b \in Switch : Waits(b)' = Waits(b)
  BY <1>1 DEF Waits
<1> QED
  BY <1>5, <1>6, <1>7 DEF FoundAsMade

LEMMA WatchCounts ==
  ASSUME PressInv, NEW s \in Switch, Watch(s)
  PROVE  /\ SwitchType' /\ FoundAsMade'
         /\ \A b \in Switch : Waits(b)' - Waits(b) = found'[b] - found[b]
<1>1. /\ prevVal' = [prevVal EXCEPT ![s] = level[s]]
      /\ updates' = [updates EXCEPT ![s] = Append(updates[s], level[s])]
      /\ found' = [found EXCEPT ![s] = @ + 1 - level[s]]
      /\ UNCHANGED <<level, closed>> /\ level[s] # prevVal[s]
  BY DEF Watch, Read, Offered
<1>2. SwitchType /\ FoundAsMade
  BY DEF PressInv
<1>3. /\ level[s] \in {0, 1} /\ closed[s] \in Nat /\ found[s] \in Nat
      /\ updates[s] \in Seq(Level) /\ level[s] \in Level
  BY <1>2 DEF SwitchType, Level
<1>4. /\ Append(updates[s], level[s]) \in Seq(Level)
      /\ Cardinality(Presses(Append(updates[s], level[s])))
           = Cardinality(Presses(updates[s])) + 1 - level[s]
  BY <1>3, PressOffered
<1>5. SwitchType'
  <2>1. prevVal' \in [Switch -> {Unread, 0, 1}]
    BY <1>1, <1>2, <1>3 DEF SwitchType
  <2>2. updates' \in [Switch -> Seq(Level)]
    BY <1>1, <1>2, <1>4 DEF SwitchType
  <2>3. found' \in [Switch -> Nat]
    <3>1. found[s] + 1 - level[s] \in Nat
      BY <1>3
    <3> QED
      BY <1>1, <1>2, <3>1 DEF SwitchType
  <2> QED
    BY <1>1, <1>2, <2>1, <2>2, <2>3 DEF SwitchType
<1>6. found'[s] = found[s] + 1 - level[s]
  BY <1>1, <1>2 DEF SwitchType
<1>7. ASSUME NEW b \in Switch
      PROVE  found'[b] + Unfound(b)' <= closed'[b]
  <2>1. found[b] + Unfound(b) <= closed[b]
    BY <1>2 DEF FoundAsMade
  <2>2. CASE b = s
    <3>1. prevVal'[s] = level[s] /\ level'[s] = level[s] /\ closed'[s] = closed[s]
      BY <1>1, <1>2 DEF SwitchType
    <3>2. CASE level[s] = 0
      BY <1>1, <1>3, <1>6, <2>1, <2>2, <3>1, <3>2 DEF Unfound
    <3>3. CASE level[s] = 1
      BY <1>1, <1>3, <1>6, <2>1, <2>2, <3>1, <3>3 DEF Unfound
    <3> QED
      BY <1>3, <3>2, <3>3
  <2>3. CASE b # s
    <3>1. prevVal'[b] = prevVal[b] /\ found'[b] = found[b]
      BY <1>1, <1>2, <2>3 DEF SwitchType
    <3> QED
      BY <1>1, <2>1, <3>1 DEF Unfound
  <2> QED
    BY <2>2, <2>3
<1>8. ASSUME NEW b \in Switch
      PROVE  Waits(b)' - Waits(b) = found'[b] - found[b]
  <2>1. PICK w \in Nat, f \in Nat : w = Waits(b) /\ f = found[b]
    BY <1>2, WaitsCounted DEF SwitchType
  <2>2. CASE b = s
    <3>1. updates'[s] = Append(updates[s], level[s])
      BY <1>1, <1>2 DEF SwitchType
    <3>2. Waits(b)' = w + 1 - level[s]
      BY <1>4, <2>1, <2>2, <3>1 DEF Waits
    <3> QED
      BY <1>3, <1>6, <2>1, <2>2, <3>2
  <2>3. CASE b # s
    <3>1. updates'[b] = updates[b] /\ found'[b] = f
      BY <1>1, <1>2, <2>1, <2>3 DEF SwitchType
    <3>2. Waits(b)' = w
      BY <2>1, <3>1 DEF Waits
    <3> QED
      BY <2>1, <3>1, <3>2
  <2> QED
    BY <2>2, <2>3
<1> QED
  BY <1>5, <1>7, <1>8 DEF FoundAsMade

LEMMA TakeCounts ==
  ASSUME PressInv, NEW s \in Switch, NEW i, TakeUpdate(s, i)
  PROVE  /\ SwitchType' /\ FoundAsMade' /\ UNCHANGED found
         /\ updates[s][i] \in {0, 1}
         /\ Waits(s)' + 1 - updates[s][i] <= Waits(s)
         /\ \A b \in Switch \ {s} : Waits(b)' = Waits(b)
<1>1. /\ i \in DOMAIN updates[s]
      /\ updates' = [updates EXCEPT ![s] = RemoveAt(updates[s], i)]
      /\ UNCHANGED <<level, prevVal, closed, found>>
  BY DEF TakeUpdate
<1>2. SwitchType /\ FoundAsMade /\ updates[s] \in Seq(Level)
  BY DEF PressInv, SwitchType
<1>3. /\ RemoveAt(updates[s], i) \in Seq(Level)
      /\ Cardinality(Presses(RemoveAt(updates[s], i))) + 1 - updates[s][i]
           <= Cardinality(Presses(updates[s]))
  BY <1>1, <1>2, PressTaken
<1>4. SwitchType'
  <2>1. updates' \in [Switch -> Seq(Level)]
    BY <1>1, <1>2, <1>3 DEF SwitchType
  <2> QED
    BY <1>1, <1>2, <2>1 DEF SwitchType
<1>5. FoundAsMade'
  BY <1>1, <1>2 DEF FoundAsMade, Unfound
<1>6. updates'[s] = RemoveAt(updates[s], i)
        /\ \A b \in Switch \ {s} : updates'[b] = updates[b]
  BY <1>1, <1>2 DEF SwitchType
<1>7. updates[s][i] \in {0, 1}
  BY <1>1, <1>2 DEF Level
<1> QED
  BY <1>1, <1>3, <1>4, <1>5, <1>6, <1>7 DEF Waits

\* A goroutine that has taken a press is done with it before it takes another.
LEMMA PressStep ==
  ASSUME PressInv, [Next]_vars
  PROVE  PressInv'
<1>1. /\ SwitchType /\ FoundAsMade /\ BigButtonServed /\ ButtonRServed
      /\ "buttonBig" \in Switch /\ "buttonR" \in Switch
      /\ fired \in Nat /\ toggles \in Nat /\ Served \in {0, 1}
  BY ButtonsAreSwitches DEF PressInv, BigButtonServed, ButtonRServed, Served
<1>2. PICK wb \in Nat, wr \in Nat, fb \in Nat, fr \in Nat :
        /\ wb = Waits("buttonBig") /\ wr = Waits("buttonR")
        /\ fb = found["buttonBig"] /\ fr = found["buttonR"]
        /\ fired + Served + wb <= fb /\ toggles + wr <= fr
  BY <1>1, WaitsCounted DEF SwitchType, BigButtonServed, ButtonRServed
<1>3. ASSUME UNCHANGED <<switches, fired, toggles>>, Served' <= Served
      PROVE  PressInv'
  <2>1. SwitchType' /\ FoundAsMade'
    BY <1>1, <1>3 DEF switches, SwitchType, FoundAsMade, Unfound
  <2>2. Waits("buttonBig")' = wb /\ Waits("buttonR")' = wr
    BY <1>2, <1>3 DEF switches, Waits
  <2>3. BigButtonServed' /\ ButtonRServed'
    <3>1. Served' \in {0, 1}
      BY DEF Served
    <3> QED
      BY <1>1, <1>2, <1>3, <2>2, <3>1 DEF switches, BigButtonServed, ButtonRServed
  <2> QED
    BY <2>1, <2>3 DEF PressInv
<1>4. ASSUME NEW s \in Switch, ThrowSwitch(s)
      PROVE  PressInv'
  <2>1. Throw(s) /\ UNCHANGED <<fired, aim, toggles, found>>
    BY <1>4 DEF ThrowSwitch, Throw, panel, aiming, demo
  <2>2. SwitchType' /\ FoundAsMade' /\ \A b \in Switch : Waits(b)' = Waits(b)
    BY <2>1, ThrowCounts
  <2>3. Served' = Served
    BY <2>1 DEF Served
  <2>4. BigButtonServed' /\ ButtonRServed'
    BY <1>1, <2>1, <2>2, <2>3 DEF BigButtonServed, ButtonRServed
  <2> QED
    BY <2>2, <2>4 DEF PressInv
<1>5. ASSUME NEW s \in Switch, WatchSwitch(s)
      PROVE  PressInv'
  <2>1. Watch(s) /\ UNCHANGED <<fired, aim, toggles>>
    BY <1>5 DEF WatchSwitch, panel, aiming, demo
  <2>2. /\ SwitchType' /\ FoundAsMade'
        /\ \A b \in Switch : Waits(b)' - Waits(b) = found'[b] - found[b]
    BY <2>1, WatchCounts
  <2>3. Served' = Served
    BY <2>1 DEF Served
  <2>4. PICK ub \in Nat, ur \in Nat, gb \in Nat, gr \in Nat :
          /\ ub = Waits("buttonBig")' /\ ur = Waits("buttonR")'
          /\ gb = found'["buttonBig"] /\ gr = found'["buttonR"]
    <3>1. Waits("buttonBig")' \in Nat /\ Waits("buttonR")' \in Nat
      <4>1. updates'["buttonBig"] \in Seq(Level) /\ updates'["buttonR"] \in Seq(Level)
        BY <1>1, <2>2 DEF SwitchType
      <4> QED
        BY <4>1, PressesFinite DEF Waits
    <3> QED
      BY <1>1, <2>2, <3>1 DEF SwitchType
  <2>5. ub - wb = gb - fb /\ ur - wr = gr - fr
    BY <1>1, <1>2, <2>2, <2>4
  <2>6. fired + Served + ub <= gb /\ toggles + ur <= gr
    BY <1>1, <1>2, <2>5
  <2>7. BigButtonServed' /\ ButtonRServed'
    BY <1>1, <2>1, <2>3, <2>4, <2>6 DEF BigButtonServed, ButtonRServed
  <2> QED
    BY <2>2, <2>7 DEF PressInv
<1>6. ASSUME NEW i, TakeBigButton(i)
      PROVE  PressInv'
  <2>1. /\ TakeUpdate("buttonBig", i) /\ aim = << >> /\ fired' = fired
        /\ toggles' = toggles /\ (updates["buttonBig"][i] # 0 => aim' = aim)
    BY <1>6 DEF TakeBigButton, AimX, panel, aiming, demo
  <2>2. /\ SwitchType' /\ FoundAsMade' /\ found' = found
        /\ updates["buttonBig"][i] \in {0, 1}
        /\ Waits("buttonBig")' + 1 - updates["buttonBig"][i] <= wb
        /\ Waits("buttonR")' = wr
    BY <1>1, <1>2, <2>1, TakeCounts
  <2>3. PICK ub \in Nat : ub = Waits("buttonBig")'
    <3>1. updates'["buttonBig"] \in Seq(Level)
      BY <1>1, <2>2 DEF SwitchType
    <3> QED
      BY <3>1, PressesFinite DEF Waits
  <2>4. Served = 0 /\ Served' \in {0, 1}
          /\ (updates["buttonBig"][i] # 0 => Served' = 0)
    BY <2>1 DEF Served
  <2>5. fired + Served' + ub <= fb
    BY <1>1, <1>2, <2>2, <2>3, <2>4
  <2>6. BigButtonServed' /\ ButtonRServed'
    BY <1>1, <1>2, <2>1, <2>2, <2>3, <2>5 DEF BigButtonServed, ButtonRServed
  <2> QED
    BY <2>2, <2>6 DEF PressInv
<1>7. ASSUME NEW i, TakeButtonR(i)
      PROVE  PressInv'
  <2>1. /\ TakeUpdate("buttonR", i) /\ UNCHANGED <<fired, aim>>
        /\ \/ updates["buttonR"][i] = 0 /\ toggles' = toggles + 1
           \/ updates["buttonR"][i] # 0 /\ toggles' = toggles
    BY <1>7 DEF TakeButtonR, panel, aiming, demo
  <2>2. /\ SwitchType' /\ FoundAsMade' /\ found' = found
        /\ updates["buttonR"][i] \in {0, 1}
        /\ Waits("buttonR")' + 1 - updates["buttonR"][i] <= wr
        /\ Waits("buttonBig")' = wb
    BY <1>1, <1>2, <2>1, TakeCounts
  <2>3. PICK ur \in Nat : ur = Waits("buttonR")'
    <3>1. updates'["buttonR"] \in Seq(Level)
      BY <1>1, <2>2 DEF SwitchType
    <3> QED
      BY <3>1, PressesFinite DEF Waits
  <2>4. toggles' \in Nat /\ toggles' + ur <= fr
    BY <1>1, <1>2, <2>1, <2>2, <2>3
  <2>5. Served' = Served
    BY <2>1 DEF Served
  <2>6. BigButtonServed' /\ ButtonRServed'
    BY <1>1, <1>2, <2>1, <2>2, <2>3, <2>4, <2>5 DEF BigButtonServed, ButtonRServed
  <2> QED
    BY <2>2, <2>6 DEF PressInv
<1>8. ASSUME NEW i, "s1" \in Switch, TakeS1(i)
      PROVE  PressInv'
  <2>1. TakeUpdate("s1", i) /\ UNCHANGED <<fired, aim, toggles>>
    BY <1>8 DEF TakeS1, panel, aiming, demo
  <2>2. /\ SwitchType' /\ FoundAsMade' /\ found' = found
        /\ \A b \in Switch \ {"s1"} : Waits(b)' = Waits(b)
    BY <1>8, <2>1, TakeCounts
  <2>3. Served' = Served /\ Waits("buttonR")' = wr /\ Waits("buttonBig")' = wb
    BY <1>1, <1>2, <2>1, <2>2 DEF Served
  <2>4. BigButtonServed' /\ ButtonRServed'
    BY <1>1, <1>2, <2>1, <2>2, <2>3 DEF BigButtonServed, ButtonRServed
  <2> QED
    BY <2>2, <2>4 DEF PressInv
<1>9. CASE ServeBigButton
  <2>1. Len(<< >>) = 0
    OBVIOUS
  <2>2. UNCHANGED <<switches, toggles>> /\ aim # << >>
    BY <1>9, <2>1 DEF ServeBigButton, AimY, Fire, demo
  <2>3. CASE AimY
    <3>1. fired' = fired /\ Served = 1 /\ Served' \in {0, 1}
      BY <2>2, <2>3 DEF AimY, Served
    <3>2. Served' <= Served
      BY <3>1
    <3> QED
      BY <1>3, <2>2, <3>1, <3>2
  <2>4. CASE Fire
    <3>1. fired' = fired + 1 /\ Served = 1 /\ Served' = 0
      BY <2>2, <2>4 DEF Fire, Served
    <3>2. SwitchType' /\ FoundAsMade'
      BY <1>1, <2>2 DEF switches, SwitchType, FoundAsMade, Unfound
    <3>3. Waits("buttonBig")' = wb /\ Waits("buttonR")' = wr /\ found' = found
      BY <1>2, <2>2 DEF switches, Waits
    <3>4. BigButtonServed' /\ ButtonRServed'
      BY <1>1, <1>2, <2>2, <3>1, <3>3 DEF BigButtonServed, ButtonRServed
    <3> QED
      BY <3>2, <3>4 DEF PressInv
  <2> QED
    BY <1>9, <2>3, <2>4 DEF ServeBigButton
<1>10. CASE UNCHANGED fixtures
  <2>1. UNCHANGED <<switches, fired, toggles, aim>>
    BY <1>10 DEF fixtures, panel, aiming, demo
  <2>2. Served' <= Served
    BY <1>1, <2>1 DEF Served
  <2> QED
    BY <1>3, <2>1, <2>2
<1>11. CASE \/ \E step \in {-1, 1} : TurnShaft(step)
            \/ PollEncoder
            \/ \E k \in Knob, d \in Direction : TakeTurn(k, d)
            \/ \E k \in Knob : EndOrCopy(k)
            \/ SetLink
  <2>1. UNCHANGED <<switches, fired, toggles, aim>>
    BY <1>11 DEF TurnShaft, PollEncoder, TakeTurn, HandleTurn, EndOrCopy, EndTurn,
                 ReadCell, WriteCell, SetLink, panel, aiming, demo
  <2>2. Served' <= Served
    BY <1>1, <2>1 DEF Served
  <2> QED
    BY <1>3, <2>1, <2>2
<1>12. ASSUME NEW s \in Switch, TakeFrom(s)
       PROVE  PressInv'
  BY <1>6, <1>7, <1>8, <1>12 DEF TakeFrom
<1> QED
  BY <1>4, <1>5, <1>9, <1>10, <1>11, <1>12, ControlSteps DEF ControlsNext

\* A button never acts more often than it was pressed, however its bounces are
\* read and its goroutines interleave (watchChanges, HandleInteractive).
THEOREM ActsArePresses == Spec => []OneActPerPress
<1>1. PressInv => OneActPerPress
  <2> SUFFICES ASSUME PressInv PROVE OneActPerPress
    OBVIOUS
  <2>1. /\ SwitchType /\ FoundAsMade /\ BigButtonServed /\ ButtonRServed
        /\ "buttonBig" \in Switch /\ "buttonR" \in Switch
    BY ButtonsAreSwitches DEF PressInv
  <2>2. \A s \in {"buttonBig", "buttonR"} :
          Waits(s) \in Nat /\ found[s] \in Nat /\ closed[s] \in Nat
            /\ found[s] <= closed[s]
    <3> SUFFICES ASSUME NEW s \in Switch
                 PROVE  Waits(s) \in Nat /\ found[s] \in Nat /\ closed[s] \in Nat
                          /\ found[s] <= closed[s]
      BY <2>1
    <3>1. Waits(s) \in Nat /\ found[s] \in Nat /\ closed[s] \in Nat
      BY <2>1, WaitsCounted DEF SwitchType
    <3>2. found[s] + Unfound(s) <= closed[s] /\ Unfound(s) \in {0, 1}
      BY <2>1 DEF FoundAsMade, Unfound
    <3> QED
      BY <3>1, <3>2
  <2>3. fired \in Nat /\ toggles \in Nat /\ Served \in {0, 1}
    BY <2>1 DEF BigButtonServed, ButtonRServed, Served
  <2> QED
    BY <2>1, <2>2, <2>3 DEF BigButtonServed, ButtonRServed, OneActPerPress
<1>2. Init => PressInv
  BY PressInit
<1>3. PressInv /\ [Next]_vars => PressInv'
  BY PressStep
<1> QED
  BY <1>1, <1>2, <1>3, PTL DEF Spec

-----------------------------------------------------------------------------
(***************************************************************************)
(* The screen                                                               *)
(***************************************************************************)

PanelStep ==
  \/ \E k \in Knob, d \in Direction : HandleTurn(k, d)
  \/ \E k \in Knob : EndTurn(k) \/ ReadCell(k) \/ WriteCell(k)
  \/ AimX \/ AimY \/ Fire
  \/ UNCHANGED panel

LEMMA PanelSteps ==
  ASSUME [Next]_vars
  PROVE  PanelStep
<1>1. CASE UNCHANGED fixtures
  BY <1>1 DEF fixtures, PanelStep
<1>2. CASE ControlsNext
  <2>1. ASSUME NEW k \in Knob, NEW d \in Direction, TakeTurn(k, d)
        PROVE  PanelStep
    BY <2>1 DEF TakeTurn, PanelStep
  <2>2. ASSUME NEW k \in Knob, EndOrCopy(k)
        PROVE  PanelStep
    BY <2>2 DEF EndOrCopy, PanelStep
  <2>3. CASE ServeBigButton
    BY <2>3 DEF ServeBigButton, PanelStep
  <2>4. ASSUME NEW s \in Switch, TakeFrom(s)
        PROVE  PanelStep
    BY <2>4 DEF TakeFrom, TakeBigButton, TakeButtonR, TakeS1, PanelStep
  <2>5. CASE \/ \E step \in {-1, 1} : TurnShaft(step)
             \/ \E s \in Switch : ThrowSwitch(s) \/ WatchSwitch(s)
             \/ PollEncoder
             \/ SetLink
    BY <2>5 DEF TurnShaft, ThrowSwitch, WatchSwitch, PollEncoder, SetLink, PanelStep
  <2> QED
    BY <1>2, <2>1, <2>2, <2>3, <2>4, <2>5 DEF ControlsNext
<1> QED
  BY <1>1, <1>2, ControlSteps

\* Copying goes through the cells, and through all of them.
LEMMA CellsVisited ==
  /\ Cells \in Nat
  /\ \A n \in 0 .. Cells - 1 : CellAt(n) \in Cell
  /\ \A c \in Cell : \E n \in 0 .. Cells - 1 : CellAt(n) = c
<1>1. PICK w \in Nat \ {0}, h \in Nat \ {0} : w = Width /\ h = Height
  BY PanelAssumption
<1>2. w * h \in Nat
  OBVIOUS
<1>3. Cells = w * h
  BY <1>1 DEF Cells
<1>4. ASSUME NEW n \in 0 .. w * h - 1
      PROVE  n % w \in 0 .. w - 1 /\ n \div w \in 0 .. h - 1
  <2>1. PICK q \in Int, r \in 0 .. w - 1 :
          q = n \div w /\ r = n % w /\ n = w * q + r
    BY <1>2, Remainder
  <2>2. PICK m \in Int : m = w * h /\ 0 <= n /\ n <= m - 1
    BY <1>2
  <2>3. ~(q <= -1)
    <3>1. q <= -1 => w * q <= -w
      OBVIOUS
    <3> QED
      BY <2>1, <2>2, <3>1
  <2>4. ~(q >= h)
    <3>1. q >= h => w * (q - h) >= 0
      OBVIOUS
    <3>2. w * (q - h) = w * q - w * h
      BY Distributes
    <3> QED
      BY <2>1, <2>2, <3>1, <3>2
  <2> QED
    BY <2>1, <2>3, <2>4
<1>5. ASSUME NEW a \in 0 .. w - 1, NEW b \in 0 .. h - 1
      PROVE  \E n \in 0 .. w * h - 1 : n % w = a /\ n \div w = b
  <2>1. PICK n \in Int : n = a + w * b
    OBVIOUS
  <2>2. n % w = a
    <3>1. PICK a1 \in Int, b1 \in Int : a1 = a /\ b1 = b /\ n = a1 + w * b1
      BY <2>1
    <3>2. n % w = a1 % w
      BY <3>1, SameRemainder
    <3>3. a % w = a
      OBVIOUS
    <3> QED
      BY <3>1, <3>2, <3>3
  <2>3. n \div w = b
    <3>1. PICK q \in Int : q = n \div w /\ n = w * q + (n % w)
      BY Remainder
    <3>2. w * q = w * b
      BY <2>1, <2>2, <3>1
    <3>3. w * (q - b) = 0
      BY <3>2, Distributes
    <3>4. q = b
      BY <3>3
    <3> QED
      BY <3>1, <3>4
  <2>4. n >= 0
    <3>1. w * b >= 0
      OBVIOUS
    <3> QED
      BY <2>1, <3>1
  <2>5. n <= w * h - 1
    <3>1. PICK e \in Nat : e = h - 1 - b
      OBVIOUS
    <3>2. w * h = w * b + w * (h - b)
      BY Distributes
    <3>3. w * (h - b) >= w
      BY <3>1
    <3> QED
      BY <2>1, <3>2, <3>3
  <2> QED
    BY <2>2, <2>3, <2>4, <2>5
<1>6. /\ Cells \in Nat /\ 0 .. Cells - 1 = 0 .. w * h - 1
      /\ Cell = (0 .. w - 1) \X (0 .. h - 1)
      /\ \A n : CellAt(n) = <<n % w, n \div w>>
  BY <1>1, <1>2, <1>3 DEF Cell, CellAt
<1>7. ASSUME NEW n \in 0 .. Cells - 1
      PROVE  CellAt(n) \in Cell
  <2>1. n % w \in 0 .. w - 1 /\ n \div w \in 0 .. h - 1
    BY <1>4, <1>6
  <2> QED
    BY <1>6, <2>1
<1>8. ASSUME NEW c \in Cell
      PROVE  \E n \in 0 .. Cells - 1 : CellAt(n) = c
  <2>1. PICK a \in 0 .. w - 1, b \in 0 .. h - 1 : c = <<a, b>>
    BY <1>6
  <2>2. PICK n \in 0 .. w * h - 1 : n % w = a /\ n \div w = b
    BY <1>5
  <2> QED
    BY <1>6, <2>1, <2>2
<1> QED
  BY <1>6, <1>7, <1>8

\* The panel is dark but for the cursor, and all dark in the middle of a move.
FrameShowsCursor ==
  /\ frame \in [Cell -> Int]
  /\ \A c \in Cell : c # <<x, y>> => frame[c] = Black
  /\ mu = Nobody => frame[<<x, y>>] = MakeColorHue(hue)
  /\ mu \in {"rotaryL", "rotaryM"} => \A c \in Cell : frame[c] = Black

CopyType ==
  /\ mu \in Knob \cup {Nobody}
  /\ screen \in [Cell -> Int] /\ torn \in BOOLEAN
  /\ copied \in [Knob -> 0 .. Cells] /\ held \in [Knob -> Int]
  /\ \A k \in Knob : held[k] # Nothing => copied[k] # Cells
  /\ \A k \in Knob : mu = k => copied[k] = Cells

\* What has been read is not out of date, and a cell that is has somebody on the
\* way to it.
Reached(k, c) == \E n \in copied[k] .. Cells - 1 : CellAt(n) = c

CopiesGetThere ==
  ~torn =>
    /\ \A k \in Knob : held[k] # Nothing => held[k] = Pixel(k)
    /\ \A c \in Cell :
         screen[c] = frame[c] \/ mu # Nobody \/ \E k \in Knob : Reached(k, c)

ScreenInv == CursorType /\ FrameShowsCursor /\ CopyType /\ CopiesGetThere

LEMMA ScreenInit == Init => ScreenInv
<1> SUFFICES ASSUME Init PROVE ScreenInv
  OBVIOUS
<1>1. /\ x = 0 /\ y = 0 /\ hue = 0 /\ mu = Nobody
      /\ frame = [c \in Cell |-> IF c = <<0, 0>> THEN MakeColorHue(0) ELSE Black]
      /\ screen = frame /\ torn = FALSE
      /\ copied = [k \in Knob |-> Cells] /\ held = [k \in Knob |-> Nothing]
  BY DEF Init, ControlsInit, PanelInit
<1>2. FrameShowsCursor
  <2>1. <<0, 0>> \in Cell
    BY PanelAssumption DEF Cell
  <2>2. frame \in [Cell -> Int]
    BY <1>1 DEF MakeColorHue, Black
  <2> QED
    BY <1>1, <2>1, <2>2 DEF FrameShowsCursor, Nobody
<1>3. CopyType
  <2>1. screen \in [Cell -> Int]
    BY <1>1 DEF MakeColorHue, Black
  <2>2. copied \in [Knob -> 0 .. Cells] /\ held \in [Knob -> Int]
    BY <1>1, CellsVisited DEF Nothing
  <2> QED
    BY <1>1, <2>1, <2>2 DEF CopyType, Nobody, Knob
<1>4. CopiesGetThere
  BY <1>1 DEF CopiesGetThere
<1> QED
  BY <1>2, <1>3, <1>4, CursorInit DEF ScreenInv

\* A turn puts the cursor out and paints it again where it is then.
LEMMA TurnErases ==
  ASSUME CursorType, FrameShowsCursor, NEW k \in Knob, NEW d, Turned(k, d)
  PROVE  FrameShowsCursor'
<1>1. mu = Nobody /\ mu' = k
  BY TurnedSteps
<1>2. mu' # Nobody
  BY <1>1 DEF Knob, Nobody
<1>3. ASSUME NEW nx, NEW ny, MoveTo(nx, ny)
      PROVE  FrameShowsCursor'
  <2>1. /\ frame' = [frame EXCEPT ![<<x, y>>] = Black]
        /\ frame \in [Cell -> Int] /\ Black \in Int
    BY <1>3 DEF MoveTo, FrameShowsCursor, Black
  <2>2. frame' \in [Cell -> Int] /\ \A c \in Cell : frame'[c] = Black
    BY <2>1 DEF FrameShowsCursor
  <2> QED
    BY <1>2, <2>2 DEF FrameShowsCursor
<1>4. ASSUME NEW h, Dye(h), k = "rotaryR"
      PROVE  FrameShowsCursor'
  <2>1. UNCHANGED <<x, y, frame>> /\ mu' \notin {"rotaryL", "rotaryM"}
    BY <1>1, <1>4 DEF Dye
  <2> QED
    BY <1>2, <2>1 DEF FrameShowsCursor
<1> QED
  BY <1>3, <1>4
  DEF Turned, MoveLeft, MoveRight, MoveDown, MoveUp, DecrementHue, IncrementHue

LEMMA SettlingPaints ==
  ASSUME CursorType, FrameShowsCursor, NEW k \in Knob, Settle(k)
  PROVE  FrameShowsCursor'
<1>1. /\ mu = k /\ mu' = Nobody /\ hue' = hue /\ hue \in Int
      /\ x' \in 0 .. Width - 1 /\ y' \in 0 .. Height - 1
      /\ k # "rotaryL" => x' = x
      /\ k # "rotaryM" => y' = y
  BY SettleSteps DEF CursorType
<1>2. PICK z \in Cell : z = <<x', y'>>
  BY <1>1 DEF Cell
<1>3. /\ frame' = [frame EXCEPT ![z] = MakeColorHue(hue)]
      /\ frame \in [Cell -> Int] /\ MakeColorHue(hue) \in Int
  BY <1>1, <1>2 DEF Settle, FrameShowsCursor, MakeColorHue
<1>4. frame' \in [Cell -> Int] /\ frame'[z] = MakeColorHue(hue)
        /\ \A c \in Cell : c # z => frame'[c] = frame[c]
  BY <1>3
<1>5. \A c \in Cell : c # z => frame[c] = Black
  <2>1. CASE k = "rotaryR"
    <3>1. z = <<x, y>>
      BY <1>1, <1>2, <2>1
    <3> QED
      BY <3>1 DEF FrameShowsCursor
  <2>2. CASE k \in {"rotaryL", "rotaryM"}
    BY <1>1, <2>2 DEF FrameShowsCursor
  <2> QED
    BY <2>1, <2>2 DEF Knob
<1>6. mu' \notin {"rotaryL", "rotaryM"}
  BY <1>1 DEF Nobody
<1> QED
  BY <1>1, <1>2, <1>4, <1>5, <1>6 DEF FrameShowsCursor

\* What is held of a cell that is not repainted is not out of date.
LEMMA HeldStays ==
  ASSUME CopyType, CopiesGetThere, ~torn, ~Torn,
         NEW j \in Knob, held[j] # Nothing, held' = held, copied'[j] = copied[j]
  PROVE  held'[j] = Pixel(j)'
<1>1. copied[j] \in 0 .. Cells - 1
  BY CellsVisited DEF CopyType
<1>2. PICK c \in Cell : c = CellAt(copied[j])
  BY <1>1, CellsVisited
<1>3. Holds(j, c)
  BY <1>2 DEF Holds
<1>4. frame'[c] = frame[c]
  BY <1>3 DEF Torn
<1>5. held[j] = frame[c]
  BY <1>2 DEF CopiesGetThere, Pixel
<1>6. Pixel(j)' = frame'[c]
  BY <1>2 DEF Pixel, CellAt
<1> QED
  BY <1>4, <1>5, <1>6

LEMMA TurnKeepsScreen ==
  ASSUME ScreenInv, NEW k \in Knob, NEW d, HandleTurn(k, d)
  PROVE  ScreenInv'
<1>1. /\ Waiting(k) /\ Turned(k, d) /\ torn' = (torn \/ Torn)
      /\ UNCHANGED <<screen, copied, held>>
  BY DEF HandleTurn
<1>2. CursorType /\ FrameShowsCursor /\ CopyType /\ CopiesGetThere
  BY DEF ScreenInv
<1>3. CursorType' /\ FrameShowsCursor' /\ mu' = k /\ mu' # Nobody
  BY <1>1, <1>2, TurnedSteps, TurnErases DEF Knob, Nobody
<1>4. torn' \in BOOLEAN
  BY <1>1, <1>2 DEF CopyType, Torn
<1>5. CopyType'
  BY <1>1, <1>2, <1>3, <1>4 DEF CopyType, Waiting
<1>6. ASSUME ~torn', NEW j \in Knob, held'[j] # Nothing
      PROVE  held'[j] = Pixel(j)'
  BY <1>1, <1>2, <1>6, HeldStays
<1>7. CopiesGetThere'
  BY <1>3, <1>6 DEF CopiesGetThere
<1> QED
  BY <1>3, <1>5, <1>7 DEF ScreenInv

LEMMA EndKeepsScreen ==
  ASSUME ScreenInv, NEW k \in Knob, EndTurn(k)
  PROVE  ScreenInv'
<1>1. /\ Settle(k) /\ copied' = [copied EXCEPT ![k] = 0]
      /\ torn' = ((torn \/ Torn) /\ \E j \in Knob \ {k} : ~Waiting(j))
      /\ UNCHANGED <<screen, held>>
  BY DEF EndTurn
<1>2. CursorType /\ FrameShowsCursor /\ CopyType /\ CopiesGetThere
  BY DEF ScreenInv
<1>3. CursorType' /\ FrameShowsCursor' /\ mu = k /\ mu' = Nobody
  BY <1>1, <1>2, SettleSteps, SettlingPaints
<1>4. held[k] = Nothing /\ \A j \in Knob : mu' # j
  BY <1>2, <1>3 DEF CopyType, Knob, Nobody
<1>5. /\ copied' \in [Knob -> 0 .. Cells] /\ copied'[k] = 0
      /\ \A j \in Knob \ {k} : copied'[j] = copied[j]
  BY <1>1, <1>2, CellsVisited DEF CopyType
<1>6. CopyType'
  <2>1. ASSUME NEW j \in Knob, held'[j] # Nothing
        PROVE  copied'[j] # Cells
    <3>1. j # k /\ copied[j] # Cells
      BY <1>1, <1>2, <1>4, <2>1 DEF CopyType
    <3> QED
      BY <1>5, <3>1
  <2>2. torn' \in BOOLEAN
    BY <1>1
  <2> QED
    BY <1>1, <1>2, <1>3, <1>4, <1>5, <2>1, <2>2 DEF CopyType
<1>7. ASSUME ~torn', NEW j \in Knob, held'[j] # Nothing
      PROVE  held'[j] = Pixel(j)'
  <2>1. j # k /\ held[j] # Nothing /\ copied[j] # Cells /\ held' = held
    BY <1>1, <1>2, <1>4, <1>7 DEF CopyType
  <2>2. ~Waiting(j)
    BY <2>1 DEF Waiting
  <2>3. ~torn /\ ~Torn
    BY <1>1, <1>7, <2>1, <2>2
  <2> QED
    BY <1>2, <1>5, <2>1, <2>3, HeldStays
<1>8. ASSUME NEW c \in Cell
      PROVE  Reached(k, c)'
  <2>1. PICK n \in 0 .. Cells - 1 : CellAt(n) = c
    BY CellsVisited
  <2> QED
    BY <1>5, <2>1 DEF Reached, CellAt
<1>9. CopiesGetThere'
  BY <1>7, <1>8 DEF CopiesGetThere
<1> QED
  BY <1>3, <1>6, <1>9 DEF ScreenInv

LEMMA ReadKeepsScreen ==
  ASSUME ScreenInv, NEW k \in Knob, ReadCell(k)
  PROVE  ScreenInv'
<1>1. /\ copied[k] # Cells /\ held' = [held EXCEPT ![k] = Pixel(k)]
      /\ UNCHANGED <<x, y, hue, frame, mu, turned, screen, copied, torn>>
  BY DEF ReadCell, cursor
<1>2. CursorType /\ FrameShowsCursor /\ CopyType /\ CopiesGetThere
  BY DEF ScreenInv
<1>3. CursorType' /\ FrameShowsCursor'
  BY <1>1, <1>2 DEF CursorType, FrameShowsCursor
<1>4. Pixel(k) \in Int
  <2>1. copied[k] \in 0 .. Cells - 1
    BY <1>1, <1>2, CellsVisited DEF CopyType
  <2>2. CellAt(copied[k]) \in Cell
    BY <2>1, CellsVisited
  <2> QED
    BY <1>2, <2>2 DEF Pixel, FrameShowsCursor
<1>5. held' \in [Knob -> Int] /\ held'[k] = Pixel(k)
        /\ \A j \in Knob \ {k} : held'[j] = held[j]
  BY <1>1, <1>2, <1>4 DEF CopyType
<1>6. \A j \in Knob : Pixel(j)' = Pixel(j)
        /\ \A c \in Cell : Reached(j, c)' = Reached(j, c)
  BY <1>1 DEF Pixel, Reached, CellAt
<1>7. CopyType'
  BY <1>1, <1>2, <1>5, <1>6 DEF CopyType
<1>8. CopiesGetThere'
  BY <1>1, <1>2, <1>5, <1>6 DEF CopiesGetThere
<1> QED
  BY <1>3, <1>7, <1>8 DEF ScreenInv

LEMMA WriteKeepsScreen ==
  ASSUME ScreenInv, NEW k \in Knob, WriteCell(k)
  PROVE  ScreenInv'
<1>1. /\ held[k] # Nothing
      /\ screen' = [screen EXCEPT ![CellAt(copied[k])] = held[k]]
      /\ held' = [held EXCEPT ![k] = Nothing]
      /\ copied' = [copied EXCEPT ![k] = @ + 1]
      /\ UNCHANGED <<x, y, hue, frame, mu, turned, torn>>
  BY DEF WriteCell, cursor
<1>2. CursorType /\ FrameShowsCursor /\ CopyType /\ CopiesGetThere
  BY DEF ScreenInv
<1>3. CursorType' /\ FrameShowsCursor'
  BY <1>1, <1>2 DEF CursorType, FrameShowsCursor
<1>4. copied[k] \in 0 .. Cells - 1 /\ held[k] \in Int /\ Cells \in Nat
        /\ mu # k
  BY <1>1, <1>2, CellsVisited DEF CopyType
<1>5. PICK z \in Cell : z = CellAt(copied[k])
  BY <1>4, CellsVisited
<1>6. /\ copied' \in [Knob -> 0 .. Cells] /\ copied'[k] = copied[k] + 1
      /\ \A j \in Knob \ {k} : copied'[j] = copied[j]
      /\ held' \in [Knob -> Int] /\ held'[k] = Nothing
      /\ \A j \in Knob \ {k} : held'[j] = held[j]
  <2>1. copied[k] + 1 \in 0 .. Cells /\ Nothing \in Int
    BY <1>4 DEF Nothing
  <2> QED
    BY <1>1, <1>2, <2>1 DEF CopyType
<1>7. /\ screen' \in [Cell -> Int] /\ screen'[z] = held[k]
      /\ \A c \in Cell \ {z} : screen'[c] = screen[c]
  BY <1>1, <1>2, <1>4, <1>5 DEF CopyType
<1>8. CopyType'
  <2>1. ASSUME NEW j \in Knob, held'[j] # Nothing
        PROVE  copied'[j] # Cells
    BY <1>2, <1>6, <2>1 DEF CopyType
  <2>2. ASSUME NEW j \in Knob, mu' = j
        PROVE  copied'[j] = Cells
    BY <1>1, <1>2, <1>4, <1>6, <2>2 DEF CopyType
  <2> QED
    BY <1>1, <1>2, <1>6, <1>7, <2>1, <2>2 DEF CopyType
<1>9. ASSUME ~torn', NEW j \in Knob, held'[j] # Nothing
      PROVE  held'[j] = Pixel(j)'
  <2>1. j # k /\ held[j] # Nothing /\ held'[j] = held[j] /\ ~torn
    BY <1>1, <1>6, <1>9
  <2>2. Pixel(j)' = Pixel(j)
    BY <1>1, <1>6, <2>1 DEF Pixel, CellAt
  <2> QED
    BY <1>2, <2>1, <2>2 DEF CopiesGetThere
<1>10. ASSUME ~torn', NEW c \in Cell
       PROVE  screen'[c] = frame'[c] \/ mu' # Nobody
                \/ \E j \in Knob : Reached(j, c)'
  <2>1. ~torn /\ frame' = frame /\ mu' = mu
    BY <1>1, <1>10
  <2>2. CASE c = z
    <3>1. held[k] = frame[z]
      BY <1>1, <1>2, <1>5, <2>1 DEF CopiesGetThere, Pixel
    <3> QED
      BY <1>7, <2>1, <2>2, <3>1
  <2>3. CASE c # z /\ screen[c] = frame[c]
    BY <1>7, <2>1, <2>3
  <2>4. CASE c # z /\ mu = Nobody /\ \E j \in Knob : Reached(j, c)
    <3>0. PICK j \in Knob : Reached(j, c)
      BY <2>4
    <3>1. PICK n \in copied[j] .. Cells - 1 : CellAt(n) = c
      BY <3>0 DEF Reached
    <3>2. n \in copied'[j] .. Cells - 1
      <4>1. CASE j = k
        <5>1. n # copied[k]
          BY <1>5, <2>4, <3>1
        <5> QED
          BY <1>4, <1>6, <3>1, <4>1, <5>1
      <4>2. CASE j # k
        BY <1>6, <3>1, <4>2
      <4> QED
        BY <4>1, <4>2
    <3> QED
      BY <3>1, <3>2 DEF Reached, CellAt
  <2> QED
    BY <1>2, <2>1, <2>2, <2>3, <2>4 DEF CopiesGetThere
<1>11. CopiesGetThere'
  BY <1>9, <1>10 DEF CopiesGetThere
<1> QED
  BY <1>3, <1>8, <1>11 DEF ScreenInv

LEMMA ScreenStep ==
  ASSUME ScreenInv, [Next]_vars
  PROVE  ScreenInv'
<1>1. CASE UNCHANGED <<cursor, copying>>
  BY <1>1 DEF cursor, copying, ScreenInv, CursorType, FrameShowsCursor, CopyType,
              CopiesGetThere, Waiting, Pixel, Reached, CellAt
<1> QED
  BY <1>1, PanelSteps, TurnKeepsScreen, EndKeepsScreen, ReadKeepsScreen,
     WriteKeepsScreen
  DEF PanelStep, panel, AimX, AimY, Fire

\* A screen that nobody is copying to shows the cursor and nothing else, in
\* whichever order the goroutines copied, unless a copy was torn
\* (HandleInteractive, GetColorFrame, SetRect).
THEOREM ScreenGetsThere == Spec => []ScreenShowsCursor
<1>1. ScreenInv => ScreenShowsCursor
  <2> SUFFICES ASSUME ScreenInv, \A k \in Knob : Waiting(k), ~torn
               PROVE  screen = [c \in Cell |->
                                  IF c = <<x, y>> THEN MakeColorHue(hue) ELSE Black]
    BY DEF ScreenShowsCursor
  <2>1. mu = Nobody
    BY DEF ScreenInv, CopyType, Waiting
  <2>2. \A k \in Knob, c \in Cell : ~Reached(k, c)
    BY CellsVisited DEF Waiting, Reached
  <2>3. \A c \in Cell : screen[c] = frame[c]
    BY <2>1, <2>2 DEF ScreenInv, CopiesGetThere
  <2>4. \A c \in Cell : frame[c] = IF c = <<x, y>> THEN MakeColorHue(hue) ELSE Black
    BY <2>1 DEF ScreenInv, FrameShowsCursor
  <2> QED
    BY <2>3, <2>4 DEF ScreenInv, CopyType
<1>2. Init => ScreenInv
  BY ScreenInit
<1>3. ScreenInv /\ [Next]_vars => ScreenInv'
  BY ScreenStep
<1> QED
  BY <1>1, <1>2, <1>3, PTL DEF Spec

-----------------------------------------------------------------------------
(***************************************************************************)
(* The command                                                              *)
(***************************************************************************)

AimType == aim \in Seq(Int) /\ Len(aim) <= 2

\* What has been read has been there, and only the knobs that were turned have
\* changed anything.
AimPassed ==
  /\ passed \subseteq Int \X Int \X Int /\ Here \in passed
  /\ \A i \in 1 .. Len(aim) : \E p \in passed : aim[i] = p[i]
  /\ met \subseteq Knob /\ (mu # Nobody => mu \in met)
  /\ "rotaryL" \notin met => \A p \in passed : p[1] = x
  /\ "rotaryM" \notin met => \A p \in passed : p[2] = y
  /\ "rotaryR" \notin met => \A p \in passed : p[3] = hue

AimInv ==
  CursorType /\ AimType /\ mu \in Knob \cup {Nobody} /\ (aim # << >> => AimPassed)

LEMMA HereIsPlace ==
  ASSUME CursorType
  PROVE  Here \in Int \X Int \X Int
BY PanelAssumption DEF CursorType, Here

LEMMA AimInit == Init => AimInv
<1> SUFFICES ASSUME Init PROVE AimInv
  OBVIOUS
<1>1. aim = << >> /\ mu = Nobody
  BY DEF Init, ControlsInit, PanelInit
<1>2. << >> \in Seq(Int) /\ Len(<< >>) <= 2
  OBVIOUS
<1> QED
  BY <1>1, <1>2, CursorInit DEF AimInv, AimType

\* Both halves of a turn of knob k.
LEMMA TurnKeepsAim ==
  ASSUME AimInv, CursorType', NEW k \in Knob, UNCHANGED aim, Passes,
         mu' \in {k, Nobody},
         aim # << >> => k \in met' /\ met' = met \cup {k},
         k # "rotaryL" => x' = x,
         k # "rotaryM" => y' = y,
         k # "rotaryR" => hue' = hue
  PROVE  AimInv'
<1>1. ASSUME aim # << >>
      PROVE  AimPassed'
  <2>1. passed' = passed \cup {Here'} /\ AimPassed
    BY <1>1 DEF Passes, AimInv
  <2>2. Here' \in Int \X Int \X Int
    <3>1. x' \in Int /\ y' \in Int /\ hue' \in Int
      BY PanelAssumption DEF CursorType
    <3> QED
      BY <3>1 DEF Here
  <2>3. /\ passed' \subseteq Int \X Int \X Int /\ Here' \in passed'
        /\ \A i \in 1 .. Len(aim') : \E p \in passed' : aim'[i] = p[i]
    BY <2>1, <2>2 DEF AimPassed
  <2>4. met' \subseteq Knob /\ (mu' # Nobody => mu' \in met')
    BY <1>1, <2>1 DEF AimPassed
  <2>5. Here'[1] = x' /\ Here'[2] = y' /\ Here'[3] = hue'
    BY DEF Here
  <2>6. "rotaryL" \notin met' => \A p \in passed' : p[1] = x'
    BY <1>1, <2>1, <2>5 DEF AimPassed
  <2>7. "rotaryM" \notin met' => \A p \in passed' : p[2] = y'
    BY <1>1, <2>1, <2>5 DEF AimPassed
  <2>8. "rotaryR" \notin met' => \A p \in passed' : p[3] = hue'
    BY <1>1, <2>1, <2>5 DEF AimPassed
  <2> QED
    BY <2>3, <2>4, <2>6, <2>7, <2>8 DEF AimPassed
<1>2. AimType' /\ mu' \in Knob \cup {Nobody}
  BY DEF AimInv, AimType
<1> QED
  BY <1>1, <1>2 DEF AimInv

LEMMA AimStep ==
  ASSUME AimInv, [Next]_vars
  PROVE  AimInv'
<1>1. CASE AimX
  <2>1. /\ aim' = <<x>> /\ passed' = {Here} /\ met' = {mu} \ {Nobody}
        /\ UNCHANGED <<x, y, hue, mu, turned>>
    BY <1>1 DEF AimX, cursor
  <2>2. CursorType /\ CursorType' /\ mu' \in Knob \cup {Nobody}
    BY <2>1 DEF AimInv, CursorType
  <2>3. x \in Int /\ Here \in Int \X Int \X Int /\ Here' = Here
    BY <2>1, <2>2, HereIsPlace, PanelAssumption DEF CursorType, Here
  <2>4. aim' \in Seq(Int) /\ Len(aim') = 1 /\ aim'[1] = x
    BY <2>1, <2>3
  <2>5. Here[1] = x /\ Here[2] = y /\ Here[3] = hue
    BY DEF Here
  <2>6. \A i \in 1 .. Len(aim') : \E p \in passed' : aim'[i] = p[i]
    BY <2>1, <2>4, <2>5
  <2>7. met' \subseteq Knob /\ (mu' # Nobody => mu' \in met')
    BY <2>1 DEF AimInv
  <2>8. AimPassed'
    BY <2>1, <2>3, <2>5, <2>6, <2>7 DEF AimPassed
  <2> QED
    BY <2>2, <2>4, <2>8 DEF AimInv, AimType
<1>2. CASE AimY
  <2>1. /\ Len(aim) = 1 /\ aim' = Append(aim, y)
        /\ UNCHANGED <<x, y, hue, mu, turned, passed, met>>
    BY <1>2 DEF AimY, cursor
  <2>2. aim \in Seq(Int) /\ y \in Int
    BY PanelAssumption DEF AimInv, AimType, CursorType
  <2>3. aim # << >> /\ AimPassed
    <3>1. aim # << >>
      BY <2>1, EmptySeq
    <3> QED
      BY <3>1 DEF AimInv
  <2>4. /\ aim' \in Seq(Int) /\ Len(aim') = 2 /\ aim'[1] = aim[1] /\ aim'[2] = y
    <3>1. /\ Append(aim, y) \in Seq(Int) /\ Len(Append(aim, y)) = Len(aim) + 1
          /\ \A i \in 1 .. Len(aim) : Append(aim, y)[i] = aim[i]
          /\ Append(aim, y)[Len(aim) + 1] = y
      BY <2>2, AppendProperties
    <3> QED
      BY <2>1, <3>1
  <2>5. Here' = Here /\ Here[2] = y
    BY <2>1 DEF Here
  <2>6. \A i \in 1 .. Len(aim') : \E p \in passed' : aim'[i] = p[i]
    <3>1. \E p \in passed' : aim'[1] = p[1]
      BY <2>1, <2>3, <2>4 DEF AimPassed
    <3>2. \E p \in passed' : aim'[2] = p[2]
      BY <2>1, <2>3, <2>4, <2>5 DEF AimPassed
    <3> QED
      BY <2>4, <3>1, <3>2
  <2>7. AimPassed'
    BY <2>1, <2>3, <2>5, <2>6 DEF AimPassed
  <2> QED
    BY <2>1, <2>4, <2>7 DEF AimInv, AimType, CursorType
<1>3. CASE Fire
  <2>1. aim' = << >> /\ UNCHANGED <<x, y, hue, mu, turned>>
    BY <1>3 DEF Fire, cursor
  <2>2. << >> \in Seq(Int) /\ Len(<< >>) <= 2
    OBVIOUS
  <2> QED
    BY <2>1, <2>2 DEF AimInv, CursorType, AimType
<1>4. CASE UNCHANGED <<cursor, aim, passed, met>>
  BY <1>4 DEF cursor, AimInv, CursorType, AimType, AimPassed, Here
<1>5. ASSUME NEW k \in Knob, NEW d \in Direction, HandleTurn(k, d)
      PROVE  AimInv'
  <2>1. /\ Turned(k, d) /\ Passes /\ UNCHANGED aim
        /\ met' = IF aim = << >> THEN met ELSE met \cup {k}
    BY <1>5 DEF HandleTurn
  <2>2. /\ CursorType' /\ mu' = k
        /\ k # "rotaryL" => x' = x
        /\ k # "rotaryM" => y' = y
        /\ k # "rotaryR" => hue' = hue
    BY <2>1, TurnedSteps DEF AimInv
  <2> QED
    BY <2>1, <2>2, TurnKeepsAim
<1>6. ASSUME NEW k \in Knob, EndTurn(k)
      PROVE  AimInv'
  <2>1. Settle(k) /\ Passes /\ UNCHANGED <<aim, met>>
    BY <1>6 DEF EndTurn
  <2>2. /\ CursorType' /\ mu = k /\ mu' = Nobody /\ hue' = hue
        /\ k # "rotaryL" => x' = x
        /\ k # "rotaryM" => y' = y
    BY <2>1, SettleSteps DEF AimInv
  <2>3. aim # << >> => k \in met
    BY <2>2 DEF AimInv, AimPassed, Knob, Nobody
  <2> QED
    BY <2>1, <2>2, <2>3, TurnKeepsAim
<1> QED
  BY <1>1, <1>2, <1>3, <1>4, <1>5, <1>6, PanelSteps
  DEF PanelStep, panel, aiming, ReadCell, WriteCell

\* What a command is made of has all been the cursor's while the button was
\* served, at one moment unless two knobs were being turned, and is a cell of the
\* panel unless the cursor was being moved (the goroutine of buttonBig).
THEOREM CommandsArePlaces == Spec => CommandWasPlace
<1>1. AimInv /\ [Next]_vars
        => [ fired' # fired =>
               /\ \A i \in 1 .. 3 : \E p \in passed : command'[i] = p[i]
               /\ (\A j, k \in met : j = k) => command' \in passed
               /\ met \subseteq {"rotaryR"} =>
                    <<command'[1], command'[2]>> \in Cell ]_panel
  <2> SUFFICES ASSUME AimInv, Fire
               PROVE  /\ \A i \in 1 .. 3 : \E p \in passed : command'[i] = p[i]
                      /\ (\A j, k \in met : j = k) => command' \in passed
                      /\ met \subseteq {"rotaryR"} =>
                           <<command'[1], command'[2]>> \in Cell
    BY PanelSteps
    DEF PanelStep, HandleTurn, EndTurn, ReadCell, WriteCell, AimX, AimY, panel,
        aiming
  <2>1. Len(aim) = 2 /\ command' = Append(aim, hue)
    BY DEF Fire
  <2>2. aim \in Seq(Int) /\ hue \in Int /\ CursorType
    BY DEF AimInv, AimType, CursorType
  <2>3. /\ command' \in Seq(Int) /\ Len(command') = 3 /\ aim # << >>
        /\ command'[1] = aim[1] /\ command'[2] = aim[2] /\ command'[3] = hue
    <3>1. aim # << >>
      BY <2>1, EmptySeq
    <3>2. /\ Append(aim, hue) \in Seq(Int) /\ Len(Append(aim, hue)) = 3
          /\ Append(aim, hue)[1] = aim[1] /\ Append(aim, hue)[2] = aim[2]
          /\ Append(aim, hue)[3] = hue
      <4>1. /\ Append(aim, hue) \in Seq(Int) /\ Len(Append(aim, hue)) = Len(aim) + 1
            /\ \A i \in 1 .. Len(aim) : Append(aim, hue)[i] = aim[i]
            /\ Append(aim, hue)[Len(aim) + 1] = hue
        BY <2>2, AppendProperties
      <4> QED
        BY <2>1, <4>1
    <3> QED
      BY <2>1, <3>1, <3>2
  <2>4. AimPassed /\ Here \in passed
    BY <2>3 DEF AimInv, AimPassed
  <2>5. PICK p \in passed, q \in passed : aim[1] = p[1] /\ aim[2] = q[2]
    BY <2>1, <2>4 DEF AimPassed
  <2>6. Here[1] = x /\ Here[2] = y /\ Here[3] = hue
    BY DEF Here
  <2>7. \A i \in 1 .. 3 : \E r \in passed : command'[i] = r[i]
    <3>1. /\ \E r \in passed : command'[1] = r[1]
          /\ \E r \in passed : command'[2] = r[2]
          /\ \E r \in passed : command'[3] = r[3]
      BY <2>3, <2>4, <2>5, <2>6
    <3> QED
      BY <3>1
  <2>8. ASSUME NEW r \in passed,
               command'[1] = r[1], command'[2] = r[2], command'[3] = r[3]
        PROVE  command' \in passed
    <3>1. PICK c \in Seq(Int) : c = command'
      BY <2>3
    <3>2. DOMAIN c = 1 .. 3 /\ c = [i \in 1 .. 3 |-> c[i]]
      BY <2>3, <3>1
    <3>3. r \in Int \X Int \X Int
      BY <2>4 DEF AimPassed
    <3>4. r = <<r[1], r[2], r[3]>>
      BY <3>3
    <3>5. r = [i \in 1 .. 3 |-> r[i]]
      BY <3>4
    <3> QED
      BY <2>3, <2>8, <3>1, <3>2, <3>5
  <2>9. ASSUME \A j, k \in met : j = k
        PROVE  command' \in passed
    <3>1. CASE "rotaryM" \notin met /\ "rotaryR" \notin met
      <4>1. p[2] = y /\ q[2] = y /\ p[3] = hue
        BY <2>4, <3>1 DEF AimPassed
      <4> QED
        BY <2>3, <2>5, <2>8, <4>1
    <3>2. CASE "rotaryL" \notin met /\ "rotaryR" \notin met
      <4>1. p[1] = x /\ q[1] = x /\ q[3] = hue
        BY <2>4, <3>2 DEF AimPassed
      <4> QED
        BY <2>3, <2>5, <2>8, <4>1
    <3>3. CASE "rotaryL" \notin met /\ "rotaryM" \notin met
      <4>1. p[1] = x /\ q[2] = y
        BY <2>4, <3>3 DEF AimPassed
      <4> QED
        BY <2>3, <2>4, <2>5, <2>6, <2>8, <4>1
    <3> QED
      BY <2>9, <3>1, <3>2, <3>3
  <2>10. ASSUME met \subseteq {"rotaryR"}
         PROVE  <<command'[1], command'[2]>> \in Cell
    <3>1. p[1] = x /\ q[2] = y
      BY <2>4, <2>10 DEF AimPassed
    <3>2. mu \notin {"rotaryL", "rotaryM"}
      BY <2>4, <2>10 DEF AimPassed, Nobody
    <3>3. x \in 0 .. Width - 1 /\ y \in 0 .. Height - 1
      BY <2>2, <3>2, PanelAssumption DEF CursorType
    <3> QED
      BY <2>3, <2>5, <3>1, <3>3 DEF Cell
  <2> QED
    BY <2>7, <2>9, <2>10
<1>2. Init => AimInv
  BY AimInit
<1>3. AimInv /\ [Next]_vars => AimInv'
  BY AimStep
<1> QED
  BY <1>1, <1>2, <1>3, PTL DEF Spec, CommandWasPlace

=============================================================================
