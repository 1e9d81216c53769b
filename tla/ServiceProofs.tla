--------------------------- MODULE ServiceProofs ---------------------------
(***************************************************************************)
(* The picture of the service, for any number of pixels, colors, commands,  *)
(* attempts and mishaps: what is painted is what the abstract canvas        *)
(* allows, and the matrix shows what the commands of the log paint one      *)
(* after the other, when they come one at a time.                           *)
(***************************************************************************)
EXTENDS Service, SequenceTheorems, TLAPS

-----------------------------------------------------------------------------
(***************************************************************************)
(* The inductive invariant                                                  *)
(***************************************************************************)

OutgoingCall == [attempt : Nat \ {0}, image : Seq(Color)]

IncomingCall ==
  [commit : Nat, attempt : Nat \ {0}, image : Seq(Color),
   drawn : 0 .. Pixels - 1, crashes : Nat]

TypeOK ==
  /\ log \in [1 .. Length -> Command]
  /\ applied \in 0 .. Length /\ apart \in BOOLEAN
  /\ setting \subseteq 1 .. applied /\ announcing \subseteq 1 .. applied
  /\ DOMAIN calls \subseteq 1 .. applied
  /\ calls \in [DOMAIN calls -> OutgoingCall]
  /\ \A n \in DOMAIN calls : Len(calls[n].image) <= Pixels
  /\ requests \subseteq IncomingCall
  /\ \A r \in requests : Len(r.image) = Pixels
  /\ crashes \in Nat
  /\ colorState \in Frame /\ imageFrame \in Frame

\* A commit that comes when all before it have been shown is the only one under
\* way, and at one stage: its goroutine, the offer of its event, or the call.
OneAtATime ==
  /\ setting \cup announcing \cup DOMAIN calls \subseteq {applied}
  /\ setting = {} \/ (announcing = {} /\ DOMAIN calls = {})
  /\ announcing = {} \/ DOMAIN calls = {}

\* The frame lags behind the log by the commit whose pixel is not set yet ...
PaintedSoFar ==
  IF setting = {} THEN colorState = Picture
                  ELSE colorState = PictureOf(log, applied - 1) /\ requests = {}

\* ... every copy of it that is on its way is the picture up to that commit ...
CopiesAreThePicture ==
  /\ \A n \in DOMAIN calls : \A i \in 1 .. Len(calls[n].image) :
       calls[n].image[i] = Picture[i]
  /\ \A r \in requests : \A i \in Pixel : r.image[i] = Picture[i]

\* ... and so is the part of the matrix a call has drawn, and in the end all of it.
DrawnSoFar ==
  /\ \A r \in requests : \A i \in 1 .. r.drawn : imageFrame[i] = Picture[i]
  /\ \/ setting # {} \/ announcing # {} \/ DOMAIN calls # {} \/ lost # {}
     \/ imageFrame = Picture

\* Requests of former lives are still being drawn before the first commit of a
\* life; if the first commit comes before they have ended, it does not come apart.
InOrder ==
  /\ OneAtATime /\ PaintedSoFar
  /\ applied > 0 => CopiesAreThePicture /\ DrawnSoFar

ServiceInv == TypeOK /\ (apart => InOrder)
-----------------------------------------------------------------------------
(***************************************************************************)
(* Pictures                                                                 *)
(***************************************************************************)

\* Nothing is painted by no command.
LEMMA NothingPainted == PictureOf(log, 0) = Blank
<1>1. ASSUME NEW p \in Pixel
      PROVE  {n \in 1 .. 0 : log[n].pixel = p} = {}
  OBVIOUS
<1> QED
  BY <1>1 DEF PictureOf, Blank

\* The last command to set a pixel wins.
LEMMA NextPainted ==
  ASSUME log \in [1 .. Length -> Command], NEW k \in Nat, k < Length, Length \in Nat
  PROVE  PictureOf(log, k + 1) = Painted(PictureOf(log, k), log[k + 1])
<1> DEFINE setters(m, p) == {n \in 1 .. m : log[n].pixel = p}
           last(S) == CHOOSE n \in S : \A m \in S : m <= n
           color(m, p) == IF setters(m, p) = {} THEN Black
                          ELSE log[last(setters(m, p))].color
<1>1. /\ k + 1 \in 1 .. Length /\ log[k + 1] \in Command
      /\ log[k + 1].pixel \in Pixel
  BY DEF Command
<1>2. ASSUME NEW p \in Pixel, p # log[k + 1].pixel
      PROVE  color(k + 1, p) = color(k, p)
  <2>1. setters(k + 1, p) = setters(k, p)
    BY <1>2
  <2> HIDE DEF setters, last
  <2> QED
    BY <2>1
<1>3. ASSUME NEW p \in Pixel, p = log[k + 1].pixel
      PROVE  color(k + 1, p) = log[k + 1].color
  <2>1. k + 1 \in setters(k + 1, p)
    BY <1>3
  <2>2. \A m \in setters(k + 1, p) : m \in Nat /\ m <= k + 1
    OBVIOUS
  <2> HIDE DEF setters
  <2>3. last(setters(k + 1, p)) = k + 1
    <3>1. \E n \in setters(k + 1, p) : \A m \in setters(k + 1, p) : m <= n
      BY <2>1, <2>2
    <3>2. /\ last(setters(k + 1, p)) \in setters(k + 1, p)
          /\ \A m \in setters(k + 1, p) : m <= last(setters(k + 1, p))
      BY <3>1
    <3> HIDE DEF last
    <3> QED
      BY <2>1, <2>2, <3>2
  <2> HIDE DEF last
  <2> QED
    BY <2>1, <2>3
<1>4. /\ PictureOf(log, k) = [p \in Pixel |-> color(k, p)]
      /\ PictureOf(log, k + 1) = [p \in Pixel |-> color(k + 1, p)]
  BY DEF PictureOf
<1> HIDE DEF color
<1>5. [p \in Pixel |-> color(k + 1, p)]
        = [[p \in Pixel |-> color(k, p)] EXCEPT ![log[k + 1].pixel] = log[k + 1].color]
  BY <1>1, <1>2, <1>3
<1> QED
  BY <1>4, <1>5 DEF Painted

LEMMA PaintedIsFrame ==
  ASSUME NEW f \in Frame, NEW c \in Command
  PROVE  Painted(f, c) \in Frame
BY DEF Frame, Command, Painted

-----------------------------------------------------------------------------
(***************************************************************************)
(* Types                                                                    *)
(***************************************************************************)

LEMMA TypeInit == Init => TypeOK
<1> SUFFICES ASSUME Init PROVE TypeOK
  OBVIOUS
<1>1. log \in [1 .. Length -> Command] /\ applied \in 0 .. Length
  BY LogAssumption, ServiceAssumption DEF Init
<1>2. DOMAIN calls = {} /\ calls \in [DOMAIN calls -> OutgoingCall]
  BY DEF Init
<1>3. Blank \in Frame
  BY ServiceAssumption DEF Blank, Frame
<1> QED
  BY <1>1, <1>2, <1>3 DEF Init, TypeOK

LEMMA TypeStep == TypeOK /\ [Next]_vars => TypeOK'
<1> SUFFICES ASSUME TypeOK, [Next]_vars PROVE TypeOK'
  OBVIOUS
<1> USE ServiceAssumption
<1> DEFINE C == DOMAIN calls
<1>0. /\ calls \in [C -> OutgoingCall] /\ C \subseteq 1 .. applied
      /\ \A n \in C : /\ calls[n] \in OutgoingCall
                      /\ calls[n].attempt \in Nat \ {0}
                      /\ calls[n].image \in Seq(Color)
                      /\ Len(calls[n].image) \in Nat
                      /\ Len(calls[n].image) <= Pixels
  <2>1. calls \in [C -> OutgoingCall]
    BY DEF TypeOK
  <2>2. ASSUME NEW n \in C
        PROVE  /\ calls[n] \in OutgoingCall
               /\ calls[n].attempt \in Nat \ {0}
               /\ calls[n].image \in Seq(Color)
    BY <2>1 DEF OutgoingCall
  <2>3. \A n \in C : Len(calls[n].image) \in Nat
    BY <2>2, LenProperties
  <2> QED
    BY <2>1, <2>2, <2>3 DEF TypeOK
<1>1. CASE TakeApplyMsg
  BY <1>1 DEF TakeApplyMsg, TypeOK, picture, mishaps
<1>2. ASSUME NEW n \in 1 .. Length, SetPixel(n)
      PROVE  TypeOK'
  <2>1. Paint(n) \in Frame
    BY PaintedIsFrame DEF TypeOK, Paint
  <2> QED
    BY <1>2, <2>1 DEF SetPixel, TypeOK, commits, mishaps
<1>3. ASSUME NEW n \in 1 .. Length, TakeEvent(n)
      PROVE  TypeOK'
  <2>1. /\ n \in announcing /\ n \in 1 .. applied
        /\ announcing' = announcing \ {n}
        /\ calls' = [m \in C \cup {n} |->
             IF m = n THEN [attempt |-> 1, image |-> << >>] ELSE calls[m]]
        /\ UNCHANGED <<log, applied, apart, crashes, setting, requests, colorState, imageFrame>>
    BY <1>3 DEF TakeEvent, commits, picture, mishaps, TypeOK
  <2>2. << >> \in Seq(Color) /\ Len(<< >>) = 0
    BY EmptySeq
  <2>3. [attempt |-> 1, image |-> << >>] \in OutgoingCall
    BY <2>2 DEF OutgoingCall
  <2>4. /\ DOMAIN calls' = C \cup {n} /\ calls' \in [C \cup {n} -> OutgoingCall]
        /\ \A m \in C \cup {n} : Len(calls'[m].image) <= Pixels
    BY <1>0, <2>1, <2>2, <2>3
  <2> QED
    BY <2>1, <2>4 DEF TypeOK
<1>4. ASSUME NEW n \in 1 .. Length, Encode(n)
      PROVE  TypeOK'
  <2> DEFINE image == calls[n].image
             longer == Append(image, colorState[Len(image) + 1])
  <2>1. /\ n \in C /\ Len(image) < Pixels
        /\ calls' = [calls EXCEPT ![n].image = longer]
        /\ UNCHANGED <<log, applied, apart, crashes, setting, announcing, requests,
                       colorState, imageFrame>>
    BY <1>4 DEF Encode, commits, picture, mishaps
  <2>2. colorState[Len(image) + 1] \in Color
    BY <1>0, <2>1 DEF TypeOK, Frame, Pixel
  <2>3. longer \in Seq(Color) /\ Len(longer) = Len(image) + 1
    BY <1>0, <2>1, <2>2, AppendProperties
  <2>4. calls' = [calls EXCEPT ![n] = [calls[n] EXCEPT !.image = longer]]
    BY <2>1
  <2> HIDE DEF longer
  <2>5. /\ [calls[n] EXCEPT !.image = longer] \in OutgoingCall
        /\ [calls[n] EXCEPT !.image = longer].image = longer
    BY <1>0, <2>1, <2>3 DEF OutgoingCall
  <2>6. /\ DOMAIN calls' = C /\ calls' \in [C -> OutgoingCall]
        /\ \A m \in C : Len(calls'[m].image) <= Pixels
    BY <1>0, <2>1, <2>3, <2>4, <2>5
  <2> QED
    BY <2>1, <2>6 DEF TypeOK
<1>5. ASSUME NEW n \in 1 .. Length, Receive(n)
      PROVE  TypeOK'
  <2>1. /\ n \in C /\ Len(calls[n].image) = Pixels
        /\ requests' = requests \cup {Request(n)}
        /\ UNCHANGED <<log, applied, apart, crashes, setting, announcing, calls,
                       colorState, imageFrame>>
    BY <1>5 DEF Receive, Sent, commits, picture, mishaps
  <2>2. Request(n).image = calls[n].image
    BY DEF Request
  <2>3. Request(n) \in IncomingCall
    BY <1>0, <2>1 DEF Request, IncomingCall, TypeOK
  <2> QED
    BY <2>1, <2>2, <2>3 DEF TypeOK
<1>6. ASSUME NEW n \in 1 .. Length, AttemptFails(n)
      PROVE  TypeOK'
  <2>1. /\ n \in C
        /\ UNCHANGED <<log, applied, apart, crashes, setting, announcing, requests,
                       colorState, imageFrame>>
        /\ \/ calls' = [calls EXCEPT ![n] = [attempt |-> @.attempt + 1, image |-> << >>]]
           \/ calls' = Without(calls, n)
    BY <1>6 DEF AttemptFails, commits, picture, mishaps
  <2>2. << >> \in Seq(Color) /\ Len(<< >>) = 0
    BY EmptySeq
  <2>3. [attempt |-> calls[n].attempt + 1, image |-> << >>] \in OutgoingCall
    BY <1>0, <2>1, <2>2 DEF OutgoingCall
  <2>4. CASE calls' = [calls EXCEPT ![n] = [attempt |-> @.attempt + 1, image |-> << >>]]
    <3>1. /\ DOMAIN calls' = C /\ calls' \in [C -> OutgoingCall]
          /\ \A m \in C : Len(calls'[m].image) <= Pixels
      BY <1>0, <2>1, <2>2, <2>3, <2>4
    <3> QED
      BY <2>1, <3>1 DEF TypeOK
  <2>5. CASE calls' = Without(calls, n)
    <3>1. /\ DOMAIN calls' = C \ {n} /\ calls' \in [C \ {n} -> OutgoingCall]
          /\ \A m \in C \ {n} : calls'[m] = calls[m]
      BY <1>0, <2>5 DEF Without
    <3> QED
      BY <1>0, <2>1, <3>1 DEF TypeOK
  <2> QED
    BY <2>1, <2>4, <2>5
<1>7. ASSUME NEW r \in requests, Draw(r)
      PROVE  TypeOK'
  <2> DEFINE p == r.drawn + 1
  <2>1. /\ imageFrame' = [imageFrame EXCEPT ![p] = r.image[p]]
        /\ requests' = (requests \ {r}) \cup
                         (IF p < Pixels THEN {[r EXCEPT !.drawn = p]} ELSE {})
        /\ UNCHANGED <<log, applied, apart, crashes, setting, announcing, colorState>>
        /\ calls' = calls \/ calls' = Without(calls, r.commit)
    BY <1>7 DEF Draw, commits, mishaps
  <2>2. /\ r \in IncomingCall
        /\ r.image \in Seq(Color) /\ Len(r.image) = Pixels
        /\ r.drawn \in 0 .. Pixels - 1
    BY DEF TypeOK, IncomingCall
  <2>3. p \in 1 .. Pixels /\ r.image[p] \in Color
    BY <2>2, ElementOfSeq
  <2>4. imageFrame' \in Frame
    BY <2>1, <2>3 DEF TypeOK, Frame
  <2>5. ASSUME NEW q \in requests'
        PROVE  q \in IncomingCall /\ Len(q.image) = Pixels
    <3>1. CASE q \in requests
      BY <3>1 DEF TypeOK
    <3>2. CASE q = [r EXCEPT !.drawn = p] /\ p < Pixels
      <4>1. p \in 0 .. Pixels - 1
        BY <2>2, <3>2
      <4>2. q \in IncomingCall /\ q.image = r.image
        BY <2>2, <3>2, <4>1 DEF IncomingCall
      <4> QED
        BY <2>2, <4>2
    <3> QED
      BY <2>1, <3>1, <3>2
  <2>6. /\ DOMAIN calls' \subseteq C /\ calls' \in [DOMAIN calls' -> OutgoingCall]
        /\ \A n \in DOMAIN calls' : calls'[n] = calls[n]
    <3>1. CASE calls' = calls
      BY <1>0, <3>1
    <3>2. CASE calls' = Without(calls, r.commit)
      BY <1>0, <3>2 DEF Without
    <3> QED
      BY <2>1, <3>1, <3>2
  <2> QED
    BY <1>0, <2>1, <2>4, <2>5, <2>6 DEF TypeOK
<1>8. CASE Crash
  <2>1. Blank \in Frame
    BY DEF Blank, Frame
  <2>2. DOMAIN calls' = {} /\ calls' \in [{} -> OutgoingCall]
    BY <1>8 DEF Crash
  <2>3. crashes' \in Nat
    BY <1>8 DEF Crash, TypeOK
  <2> QED
    BY <1>8, <2>1, <2>2, <2>3 DEF Crash, TypeOK
<1>9. CASE UNCHANGED vars
  BY <1>9 DEF vars, commits, mishaps, TypeOK
<1> QED
  BY <1>1, <1>2, <1>3, <1>4, <1>5, <1>6, <1>7, <1>8, <1>9 DEF Next, Goroutine
-----------------------------------------------------------------------------
(***************************************************************************)
(* Commits that come one at a time                                          *)
(***************************************************************************)

LEMMA SamePicture ==
  ASSUME UNCHANGED <<log, applied>>
  PROVE  Picture' = Picture
BY DEF Picture

LEMMA OrderInit == Init => InOrder
<1> SUFFICES ASSUME Init PROVE InOrder
  OBVIOUS
<1>1. colorState = Picture
  BY NothingPainted DEF Init, Picture
<1>2. OneAtATime
  BY DEF Init, OneAtATime
<1> QED
  BY <1>1, <1>2 DEF Init, InOrder, PaintedSoFar

LEMMA OrderOfTakeApplyMsg ==
  ASSUME TypeOK, apart => InOrder, TakeApplyMsg, apart'
  PROVE  InOrder'
<1>1. /\ apart /\ AtRest /\ InOrder
      /\ applied' = applied + 1 /\ setting' = setting \cup {applied'}
      /\ UNCHANGED <<log, announcing, calls, requests, colorState>>
  BY DEF TakeApplyMsg, picture
<1>2. /\ setting = {} /\ announcing' = {} /\ DOMAIN calls' = {} /\ requests' = {}
      /\ setting' = {applied'} /\ applied \in Nat
  BY <1>1 DEF AtRest, TypeOK
<1>3. applied' - 1 = applied
  BY <1>1, <1>2
<1>4. colorState = PictureOf(log, applied)
  BY <1>1, <1>2 DEF InOrder, PaintedSoFar, Picture
<1>5. OneAtATime' /\ PaintedSoFar'
  BY <1>1, <1>2, <1>3, <1>4 DEF OneAtATime, PaintedSoFar
<1>6. CopiesAreThePicture' /\ DrawnSoFar'
  BY <1>2 DEF CopiesAreThePicture, DrawnSoFar
<1> QED
  BY <1>5, <1>6 DEF InOrder

LEMMA OrderOfSetPixel ==
  ASSUME TypeOK, InOrder, NEW n, SetPixel(n)
  PROVE  InOrder'
<1>1. /\ n \in setting /\ colorState' = Painted(colorState, log[n])
      /\ setting' = setting \ {n} /\ announcing' = announcing \cup {n}
      /\ UNCHANGED <<log, applied, calls, requests, imageFrame>>
  BY DEF SetPixel, Paint, commits
<1>2. /\ n = applied /\ setting = {n} /\ announcing = {} /\ DOMAIN calls = {}
      /\ colorState = PictureOf(log, applied - 1) /\ requests = {}
  BY <1>1 DEF InOrder, OneAtATime, PaintedSoFar
<1>3. applied \in 1 .. Length /\ Length \in Nat /\ log \in [1 .. Length -> Command]
  BY <1>1, <1>2, ServiceAssumption DEF TypeOK
<1>4. colorState' = PictureOf(log, applied)
  <2>1. applied - 1 \in Nat /\ applied - 1 < Length /\ (applied - 1) + 1 = applied
    BY <1>3
  <2>2. PictureOf(log, (applied - 1) + 1)
          = Painted(PictureOf(log, applied - 1), log[(applied - 1) + 1])
    BY <1>3, <2>1, NextPainted
  <2> QED
    BY <1>1, <1>2, <2>1, <2>2
<1>5. /\ setting' = {} /\ announcing' = {applied} /\ DOMAIN calls' = {}
      /\ requests' = {} /\ applied' = applied
  BY <1>1, <1>2
<1>6. OneAtATime' /\ PaintedSoFar'
  BY <1>1, <1>4, <1>5, SamePicture DEF OneAtATime, PaintedSoFar, Picture
<1>7. CopiesAreThePicture' /\ DrawnSoFar'
  BY <1>5 DEF CopiesAreThePicture, DrawnSoFar
<1> QED
  BY <1>6, <1>7 DEF InOrder

LEMMA OrderOfTakeEvent ==
  ASSUME TypeOK, InOrder, NEW n, TakeEvent(n)
  PROVE  InOrder'
<1>1. /\ n \in announcing /\ announcing' = announcing \ {n}
      /\ calls' = [m \in DOMAIN calls \cup {n} |->
           IF m = n THEN [attempt |-> 1, image |-> << >>] ELSE calls[m]]
      /\ UNCHANGED <<log, applied, setting, requests, colorState, imageFrame>>
  BY DEF TakeEvent, commits, picture
<1>2. n = applied /\ announcing = {n} /\ setting = {} /\ DOMAIN calls = {}
  BY <1>1 DEF InOrder, OneAtATime
<1>3. /\ DOMAIN calls' = {applied} /\ announcing' = {} /\ setting' = {}
      /\ calls'[applied].image = << >>
  BY <1>1, <1>2
<1>4. applied \in 1 .. Length
  BY <1>1, <1>2 DEF TypeOK
<1>5. OneAtATime' /\ PaintedSoFar'
  BY <1>1, <1>2, <1>3, SamePicture DEF InOrder, OneAtATime, PaintedSoFar
<1>6. CopiesAreThePicture'
  <2>1. Len(<< >>) = 0
    BY EmptySeq
  <2> QED
    BY <1>1, <1>3, <1>4, <2>1, SamePicture DEF InOrder, CopiesAreThePicture
<1>7. DrawnSoFar'
  BY <1>1, <1>3, <1>4, SamePicture DEF InOrder, DrawnSoFar
<1> QED
  BY <1>5, <1>6, <1>7 DEF InOrder

LEMMA OrderOfEncode ==
  ASSUME TypeOK, InOrder, NEW n, Encode(n)
  PROVE  InOrder'
<1> DEFINE image == calls[n].image
           longer == Append(image, colorState[Len(image) + 1])
<1>1. /\ n \in DOMAIN calls /\ Len(image) < Pixels
      /\ calls' = [calls EXCEPT ![n].image = longer]
      /\ UNCHANGED <<log, applied, setting, announcing, requests, colorState,
                     imageFrame, lost>>
  BY DEF Encode, commits, picture
<1>2. /\ n = applied /\ DOMAIN calls = {n} /\ setting = {} /\ announcing = {}
      /\ colorState = Picture /\ applied \in 1 .. Length
  <2>1. n = applied /\ DOMAIN calls = {n} /\ setting = {} /\ announcing = {}
    BY <1>1 DEF InOrder, OneAtATime
  <2>2. applied \in 1 .. Length
    BY <1>1, <2>1 DEF TypeOK
  <2> QED
    BY <2>1, <2>2 DEF InOrder, PaintedSoFar
<1>3. /\ calls[n] \in OutgoingCall /\ image \in Seq(Color) /\ Len(image) \in Nat
      /\ Len(image) + 1 \in Pixel
  <2>1. calls[n] \in OutgoingCall
    BY <1>1 DEF TypeOK
  <2>2. image \in Seq(Color)
    BY <2>1 DEF OutgoingCall
  <2>3. Len(image) \in Nat
    BY <2>2, LenProperties
  <2> QED
    BY <1>1, <2>1, <2>2, <2>3, ServiceAssumption DEF Pixel
<1>4. colorState[Len(image) + 1] \in Color
  BY <1>3 DEF TypeOK, Frame
<1>5. /\ longer \in Seq(Color) /\ Len(longer) = Len(image) + 1
      /\ longer[Len(image) + 1] = Picture[Len(image) + 1]
      /\ \A i \in 1 .. Len(image) : longer[i] = image[i]
  BY <1>2, <1>3, <1>4, AppendProperties
<1>6. DOMAIN calls' = {n} /\ calls'[n].image = longer
  <2>1. calls' = [calls EXCEPT ![n] = [calls[n] EXCEPT !.image = longer]]
    BY <1>1
  <2> HIDE DEF longer
  <2>2. [calls[n] EXCEPT !.image = longer].image = longer
    BY <1>3 DEF OutgoingCall
  <2> QED
    BY <1>1, <1>2, <2>1, <2>2
<1> HIDE DEF longer
<1>7. \A i \in 1 .. Len(longer) : longer[i] = Picture[i]
  <2>1. \A i \in 1 .. Len(image) : image[i] = Picture[i]
    BY <1>1, <1>2 DEF InOrder, CopiesAreThePicture
  <2> QED
    BY <1>3, <1>5, <2>1
<1>8. OneAtATime' /\ PaintedSoFar'
  BY <1>1, <1>2, <1>6, SamePicture DEF OneAtATime, PaintedSoFar
<1>9. CopiesAreThePicture'
  BY <1>1, <1>2, <1>6, <1>7, SamePicture DEF InOrder, CopiesAreThePicture
<1>10. DrawnSoFar'
  BY <1>1, <1>2, <1>6, SamePicture DEF InOrder, DrawnSoFar
<1> QED
  BY <1>8, <1>9, <1>10 DEF InOrder
LEMMA OrderOfReceive ==
  ASSUME TypeOK, InOrder, NEW n, Receive(n)
  PROVE  InOrder'
<1>1. /\ n \in DOMAIN calls /\ Len(calls[n].image) = Pixels
      /\ requests' = requests \cup {Request(n)}
      /\ UNCHANGED <<log, applied, setting, announcing, calls, colorState,
                     imageFrame, lost>>
  BY DEF Receive, Sent, commits, picture
<1>2. /\ setting = {} /\ applied > 0
      /\ CopiesAreThePicture /\ DrawnSoFar /\ OneAtATime /\ PaintedSoFar
  BY <1>1 DEF InOrder, OneAtATime, TypeOK
<1>3. Request(n).image = calls[n].image /\ Request(n).drawn = 0
  BY DEF Request
<1>4. \A i \in Pixel : Request(n).image[i] = Picture[i]
  BY <1>1, <1>2, <1>3 DEF CopiesAreThePicture, Pixel
<1>5. OneAtATime' /\ PaintedSoFar'
  BY <1>1, <1>2, SamePicture DEF OneAtATime, PaintedSoFar
<1>6. CopiesAreThePicture'
  BY <1>1, <1>2, <1>4, SamePicture DEF CopiesAreThePicture
<1>7. DrawnSoFar'
  BY <1>1, <1>2, <1>3, SamePicture DEF DrawnSoFar
<1> QED
  BY <1>5, <1>6, <1>7 DEF InOrder

LEMMA OrderOfAttemptFails ==
  ASSUME TypeOK, InOrder, NEW n, AttemptFails(n)
  PROVE  InOrder'
<1>1. /\ n \in DOMAIN calls
      /\ UNCHANGED <<log, applied, setting, announcing, requests, colorState,
                     imageFrame>>
      /\ \/ /\ calls' = [calls EXCEPT ![n] = [attempt |-> @.attempt + 1, image |-> << >>]]
            /\ lost' = lost
         \/ calls' = Without(calls, n) /\ lost' = lost \cup {n}
  BY DEF AttemptFails, commits, picture
<1>2. /\ DOMAIN calls = {n} /\ setting = {} /\ announcing = {} /\ applied > 0
      /\ CopiesAreThePicture /\ DrawnSoFar /\ OneAtATime /\ PaintedSoFar
  <2>1. DOMAIN calls = {n} /\ setting = {} /\ announcing = {}
    BY <1>1 DEF InOrder, OneAtATime
  <2>2. applied > 0
    BY <1>1 DEF TypeOK
  <2> QED
    BY <2>1, <2>2 DEF InOrder
<1>3. CASE /\ calls' = [calls EXCEPT ![n] = [attempt |-> @.attempt + 1, image |-> << >>]]
           /\ lost' = lost
  <2>1. DOMAIN calls' = {n} /\ calls'[n].image = << >> /\ Len(<< >>) = 0
    BY <1>2, <1>3, EmptySeq
  <2>2. OneAtATime' /\ PaintedSoFar'
    BY <1>1, <1>2, <2>1, SamePicture DEF OneAtATime, PaintedSoFar
  <2>3. CopiesAreThePicture'
    BY <1>1, <1>2, <2>1, SamePicture DEF CopiesAreThePicture
  <2>4. DrawnSoFar'
    BY <1>1, <1>2, <2>1, SamePicture DEF DrawnSoFar
  <2> QED
    BY <2>2, <2>3, <2>4 DEF InOrder
<1>4. CASE calls' = Without(calls, n) /\ lost' = lost \cup {n}
  <2>1. DOMAIN calls' = {} /\ lost' # {}
    BY <1>2, <1>4 DEF Without
  <2>2. OneAtATime' /\ PaintedSoFar'
    BY <1>1, <1>2, <2>1, SamePicture DEF OneAtATime, PaintedSoFar
  <2>3. CopiesAreThePicture'
    BY <1>1, <1>2, <2>1, SamePicture DEF CopiesAreThePicture
  <2>4. DrawnSoFar'
    BY <1>1, <1>2, <2>1, SamePicture DEF DrawnSoFar
  <2> QED
    BY <2>2, <2>3, <2>4 DEF InOrder
<1> QED
  BY <1>1, <1>3, <1>4

\* The pixel a call draws is one of the picture, whichever attempt it is of; the
\* call that returns has drawn them all.
LEMMA OrderOfDraw ==
  ASSUME TypeOK, InOrder, NEW r \in requests, Draw(r)
  PROVE  InOrder'
<1> DEFINE p == r.drawn + 1
<1>1. /\ imageFrame' = [imageFrame EXCEPT ![p] = r.image[p]]
      /\ requests' = (requests \ {r}) \cup
                       (IF p < Pixels THEN {[r EXCEPT !.drawn = p]} ELSE {})
      /\ UNCHANGED <<log, applied, setting, announcing, colorState, lost>>
      /\ calls' = calls \/ (p = Pixels /\ calls' = Without(calls, r.commit))
  BY DEF Draw, commits
<1>2. /\ r \in IncomingCall /\ r.drawn \in 0 .. Pixels - 1
  BY DEF TypeOK, IncomingCall
<1>3. p \in Pixel /\ \A i \in 1 .. p : i \in 1 .. r.drawn \/ i = p
  BY <1>2, ServiceAssumption DEF Pixel
<1>4. /\ DOMAIN calls' \subseteq DOMAIN calls
      /\ \A n \in DOMAIN calls' : calls'[n] = calls[n]
  BY <1>1 DEF Without
<1>5. setting = {} /\ OneAtATime /\ PaintedSoFar
  BY DEF InOrder, PaintedSoFar
<1>6. OneAtATime' /\ PaintedSoFar'
  BY <1>1, <1>4, <1>5, SamePicture DEF OneAtATime, PaintedSoFar
<1>7. CASE applied = 0
  BY <1>1, <1>6, <1>7 DEF InOrder
<1>8. CASE applied > 0
  <2>1. CopiesAreThePicture /\ DrawnSoFar
    BY <1>8 DEF InOrder
  <2>2. ASSUME NEW q \in requests', q \notin requests
        PROVE  q.image = r.image /\ q.drawn = p
    BY <1>1, <1>2, <2>2 DEF IncomingCall
  <2>3. r.image[p] = Picture[p]
    BY <1>3, <2>1 DEF CopiesAreThePicture
  <2>4. /\ imageFrame \in Frame /\ imageFrame' \in Frame
        /\ imageFrame'[p] = Picture[p]
        /\ \A i \in Pixel \ {p} : imageFrame'[i] = imageFrame[i]
    <3>1. imageFrame' \in Frame
      BY TypeStep DEF Next, TypeOK
    <3> QED
      BY <1>1, <1>3, <2>3, <3>1 DEF TypeOK, Frame
  <2>5. CopiesAreThePicture'
    BY <1>1, <1>4, <2>1, <2>2, SamePicture DEF CopiesAreThePicture
  <2>6. ASSUME NEW i \in Pixel, imageFrame[i] = Picture[i] \/ i = p
        PROVE  imageFrame'[i] = Picture[i]
    BY <2>4, <2>6
  <2>7. ASSUME NEW q \in requests', NEW i \in 1 .. q.drawn
        PROVE  imageFrame'[i] = Picture[i]
    <3>1. CASE q \in requests
      <4>1. i \in Pixel
        BY <3>1, ServiceAssumption DEF TypeOK, IncomingCall, Pixel
      <4> QED
        BY <2>1, <2>6, <3>1, <4>1 DEF DrawnSoFar
    <3>2. CASE q \notin requests
      <4>1. i \in 1 .. p /\ i \in Pixel
        BY <1>2, <1>3, <2>2, <3>2, ServiceAssumption DEF Pixel
      <4> QED
        BY <1>3, <2>1, <2>6, <4>1 DEF DrawnSoFar
    <3> QED
      BY <3>1, <3>2
  <2>8. \/ setting' # {} \/ announcing' # {} \/ DOMAIN calls' # {} \/ lost' # {}
        \/ imageFrame' = Picture
    <3>1. (\A i \in Pixel : imageFrame'[i] = Picture[i]) => imageFrame' = Picture
      BY <2>4 DEF Frame, Picture, PictureOf
    <3>2. CASE imageFrame = Picture
      BY <2>6, <3>1, <3>2
    <3>3. CASE p = Pixels
      <4>1. \A i \in Pixel : i \in 1 .. r.drawn \/ i = p
        BY <1>3, <3>3 DEF Pixel
      <4> QED
        BY <2>1, <2>6, <3>1, <4>1 DEF DrawnSoFar
    <3>4. CASE calls' = calls
      BY <1>1, <2>1, <3>2, <3>4 DEF DrawnSoFar
    <3> QED
      BY <1>1, <3>3, <3>4
  <2>9. DrawnSoFar'
    BY <1>1, <2>7, <2>8, SamePicture DEF DrawnSoFar
  <2> QED
    BY <1>6, <2>5, <2>9 DEF InOrder
<1> QED
  BY <1>7, <1>8 DEF TypeOK

LEMMA OrderOfCrash ==
  ASSUME Crash
  PROVE  InOrder'
<1>1. /\ applied' = 0 /\ setting' = {} /\ announcing' = {} /\ DOMAIN calls' = {}
      /\ colorState' = Blank
  BY DEF Crash
<1>2. Picture' = Blank
  BY <1>1, NothingPainted DEF Crash, Picture
<1>3. OneAtATime' /\ PaintedSoFar'
  BY <1>1, <1>2 DEF OneAtATime, PaintedSoFar
<1> QED
  BY <1>1, <1>3 DEF InOrder

LEMMA ServiceInvStep ==
  ASSUME ServiceInv, [Next]_vars
  PROVE  ServiceInv'
<1>1. TypeOK /\ TypeOK'
  BY TypeStep DEF ServiceInv
<1> SUFFICES ASSUME apart' PROVE InOrder'
  BY <1>1 DEF ServiceInv
<1>2. CASE TakeApplyMsg
  BY <1>2, OrderOfTakeApplyMsg DEF ServiceInv
<1>3. CASE Crash
  BY <1>3, OrderOfCrash
<1>4. CASE /\ ~TakeApplyMsg /\ ~Crash
           /\ (\E n \in 1 .. Length : Goroutine(n) \/ AttemptFails(n))
                \/ (\E r \in requests : Draw(r))
  <2>1. InOrder
    BY <1>4 DEF ServiceInv, Goroutine, SetPixel, TakeEvent, Encode, Receive,
                AttemptFails, Draw, commits
  <2>2. ASSUME NEW n \in 1 .. Length, Goroutine(n)
        PROVE  InOrder'
    BY <1>1, <2>1, <2>2, OrderOfSetPixel, OrderOfTakeEvent, OrderOfEncode,
       OrderOfReceive DEF Goroutine
  <2> QED
    BY <1>1, <1>4, <2>1, <2>2, OrderOfAttemptFails, OrderOfDraw
<1>5. CASE UNCHANGED vars
  <2>1. InOrder
    BY <1>5 DEF ServiceInv, vars, commits
  <2>2. UNCHANGED <<log, applied, setting, announcing, calls, requests,
                    colorState, imageFrame, lost>> /\ Picture' = Picture
    BY <1>5, SamePicture DEF vars, commits
  <2> QED
    BY <2>1, <2>2 DEF InOrder, OneAtATime, PaintedSoFar, CopiesAreThePicture,
                      DrawnSoFar
<1> QED
  BY <1>2, <1>3, <1>4, <1>5 DEF Next

-----------------------------------------------------------------------------
(***************************************************************************)
(* Theorems                                                                 *)
(***************************************************************************)

\* When commits come one at a time, the matrix shows what they paint one after
\* the other, however often an attempt to send a picture fails or comes through
\* twice and whenever the process dies, unless a call is given up.
THEOREM MatrixIsRight == Spec => []MatrixShowsLog
<1>1. Init => ServiceInv
  BY TypeInit, OrderInit DEF ServiceInv
<1>2. ServiceInv /\ [Next]_vars => ServiceInv'
  BY ServiceInvStep
<1>3. ServiceInv => MatrixShowsLog
  BY DEF ServiceInv, InOrder, DrawnSoFar, MatrixShowsLog, AtRest
<1> QED
  BY <1>1, <1>2, <1>3, PTL DEF Spec

\* Every step of the service is one of the abstract canvas or invisible to it:
\* each commit is painted with its own color, at most once in the life of a
\* process, and nothing else is.
THEOREM CanvasIsOrderly == Spec => OrderlyCanvas!Safety
<1>1. Init => OrderlyCanvas!Init
  BY LogAssumption DEF Init, OrderlyCanvas!Init
<1>2. TypeOK /\ [Next]_vars => [OrderlyCanvas!Next]_OrderlyCanvas!vars
  <2> SUFFICES ASSUME TypeOK, [Next]_vars
               PROVE  OrderlyCanvas!Next \/ UNCHANGED OrderlyCanvas!vars
    OBVIOUS
  <2>1. CASE TakeApplyMsg
    <3>1. OrderlyCanvas!HandOver
      BY <2>1 DEF TakeApplyMsg, picture, OrderlyCanvas!HandOver
    <3> QED
      BY <3>1 DEF OrderlyCanvas!Next
  <2>2. ASSUME NEW n \in 1 .. Length, SetPixel(n)
        PROVE  OrderlyCanvas!Next
    <3>1. OrderlyCanvas!PaintOne(n)
      BY <2>2 DEF SetPixel, Paint, Painted, commits, OrderlyCanvas!PaintOne
    <3> QED
      BY <3>1 DEF OrderlyCanvas!Next
  <2>3. CASE Crash
    <3>1. OrderlyCanvas!Restart
      BY <2>3 DEF Crash, OrderlyCanvas!Restart
    <3> QED
      BY <3>1 DEF OrderlyCanvas!Next
  <2>4. ASSUME NEW n \in 1 .. Length,
               TakeEvent(n) \/ Encode(n) \/ Receive(n) \/ AttemptFails(n)
        PROVE  UNCHANGED OrderlyCanvas!vars
    BY <2>4 DEF TakeEvent, Encode, Receive, AttemptFails, commits, picture,
                OrderlyCanvas!vars
  <2>5. ASSUME NEW r \in requests, Draw(r)
        PROVE  UNCHANGED OrderlyCanvas!vars
    BY <2>5 DEF Draw, commits, OrderlyCanvas!vars
  <2>6. CASE UNCHANGED vars
    BY <2>6 DEF vars, commits, OrderlyCanvas!vars
  <2> QED
    BY <2>1, <2>2, <2>3, <2>4, <2>5, <2>6 DEF Next, Goroutine
<1>3. Spec => []TypeOK
  BY TypeInit, TypeStep, PTL DEF Spec
<1> QED
  BY <1>1, <1>2, <1>3, PTL DEF Spec, OrderlyCanvas!Safety

=============================================================================
