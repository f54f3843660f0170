---- MODULE SecftFraming_proofs ----
(***************************************************************************)
(* Proofs about SecftFraming, for any number of messages of any sizes, cut   *)
(* into pieces in any way.                                                  *)
(***************************************************************************)
EXTENDS SecftFraming, TLAPS

\* Frames lie one behind the other, so a position is the start of one frame at most.
Starts ==
    /\ start[1] = 0
    /\ \A i \in 1..sent : start[i + 1] = start[i] + size[i] + 4
    /\ \A i, j \in 1..(sent + 1) : i < j => start[i] < start[j]

Next1 == Len(received) + 1

\* As long as nothing was cut short, or on the client's side with short headers,
\* the reader is at the start of the next frame and, after a peek, knows its size.
Exact ==
    /\ InOrder
    /\ Next1 \in 1..(sent + 1)
    /\ consumed = start[Next1]
    /\ want # None => Next1 <= sent /\ want = size[Next1]

Inv ==
    /\ TypeOK
    /\ Starts
    /\ ~short \/ Safe => Exact

LEMMA SizesAreNat == \A i \in FrameIds : size \in [FrameIds -> Sizes] => size[i] \in Nat
  BY FramingAssumption DEF FramingAssumption, FrameIds

\* A message has a header of one or two of the four spare bytes.
LEMMA HeaderFits == \A n \in Nat : Header(n) \in 1..2
  BY FramingAssumption DEF FramingAssumption, Header

\* What is parsed is a message or garbage.
LEMMA ParsedType == \A n \in Nat : Parsed(n) \in FrameIds \cup {Garbled}
  BY DEF Parsed

LEMMA InitInv == Init => Inv
<1> SUFFICES ASSUME Init PROVE Inv
  OBVIOUS
<1> USE FramingAssumption DEF FramingAssumption, Init
<1>1. sent = 0 /\ Written = 0
  BY DEF sent, Written
<1>2. TypeOK
  <2>1. start \in Seq(Nat) /\ received \in Seq(FrameIds \cup {Garbled})
    OBVIOUS
  <2>2. delivered \in 0..Written /\ consumed \in 0..delivered /\ sent \in 0..Frames
    BY <1>1
  <2> QED
    BY <2>1, <2>2 DEF TypeOK
<1>3. Starts
  BY <1>1 DEF Starts
<1>4. Exact
  BY <1>1 DEF Exact, InOrder, Next1, None
<1> QED
  BY <1>2, <1>3, <1>4 DEF Inv

(***************************************************************************)
(* Writing and arriving.                                                   *)
(***************************************************************************)
LEMMA SendKeepsInv == Inv /\ Send => Inv'
<1> SUFFICES ASSUME Inv, Send PROVE Inv'
  OBVIOUS
<1> USE DEF Send, fixedVars
<1>1. /\ start \in Seq(Nat) /\ sent \in 0..Frames /\ sent < Frames
      /\ Len(start) = sent + 1 /\ sent \in Nat
  BY FramingAssumption DEF Inv, TypeOK, sent, FramingAssumption
<1>2. size[sent + 1] \in Nat /\ sent + 1 \in FrameIds
  BY <1>1, SizesAreNat, FramingAssumption DEF Inv, TypeOK, FrameIds, FramingAssumption
<1>3. Written \in Nat /\ Written + size[sent + 1] + 4 \in Nat
  BY <1>1, <1>2 DEF Written
<1>4. /\ start' \in Seq(Nat) /\ Len(start') = sent + 2 /\ sent' = sent + 1
      /\ start'[sent + 2] = Written + size[sent + 1] + 4
      /\ \A i \in 1..(sent + 1) : start'[i] = start[i]
  BY <1>1, <1>3 DEF sent
<1>5. Written' = Written + size[sent + 1] + 4
  BY <1>1, <1>4 DEF Written
<1>6. TypeOK'
  <2>1. delivered \in 0..Written' /\ sent' \in 0..Frames
    BY <1>1, <1>2, <1>3, <1>4, <1>5, FramingAssumption DEF Inv, TypeOK, FramingAssumption
  <2> QED
    BY <1>4, <2>1 DEF Inv, TypeOK
<1>7. Starts'
  <2>1. start'[1] = 0
    BY <1>1, <1>4 DEF Inv, Starts
  <2>2. ASSUME NEW i \in 1..(sent + 1) PROVE start'[i + 1] = start'[i] + size'[i] + 4
    BY <1>1, <1>4 DEF Inv, Starts, Written
  <2>3. ASSUME NEW i \in 1..(sent + 2), NEW j \in 1..(sent + 2), i < j
        PROVE  start'[i] < start'[j]
    <3>1. CASE j \in 1..(sent + 1)
      BY <1>1, <1>4, <2>3, <3>1 DEF Inv, Starts
    <3>2. CASE j = sent + 2
      <4>1. i \in 1..(sent + 1) /\ start[i] \in Nat
        BY <1>1, <2>3, <3>2
      <4>2. start[i] <= Written
        BY <1>1, <1>3, <4>1 DEF Inv, Starts, Written
      <4> QED
        BY <1>2, <1>3, <1>4, <3>2, <4>1, <4>2
    <3> QED
      BY <1>1, <2>3, <3>1, <3>2
  <2> QED
    BY <1>1, <1>4, <2>1, <2>2, <2>3 DEF Starts
<1>8. (~short \/ Safe => Exact)'
  <2>1. (~short \/ Safe)' => (~short \/ Safe)
    BY DEF Safe
  <2>2. ASSUME Exact PROVE Exact'
    BY <1>1, <1>4, <2>2 DEF Inv, TypeOK, Exact, Next1, InOrder
  <2> QED
    BY <2>1, <2>2 DEF Inv
<1> QED
  BY <1>6, <1>7, <1>8 DEF Inv

LEMMA ArriveKeepsInv == Inv /\ Arrive => Inv'
<1> SUFFICES ASSUME Inv, Arrive PROVE Inv'
  OBVIOUS
<1> USE DEF Arrive, fixedVars
<1>1. Written \in Nat /\ delivered \in Nat
  BY DEF Inv, TypeOK, Written, sent
<1>2. UNCHANGED <<sent, Written, size, composed, consumed, want, received, short, start>>
  BY DEF sent, Written
<1>3. TypeOK'
  BY <1>1, <1>2 DEF Inv, TypeOK
<1>4. Starts' /\ (~short \/ Safe => Exact)'
  BY <1>2 DEF Inv, Starts, Safe, Exact, InOrder, Next1
<1> QED
  BY <1>3, <1>4 DEF Inv

(***************************************************************************)
(* The readers.                                                            *)
(***************************************************************************)
\* What a reader does leaves the stream as it is.
readerFrame == <<composed, size, start, delivered>>

LEMMA ReaderKeepsStream ==
  ASSUME Inv, UNCHANGED readerFrame
  PROVE  /\ UNCHANGED <<sent, Written, Safe>>
         /\ Starts'
         /\ Written \in Nat /\ delivered \in 0..Written /\ consumed \in 0..delivered
         /\ sent \in 0..Frames /\ sent \in Nat
<1> USE DEF readerFrame
<1>1. UNCHANGED <<sent, Written, Safe>>
  BY DEF sent, Written, Safe
<1>2. Starts'
  BY <1>1 DEF Inv, Starts
<1>3. Written \in Nat /\ sent \in Nat
  BY FramingAssumption DEF FramingAssumption, Inv, TypeOK, Written, sent
<1> QED
  BY <1>1, <1>2, <1>3 DEF Inv, TypeOK

\* A reader that is exact and finds bytes is at the start of a frame it can name.
LEMMA AtNext ==
  ASSUME Inv, Exact, Available > 0
  PROVE  /\ Next1 \in FrameIds /\ Next1 <= sent /\ At(Next1)
         /\ \A i \in FrameIds : At(i) => i = Next1
<1>1. /\ Written \in Nat /\ delivered \in 0..Written /\ consumed \in 0..delivered
      /\ sent \in 0..Frames /\ sent \in Nat
  BY FramingAssumption DEF FramingAssumption, Inv, TypeOK, Written, sent
<1>2. consumed < start[sent + 1]
  BY <1>1 DEF Available, Written
<1>3. Next1 \in 1..sent
  BY <1>1, <1>2 DEF Exact
<1>4. At(Next1)
  BY <1>3 DEF At, Exact
<1>5. ASSUME NEW i \in FrameIds, At(i) PROVE i = Next1
  <2>1. i \in 1..(sent + 1) /\ Next1 \in 1..(sent + 1) /\ start[i] = start[Next1]
    BY <1>1, <1>3, <1>4, <1>5 DEF At
  <2>2. start[i] \in Nat /\ start[Next1] \in Nat
    BY <1>1, <2>1 DEF Inv, TypeOK, sent
  <2>3. ~(i < Next1) /\ ~(Next1 < i)
    BY <2>1, <2>2 DEF Inv, Starts
  <2> QED
    BY <1>1, <2>1, <2>3
<1> QED
  BY <1>1, <1>3, <1>4, <1>5, FramingAssumption DEF FrameIds, FramingAssumption

LEMMA PeekKeepsInv == Inv /\ Peek => Inv'
<1> SUFFICES ASSUME Inv, Peek PROVE Inv'
  OBVIOUS
<1> USE DEF fixedVars
<1>1. UNCHANGED readerFrame /\ UNCHANGED <<consumed, received>> /\ want = None /\ Available > 0
  BY DEF Peek, PeekElsewhere, PeekSize, readerFrame
<1>2. Available \in Nat
  BY <1>1, ReaderKeepsStream DEF Available
<1>3. TypeOK'
  <2>1. want' \in Nat \cup {None}
    <3>1. CASE PeekElsewhere
      BY <3>1, FramingAssumption DEF PeekElsewhere, FramingAssumption
    <3>2. ASSUME NEW i \in FrameIds, PeekSize(i) PROVE want' \in Nat
      <4>1. size[i] \in Nat /\ Small \in Nat \ {0}
        BY SizesAreNat, FramingAssumption DEF Inv, TypeOK, FramingAssumption
      <4>2. size[i] % Small \in Nat
        BY <4>1
      <4> QED
        BY <3>2, <4>1, <4>2 DEF PeekSize
    <3> QED
      BY <3>1, <3>2 DEF Peek
  <2>2. short' \in BOOLEAN
    BY DEF Inv, TypeOK, Peek, PeekElsewhere, PeekSize
  <2> QED
    BY <1>1, <2>1, <2>2, ReaderKeepsStream DEF Inv, TypeOK, readerFrame
<1>4. ASSUME (~short \/ Safe)' PROVE Exact'
  <2>1. Exact
    BY <1>1, <1>4, ReaderKeepsStream DEF Inv, TypeOK, Peek, PeekElsewhere, PeekSize
  <2>2. /\ Next1 \in FrameIds /\ Next1 <= sent /\ At(Next1)
        /\ \A i \in FrameIds : At(i) => i = Next1
    BY <1>1, <2>1, AtNext
  <2>3. PeekSize(Next1)
    BY <2>2 DEF Peek, PeekElsewhere, PeekSize
  <2>4. want' = size[Next1]
    <3>1. CASE Available >= Header(size[Next1])
      BY <2>3, <3>1 DEF PeekSize
    <3>2. CASE ~(Available >= Header(size[Next1]))
      <4>0. Available < Header(size[Next1])
        BY <2>2, <3>2, <1>2, HeaderFits, SizesAreNat DEF Inv, TypeOK
      <4>1. short'
        BY <2>3, <4>0 DEF PeekSize
      <4>2. Safe
        BY <1>1, <1>4, <4>1, ReaderKeepsStream
      <4>3. Header(size[Next1]) = 1
        BY <2>2, <4>2 DEF Safe, Header
      <4> QED
        BY <1>1, <1>2, <3>2, <4>3
    <3> QED
      BY <3>1, <3>2
  <2>5. UNCHANGED <<Next1, sent, start, size, received, consumed>>
    BY <1>1, ReaderKeepsStream DEF Next1, readerFrame
  <2> QED
    BY <2>1, <2>2, <2>4, <2>5 DEF Exact, InOrder
<1> QED
  BY <1>1, <1>3, <1>4, ReaderKeepsStream DEF Inv

LEMMA ReadKeepsTypes ==
  ASSUME Inv, Read
  PROVE  TypeOK' /\ UNCHANGED readerFrame
<1> USE DEF fixedVars
<1>1. UNCHANGED readerFrame /\ want # None /\ want \in Nat
  BY DEF Read, ReadAll, ReadSome, Take, readerFrame, Inv, TypeOK
<1>2. /\ Available \in Nat /\ delivered \in Nat /\ consumed \in Nat
      /\ Available = delivered - consumed
  BY <1>1, ReaderKeepsStream DEF Available
<1>3. PICK n \in 0..Available : Take(n)
  BY <1>1, <1>2 DEF Read, ReadAll, ReadSome
<1>4. consumed' \in 0..delivered /\ want' = None
  BY <1>2, <1>3 DEF Take
<1>5. received' \in Seq(FrameIds \cup {Garbled})
  <2>1. Parsed(n) \in FrameIds \cup {Garbled}
    BY <1>2, ParsedType
  <2> QED
    BY <1>3, <2>1 DEF Take, Inv, TypeOK
<1>6. short' \in BOOLEAN
  BY DEF Read, ReadAll, ReadSome, Inv, TypeOK
<1> QED
  BY <1>1, <1>4, <1>5, <1>6, ReaderKeepsStream DEF Inv, TypeOK, readerFrame

\* An exact reader that stays exact takes the next message, and all of it.
LEMMA ReadTakesNext ==
  ASSUME Inv, Read, (~short \/ Safe)'
  PROVE  /\ Exact /\ Next1 <= sent
         /\ received' = Append(received, Next1)
         /\ consumed' = start[Next1] + size[Next1] + 4
         /\ want' = None
<1>1. UNCHANGED readerFrame /\ want # None /\ want \in Nat
  BY DEF Read, ReadAll, ReadSome, Take, readerFrame, Inv, TypeOK, fixedVars
<1>2. Available \in Nat
  BY <1>1, ReaderKeepsStream DEF Available
<1>3. Exact
  BY <1>1, ReaderKeepsStream DEF Inv, TypeOK, Read, ReadAll, ReadSome
<1>4. Take(want + 4) /\ Available > 0
  <2>1. CASE ReadAll
    BY <1>1, <1>2, <2>1 DEF ReadAll
  <2>2. CASE ReadSome
    <3>1. ~short'
      BY <1>1, <2>2, ReaderKeepsStream DEF ReadSome, Safe
    <3>2. ~(Available < want + 4)
      BY <2>2, <3>1 DEF ReadSome, Inv, TypeOK
    <3> QED
      BY <2>2, <3>2 DEF ReadSome
  <2> QED
    BY <2>1, <2>2 DEF Read
<1>5. /\ Next1 \in FrameIds /\ Next1 <= sent /\ At(Next1)
      /\ \A i \in FrameIds : At(i) => i = Next1
  BY <1>3, <1>4, AtNext
<1>6. want = size[Next1] /\ consumed = start[Next1]
  BY <1>1, <1>3 DEF Exact
<1>7. Parsed(want + 4) = Next1
  <2>1. Header(size[Next1]) + size[Next1] <= want + 4
    BY <1>1, <1>6, HeaderFits
  <2> QED
    BY <1>5, <2>1 DEF Parsed
<1>8. start[Next1] \in Nat
  BY <1>6, <1>1, ReaderKeepsStream
<1> QED
  BY <1>1, <1>3, <1>4, <1>5, <1>6, <1>7, <1>8 DEF Take

LEMMA ReadKeepsInv == Inv /\ Read => Inv'
<1> SUFFICES ASSUME Inv, Read PROVE Inv'
  OBVIOUS
<1>1. TypeOK' /\ UNCHANGED readerFrame
  BY ReadKeepsTypes
<1>2. ASSUME (~short \/ Safe)' PROVE Exact'
  <2>1. /\ Exact /\ Next1 <= sent
        /\ received' = Append(received, Next1)
        /\ consumed' = start[Next1] + size[Next1] + 4
        /\ want' = None
    BY <1>2, ReadTakesNext
  <2>2. received \in Seq(FrameIds \cup {Garbled}) /\ Next1 = Len(received) + 1 /\ Len(received) \in Nat
    BY DEF Inv, TypeOK, Next1
  <2>3. /\ Next1' = Next1 + 1 /\ Len(received') = Next1
        /\ received'[Next1] = Next1
        /\ \A k \in 1..Len(received) : received'[k] = received[k]
    <3>1. Next1 \in FrameIds \cup {Garbled}
      BY <2>1, <2>2, <1>1, ReaderKeepsStream, FramingAssumption DEF FrameIds, FramingAssumption
    <3> QED
      BY <2>1, <2>2, <3>1 DEF Next1
  <2>4. InOrder'
    BY <2>1, <2>2, <2>3 DEF Exact, InOrder
  <2>5. sent' = sent /\ start' = start /\ sent \in Nat
    BY <1>1, ReaderKeepsStream DEF readerFrame
  <2>6. Next1 \in 1..sent
    BY <2>1, <2>2, <2>5
  <2>7. consumed' = start[Next1 + 1]
    BY <2>1, <2>6 DEF Inv, Starts
  <2> QED
    BY <2>1, <2>3, <2>4, <2>5, <2>6, <2>7 DEF Exact
<1> QED
  BY <1>1, <1>2, ReaderKeepsStream DEF Inv

LEMMA StutterKeepsInv == Inv /\ UNCHANGED vars => Inv'
<1> SUFFICES ASSUME Inv, UNCHANGED vars PROVE Inv'
  OBVIOUS
<1> USE DEF vars, fixedVars
<1>1. UNCHANGED <<sent, Written>>
  BY DEF sent, Written
<1> QED
  BY <1>1 DEF Inv, TypeOK, Starts, Exact, Safe, InOrder, Next1

THEOREM FramingInvariant == Spec => []Inv
<1>1. Inv /\ [Next]_vars => Inv'
  BY SendKeepsInv, ArriveKeepsInv, PeekKeepsInv, ReadKeepsInv, StutterKeepsInv DEF Next
<1> QED
  BY InitInv, <1>1, PTL DEF Spec

\* read_request and read_reply never take more bytes than there are.
THEOREM FramingTypes == Spec => []TypeOK
<1>1. Inv => TypeOK
  BY DEF Inv
<1> QED
  BY FramingInvariant, <1>1, PTL

\* Either reader is exact until the network cuts a peek or a read_some short.
THEOREM FramingIsExactUntilShort == Spec => []ExactUntilShort
<1>1. Inv => ExactUntilShort
  BY DEF Inv, ExactUntilShort, Exact
<1> QED
  BY FramingInvariant, <1>1, PTL

(***************************************************************************)
(* Refinement.                                                             *)
(***************************************************************************)
LEMMA SendRefines == Inv /\ Send => [Channel!Next]_<<IF Safe THEN sent ELSE 0,
                                                     IF Safe THEN received ELSE << >> >>
<1> SUFFICES ASSUME Inv, Send
             PROVE  [Channel!Next]_<<IF Safe THEN sent ELSE 0, IF Safe THEN received ELSE << >> >>
  OBVIOUS
<1>1. UNCHANGED Safe /\ UNCHANGED received
  BY DEF Send, Safe, fixedVars
<1>2. sent' = sent + 1
  <2>1. start \in Seq(Nat) /\ sent \in 0..Frames /\ sent < Frames
    BY DEF Inv, TypeOK, Send
  <2> QED
    BY <2>1 DEF Send, sent
<1> QED
  BY <1>1, <1>2 DEF Channel!Next, Channel!Send

LEMMA ReadRefines == Inv /\ Read => [Channel!Next]_<<IF Safe THEN sent ELSE 0,
                                                     IF Safe THEN received ELSE << >> >>
<1> SUFFICES ASSUME Inv, Read
             PROVE  [Channel!Next]_<<IF Safe THEN sent ELSE 0, IF Safe THEN received ELSE << >> >>
  OBVIOUS
<1>1. UNCHANGED readerFrame
  BY ReadKeepsTypes
<1>2. UNCHANGED <<sent, Safe>>
  BY <1>1, ReaderKeepsStream
<1>3. CASE ~Safe
  BY <1>2, <1>3
<1>4. CASE Safe
  <2>1. Next1 <= sent /\ received' = Append(received, Next1)
    BY <1>2, <1>4, ReadTakesNext
  <2>2. Len(received) < sent
    BY <2>1, <1>1, ReaderKeepsStream DEF Next1, Inv, TypeOK
  <2>3. Channel!Receive
    BY <1>2, <1>4, <2>1, <2>2 DEF Channel!Receive, Next1
  <2> QED
    BY <2>3 DEF Channel!Next
<1> QED
  BY <1>3, <1>4

\* The client's side, with short headers, is a channel in each step: what the
\* steps promise of IsChannel (that all arrives in the end is left to TLC).
THEOREM FramingIsChannel == Spec => Channel!Safety
<1>1. Init => Channel!Init
  BY DEF Init, Channel!Init, sent
<1>2. Inv /\ [Next]_vars
        => [Channel!Next]_<<IF Safe THEN sent ELSE 0, IF Safe THEN received ELSE << >> >>
  <2> SUFFICES ASSUME Inv, [Next]_vars
               PROVE  [Channel!Next]_<<IF Safe THEN sent ELSE 0,
                                       IF Safe THEN received ELSE << >> >>
    OBVIOUS
  <2>1. CASE Send
    BY <2>1, SendRefines
  <2>2. CASE Read
    BY <2>2, ReadRefines
  <2>3. CASE Arrive \/ Peek \/ UNCHANGED vars
    BY <2>3 DEF Arrive, Peek, PeekElsewhere, PeekSize, vars, fixedVars, sent, Safe
  <2> QED
    BY <2>1, <2>2, <2>3 DEF Next
<1> QED
  BY FramingInvariant, <1>1, <1>2, PTL DEF Spec, Channel!Safety
====
