---- MODULE SecftFraming ----
(***************************************************************************)
(* Frames of the SDK on a TCP stream.  send_request and send_reply write     *)
(* size + 4 bytes: the size as a varint of one byte or more, the message,    *)
(* and what is left of the 4 bytes.  Both readers peek at up to 4 bytes and   *)
(* take the size from them; then the client (read_reply) reads size + 4      *)
(* bytes however long it takes, while the server (read_request) takes what    *)
(* one read_some gives.  Bytes are counted, positions are in the stream.     *)
(***************************************************************************)
EXTENDS Integers, Sequences

CONSTANTS
    Frames,     \* bound: messages of a behaviour
    Sizes,      \* their sizes
    Small,      \* 128: from this size on the varint has two bytes
    Readings    \* sizes a reader may take from bytes that are no header

ASSUME FramingAssumption ==
    /\ Frames \in Nat /\ Small \in Nat \ {0}
    /\ Sizes \subseteq Nat /\ \A n \in Sizes : n < Small * Small
    /\ Readings \subseteq Nat

None == -1      \* no size was taken yet
Garbled == 0    \* a message that is none of those sent

VARIABLES
    composed,   \* the reader is the client's, whose read waits for all it asked for
    size,       \* the size of each message
    start,      \* where each frame written so far starts, and the next one would
    delivered,  \* how many bytes have arrived
    consumed,   \* how many were read
    want,       \* the size the reader took from its peek
    received,   \* history: what the reader made of each read
    short       \* history: a peek or a read got a part only

fixedVars == <<composed, size>>
vars == <<fixedVars, start, delivered, consumed, want, received, short>>

FrameIds == 1..Frames

Init ==
    /\ composed \in BOOLEAN
    /\ size \in [FrameIds -> Sizes]
    /\ start = <<0>> /\ delivered = 0
    /\ consumed = 0 /\ want = None /\ received = << >> /\ short = FALSE

sent == Len(start) - 1
Written == start[sent + 1]
Available == delivered - consumed

Header(n) == IF n < Small THEN 1 ELSE 2
At(i) == i \in 1..sent /\ consumed = start[i]

\* write_some on a blocking socket takes the whole buffer.
Send ==
    /\ sent < Frames
    /\ start' = Append(start, Written + size[sent + 1] + 4)
    /\ UNCHANGED <<fixedVars, delivered, consumed, want, received, short>>

\* TCP splits and joins as it likes.
Arrive ==
    /\ delivered' \in (delivered + 1)..Written
    /\ UNCHANGED <<fixedVars, start, consumed, want, received, short>>

(***************************************************************************)
(* The readers.                                                            *)
(***************************************************************************)
\* Half a header looks like a whole one: the bytes that are missing are 0.
PeekSize(i) ==
    /\ want = None /\ Available > 0 /\ At(i)
    /\ want' = IF Available >= Header(size[i]) THEN size[i] ELSE size[i] % Small
    /\ short' = (short \/ Available < Header(size[i]))
    /\ UNCHANGED <<fixedVars, start, delivered, consumed, received>>

\* Behind a short read the reader is somewhere in a frame.
PeekElsewhere ==
    /\ want = None /\ Available > 0 /\ ~\E i \in FrameIds : At(i)
    /\ want' \in Readings
    /\ UNCHANGED <<fixedVars, start, delivered, consumed, received, short>>

\* The message is parsed from the n bytes read; beyond them data_buffer is stale.
Parsed(n) ==
    LET whole == {i \in FrameIds : At(i) /\ Header(size[i]) + size[i] <= n}
    IN  IF whole = {} THEN Garbled ELSE CHOOSE i \in whole : TRUE

\* Slip: the rest of the 4 bytes stays in the stream.
TakeSlip(n) ==
    /\ consumed' = consumed + n + Header(want) - 4
    /\ received' = Append(received, Parsed(n))
    /\ want' = None
    /\ UNCHANGED <<fixedVars, start, delivered>>

Take(n) ==
    /\ consumed' = consumed + n
    /\ received' = Append(received, Parsed(n))
    /\ want' = None
    /\ UNCHANGED <<fixedVars, start, delivered>>

\* Slip: read_some in the place of read.
ReadAllSlip ==
    /\ composed /\ want # None /\ Available > 0
    /\ Take(IF Available < want + 4 THEN Available ELSE want + 4)
    /\ UNCHANGED short

\* The client's read waits for all of it.
ReadAll ==
    /\ composed /\ want # None /\ Available >= want + 4
    /\ Take(want + 4)
    /\ UNCHANGED short

\* Slip: read_some is taken to give what was asked for.
ReadSomeSlip ==
    /\ ~composed /\ want # None /\ Available > 0
    /\ Take(want + 4)
    /\ UNCHANGED short

\* The server's read_some takes what is there, at most what it asked for.
ReadSome ==
    /\ ~composed /\ want # None /\ Available > 0
    /\ Take(IF Available < want + 4 THEN Available ELSE want + 4)
    /\ short' = (short \/ Available < want + 4)

Peek == PeekElsewhere \/ \E i \in FrameIds : PeekSize(i)
Read == ReadAll \/ ReadSome

Next == Send \/ Arrive \/ Peek \/ Read

Spec == Init /\ [][Next]_vars

\* What was written arrives, and the reader goes on reading.
FairSpec == Spec /\ WF_vars(Arrive) /\ WF_vars(Peek) /\ WF_vars(Read)

-----------------------------------------------------------------------------
\* Types, and: no more is read than has arrived, no more arrives than was written.
TypeOK ==
    /\ composed \in BOOLEAN /\ size \in [FrameIds -> Sizes]
    /\ start \in Seq(Nat) /\ sent \in 0..Frames
    /\ delivered \in 0..Written /\ consumed \in 0..delivered
    /\ want \in Nat \cup {None}
    /\ received \in Seq(FrameIds \cup {Garbled})
    /\ short \in BOOLEAN

InOrder == \A k \in DOMAIN received : received[k] = k

\* Until a peek or a read_some got a part of what it asked for, the reader has made
\* of the stream what was written to it: the server's reader, too, is exact as long
\* as every frame has arrived when it looks.
ExactUntilShort == ~short => InOrder

Safe == composed /\ \A i \in FrameIds : size[i] < Small

\* On the client's side, and with messages of less than Small bytes (all replies
\* but those with a long path), the stream is a channel for messages, whatever
\* the network does to it.
Channel == INSTANCE FrameChannel WITH
    sent <- IF Safe THEN sent ELSE 0,
    received <- IF Safe THEN received ELSE << >>

IsChannel == Channel!Spec
====
