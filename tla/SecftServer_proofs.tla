---- MODULE SecftServer_proofs ----
(***************************************************************************)
(* Facts about the SDK server and its connections, whoever its clients are: *)
(* every step keeps the types, and what a step can do to one connection.    *)
(***************************************************************************)
EXTENDS SecftServer, SequenceTheorems, FiniteSetTheorems, TLAPS

-----------------------------------------------------------------------------
(***************************************************************************)
(* Sequences: the one-place channels.                                      *)
(***************************************************************************)
LEMMA AppendToEmpty ==
    ASSUME NEW S, NEW m \in S
    PROVE  /\ Append(<< >>, m) \in Seq(S)
           /\ Append(<< >>, m) # << >>
           /\ Head(Append(<< >>, m)) = m
           /\ Tail(Append(<< >>, m)) = << >>
           /\ Len(Append(<< >>, m)) = 1
BY EmptySeq, AppendProperties, HeadTailAppend

LEMMA PrefixFacts ==
    ASSUME NEW S, NEW seq \in Seq(S), NEW n \in 0..Len(seq)
    PROVE  /\ SubSeq(seq, 1, n) \in Seq(S)
           /\ Len(SubSeq(seq, 1, n)) = n
           /\ \A i \in 1..n : SubSeq(seq, 1, n)[i] = seq[i]
<1>1. Len(seq) \in Nat
  BY LenProperties
<1>2. \A i \in 1..n : seq[i] \in S
  BY <1>1, ElementOfSeq
<1> QED  BY <1>1, <1>2, SubSeqProperties

LEMMA OneOrEmpty ==
    ASSUME NEW S, NEW q \in Seq(S)
    PROVE  /\ q = << >> => Len(q) = 0
           /\ q # << >> /\ Tail(q) = << >> => Len(q) = 1
<1>1. CASE q = << >>
  BY <1>1, EmptySeq
<1>2. CASE q # << >>
  <2>1. Len(Tail(q)) = Len(q) - 1 /\ Len(q) \in Nat
    BY <1>2, HeadTailProperties, LenProperties
  <2>2. Tail(q) = << >> => Len(Tail(q)) = 0
    BY EmptySeq, Zenon
  <2> QED  BY <1>2, <2>1, <2>2
<1> QED  BY <1>1, <1>2

LEMMA PutInFront ==
    ASSUME NEW S, NEW m \in S, NEW q \in Seq(S)
    PROVE  /\ <<m>> \o q \in Seq(S)
           /\ <<m>> \o q # << >>
           /\ Head(<<m>> \o q) = m
           /\ Tail(<<m>> \o q) = q
<1> DEFINE r == <<m>> \o q
<1>1. <<m>> \in Seq(S) /\ Len(<<m>>) = 1 /\ <<m>>[1] = m /\ Len(q) \in Nat
  BY LenProperties
<1>2. /\ r \in Seq(S) /\ Len(r) = 1 + Len(q) /\ r[1] = m
      /\ \A i \in 1..Len(q) : r[1 + i] = q[i]
  <2>1. /\ r \in Seq(S) /\ Len(r) = Len(<<m>>) + Len(q)
        /\ \A i \in 1..Len(<<m>>) + Len(q) :
             r[i] = IF i <= Len(<<m>>) THEN <<m>>[i] ELSE q[i - Len(<<m>>)]
    BY <1>1, ConcatProperties
  <2> HIDE DEF r
  <2> QED  BY <1>1, <2>1
<1> HIDE DEF r
<1>3. r # << >>
  BY <1>1, <1>2, EmptySeq
<1>4. Head(r) = m /\ Tail(r) \in Seq(S) /\ Len(Tail(r)) = Len(q)
      /\ \A i \in 1..Len(Tail(r)) : Tail(r)[i] = r[i + 1]
  BY <1>1, <1>2, <1>3, HeadTailProperties
<1>5. Tail(r) = q
  BY <1>1, <1>2, <1>4, SeqEqual
<1> QED  BY <1>2, <1>3, <1>4, <1>5 DEF r

\* What is left of a sequence from some place on.
LEMMA RestType ==
    ASSUME NEW S, NEW q \in Seq(S), NEW n \in Nat
    PROVE  SubSeq(q, n + 1, Len(q)) \in Seq(S)
<1>1. Len(q) \in Nat
  BY LenProperties
<1>2. CASE n + 1 > Len(q)
  BY <1>1, <1>2, SubSeqEmpty, EmptySeq
<1>3. CASE n + 1 <= Len(q)
  <2>1. \A i \in n + 1 .. Len(q) : q[i] \in S
    BY <1>1, ElementOfSeq
  <2> QED  BY <1>1, <1>3, <2>1, SubSeqProperties
<1> QED  BY <1>1, <1>2, <1>3

-----------------------------------------------------------------------------
(***************************************************************************)
(* What the parser makes of a frame that was read in part.                 *)
(***************************************************************************)
Alike(x, m) ==
    /\ x.kind = m.kind /\ x.path = m.path
    /\ x.flags = m.flags /\ x.overwrite = m.overwrite

\* A mixture of two requests has the data of both and the rest of the new one.
LEMMA OverlapFacts ==
    ASSUME NEW B, NEW m \in Request, NEW old \in Request, NEW x \in Overlap(m, old),
           m.data \in Seq(B), old.data \in Seq(B)
    PROVE  x \in Request /\ Alike(x, m) /\ x.data \in Seq(B)
<1>1. PICK n \in 0..Len(m.data) :
        x = [m EXCEPT !.data = SubSeq(@, 1, n) \o SubSeq(old.data, n + 1, Len(old.data)),
                      !.trusted = old.trusted]
  BY DEF Overlap
<1> DEFINE d == SubSeq(m.data, 1, n) \o SubSeq(old.data, n + 1, Len(old.data))
<1>2. n \in Nat
  BY LenProperties
<1>3. ASSUME NEW C, m.data \in Seq(C), old.data \in Seq(C)
      PROVE  d \in Seq(C)
  <2>1. SubSeq(m.data, 1, n) \in Seq(C)
    BY <1>3, PrefixFacts
  <2>2. SubSeq(old.data, n + 1, Len(old.data)) \in Seq(C)
    BY <1>2, <1>3, RestType
  <2> QED  BY <2>1, <2>2, ConcatProperties
<1>4. m.data \in Seq(Bytes) /\ old.data \in Seq(Bytes)
  BY DEF Request
<1>5. d \in Seq(B) /\ d \in Seq(Bytes)
  BY <1>3, <1>4
<1>6. x = [m EXCEPT !.data = d, !.trusted = old.trusted]
  BY <1>1
<1> HIDE DEF d
<1> QED  BY <1>5, <1>6 DEF Request, Alike

\* It is the request before, or the new one but for its data and its credentials.
LEMMA ParsedFacts ==
    ASSUME NEW m \in Request, NEW before \in SUBSET Request, NEW x \in Parsed(m, before),
           NEW B, m.data \in Seq(B), \A old \in before : old.data \in Seq(B)
    PROVE  /\ x \in Request /\ x.data \in Seq(B)
           /\ x \in before \/ Alike(x, m)
           /\ x = m \/ ~x.trusted \/ before # {}
<1>1. CASE x = m \/ x = [m EXCEPT !.trusted = FALSE]
  BY <1>1 DEF Request, Alike
<1>2. CASE x \in before
  BY <1>2
<1>3. CASE \E old \in before : x \in Overlap(m, old)
  BY <1>3, OverlapFacts
<1> QED  BY <1>1, <1>2, <1>3 DEF Parsed

-----------------------------------------------------------------------------
(***************************************************************************)
(* The server's steps.                                                     *)
(***************************************************************************)
LEMMA AskedIsRequest ==
    ASSUME ServerOK, NEW c \in Conns, c2s[c] # << >>
    PROVE  /\ Asked(c) \in Request
           /\ Tail(c2s[c]) \in Seq(Request)
           /\ Target(c) \in Paths
<1>1. c2s[c] \in Seq(Request)
  BY DEF ServerOK
<1>2. Head(c2s[c]) \in Request /\ Tail(c2s[c]) \in Seq(Request)
  BY <1>1, HeadTailProperties
<1>3. Asked(c).path \in Paths
  BY <1>2 DEF Asked, Request
<1> QED  BY <1>2, <1>3, StemAssumption DEF Asked, Target

LEMMA ClosingType ==
    ASSUME ServerOK, NEW c \in Conns, Stop(c)
    PROVE  /\ sock' \in [Conns -> {"none", "backlog", "open", "closed"}]
           /\ c2s' \in [Conns -> Seq(Request)]
BY EmptySeq DEF Stop, ServerOK

LEMMA KeepingType ==
    ASSUME ServerOK, NEW c \in Conns, c2s[c] # << >>, KeepOpen(c)
    PROVE  /\ sock' \in [Conns -> {"none", "backlog", "open", "closed"}]
           /\ c2s' \in [Conns -> Seq(Request)]
BY AskedIsRequest DEF KeepOpen, ServerOK

LEMMA ReplyType ==
    ASSUME ServerOK, NEW c \in Conns, NEW status0 \in Status, NEW size0 \in Nat,
           SendReply(c, status0, size0)
    PROVE  s2c' \in [Conns -> Seq(Reply)]
<1>1. Answer(status0, size0) \in Reply
  BY DEF Answer, Reply
<1>2. Append(s2c[c], Answer(status0, size0)) \in Seq(Reply)
  BY <1>1, AppendProperties DEF ServerOK
<1> QED  BY <1>2 DEF SendReply, ServerOK

LEMMA DyingType ==
    ASSUME ServerOK, Die
    PROVE  ServerOK'
BY EmptySeq DEF Die, ServerOK, diskVars, readerVars

\* What Reads leaves of the type invariant for the rest of its action to show.
LEMMA ReadsType ==
    ASSUME ServerOK, NEW c \in Conns, Reads(c),
           sock' \in [Conns -> {"none", "backlog", "open", "closed"}],
           c2s' \in [Conns -> Seq(Request)],
           s2c' \in [Conns -> Seq(Reply)],
           present' \subseteq Paths,
           files' \in [Paths -> Seq(Bytes)]
    PROVE  ServerOK'
<1>1. Asked(c) \in Request
  BY AskedIsRequest DEF Reads, FrameIsThere
<1>2. /\ buffer' = [buffer EXCEPT ![c] = {Asked(c)}]
      /\ torn' = [torn EXCEPT ![c] = IF @ = "part" THEN "rest" ELSE @]
      /\ UNCHANGED <<cut, up, mixed>>
      /\ stamped' = stamped \cup {c} /\ quiet' = quiet \ {c} /\ cursor' = cursor + 1
  BY DEF Reads, Stamp
<1>3. {Asked(c)} \in SUBSET Request
  BY <1>1
<1>4. /\ buffer' \in [Conns -> SUBSET Request]
      /\ torn' \in [Conns -> {"no", "part", "rest"}]
  <2> HIDE DEF Asked
  <2> QED  BY <1>2, <1>3 DEF ServerOK
<1> QED  BY <1>2, <1>4 DEF ServerOK

LEMMA StoreType ==
    ASSUME ServerOK, NEW c \in Conns, StoreUpload(c)
    PROVE  /\ present' \subseteq Paths
           /\ files' \in [Paths -> Seq(Bytes)]
<1>1. c2s[c] # << >>
  BY DEF StoreUpload, Reads, FrameIsThere
<1>2. Asked(c) \in Request /\ Target(c) \in Paths
  BY <1>1, AskedIsRequest
<1>3. Asked(c).data \in Seq(Bytes)
  BY <1>2 DEF Request
<1>4. \A w \in Written(Asked(c).data) : w \in Seq(Bytes)
  BY <1>3, PrefixFacts DEF Written, Prefixes
<1>5. PICK w \in Written(Asked(c).data) :
        files' = [files EXCEPT ![Target(c)] =
                    IF UploadMode(c) = "truncate" THEN w ELSE @ \o w]
  BY DEF StoreUpload
<1>6. files[Target(c)] \in Seq(Bytes) /\ w \in Seq(Bytes)
  BY <1>2, <1>4, <1>5 DEF ServerOK
<1>7. files[Target(c)] \o w \in Seq(Bytes)
  BY <1>6, ConcatProperties
<1>8. files' \in [Paths -> Seq(Bytes)]
  BY <1>2, <1>5, <1>6, <1>7 DEF ServerOK
<1> QED  BY <1>2, <1>8 DEF StoreUpload, ServerOK

LEMMA AnswerType ==
    ASSUME ServerOK, NEW c \in Conns, AnswerToClient(c)
    PROVE  ServerOK'
<1>1. CASE AnswerBroken(c)
  BY <1>1, ClosingType DEF AnswerBroken, ServerOK, diskVars, readerVars
<1>2. CASE AnswerIdle(c)
  BY <1>2, ClosingType DEF AnswerIdle, ServerOK, diskVars, readerVars
<1>3. CASE RejectRequest(c)
  <2>1. Reads(c) /\ Stop(c) /\ UNCHANGED <<s2c, present, files>>
    BY <1>3 DEF RejectRequest, diskVars
  <2> QED  BY <2>1, ClosingType, ReadsType DEF ServerOK
<1>4. CASE StoreUpload(c)
  <2>1. Reads(c) /\ SendReply(c, "success", 0) /\ c2s[c] # << >> /\ (Stop(c) \/ KeepOpen(c))
    BY <1>4 DEF StoreUpload, Reads, FrameIsThere
  <2>2. s2c' \in [Conns -> Seq(Reply)]
    BY <2>1, ReplyType DEF Status
  <2> QED  BY <1>4, <2>1, <2>2, StoreType, ClosingType, KeepingType, ReadsType
<1>5. CASE RefuseUpload(c)
  <2>1. Reads(c) /\ SendReply(c, "exists", 0) /\ Stop(c) /\ UNCHANGED <<present, files>>
    BY <1>5 DEF RefuseUpload, diskVars
  <2>2. s2c' \in [Conns -> Seq(Reply)]
    BY <2>1, ReplyType DEF Status
  <2> QED  BY <2>1, <2>2, ClosingType, ReadsType DEF ServerOK
<1>6. CASE IgnoreUpload(c) \/ IgnoreDownload(c)
  <2>1. Reads(c) /\ c2s[c] # << >> /\ KeepOpen(c) /\ UNCHANGED <<s2c, present, files>>
    BY <1>6 DEF IgnoreUpload, IgnoreDownload, Reads, diskVars, FrameIsThere
  <2> QED  BY <2>1, KeepingType, ReadsType DEF ServerOK
<1>7. CASE CheckDownload(c)
  <2>1. /\ Reads(c) /\ c2s[c] # << >> /\ UNCHANGED <<present, files>>
        /\ Stop(c) \/ KeepOpen(c)
        /\ \/ Asked(c).path \in present /\ SendReply(c, "exists", Len(files[Asked(c).path]))
           \/ SendReply(c, "not_found", 0)
    BY <1>7 DEF CheckDownload, Reads, diskVars, FrameIsThere
  <2>2. Asked(c).path \in present => Len(files[Asked(c).path]) \in Nat
    BY LenProperties DEF ServerOK
  <2>3. s2c' \in [Conns -> Seq(Reply)]
    BY <2>1, <2>2, ReplyType DEF Status
  <2> QED  BY <2>1, <2>3, ClosingType, KeepingType, ReadsType DEF ServerOK
<1>8. CASE SendDownloadPacket(c)
  <2>1. /\ Reads(c) /\ Stop(c) /\ UNCHANGED <<present, files>>
        /\ \/ SendReply(c, "open_error", 0) \/ SendReply(c, "read_error", 0)
           \/ UNCHANGED s2c
    BY <1>8 DEF SendDownloadPacket, diskVars
  <2>2. s2c' \in [Conns -> Seq(Reply)]
    BY <2>1, ReplyType DEF Status, ServerOK
  <2> QED  BY <2>1, <2>2, ClosingType, ReadsType DEF ServerOK
<1>9. CASE DieOnMissingFile(c)
  BY <1>9, DyingType DEF DieOnMissingFile
<1>10. CASE ReadRest(c)
  BY <1>10, ClosingType DEF ReadRest, Stamp, ServerOK, diskVars, readerVars
<1> QED  BY <1>1, <1>2, <1>3, <1>4, <1>5, <1>6, <1>7, <1>8, <1>9, <1>10 DEF AnswerToClient

\* A short read puts another request in the place of the one that was sent.
LEMMA SplitFacts ==
    ASSUME ServerOK, NEW c \in Conns, SplitFrame(c)
    PROVE  /\ c2s[c] # << >> /\ c2s'[c] # << >> /\ Tail(c2s'[c]) = Tail(c2s[c])
           /\ Asked(c) \in Request /\ Asked(c)' \in Request
           /\ buffer[c] \in SUBSET Request
           /\ Asked(c)' \in Parsed(Asked(c), buffer[c])
           /\ torn[c] = "no" /\ torn'[c] = "part"
           /\ mixed'[c] = IF Asked(c)'.trusted /\ Asked(c)' # Asked(c)
                          THEN {Asked(c).flags} ELSE mixed[c]
           /\ c2s' \in [Conns -> Seq(Request)]
           /\ torn' \in [Conns -> {"no", "part", "rest"}]
           /\ mixed' \in [Conns -> SUBSET Flags]
           /\ \A d \in Conns \ {c} : c2s'[d] = c2s[d] /\ torn'[d] = torn[d] /\ mixed'[d] = mixed[d]
           /\ UNCHANGED <<sock, cut, s2c, up, clients, cursor, stamped, quiet, present, files, buffer>>
<1>1. c2s[c] # << >> /\ torn[c] = "no" /\ c2s[c] \in Seq(Request)
  BY DEF SplitFrame, FrameIsThere, ServerOK
<1>2. Asked(c) \in Request /\ Tail(c2s[c]) \in Seq(Request) /\ buffer[c] \in SUBSET Request
  BY <1>1, AskedIsRequest DEF ServerOK
<1>3. PICK m \in Parsed(Asked(c), buffer[c]) :
        /\ c2s' = [c2s EXCEPT ![c] = <<m>> \o Tail(@)]
        /\ mixed' = IF m.trusted /\ m # Asked(c)
                    THEN [mixed EXCEPT ![c] = {Asked(c).flags}] ELSE mixed
  BY DEF SplitFrame
<1>4. m \in Request
  <2> DEFINE a == Asked(c)
             before == buffer[c]
  <2>1. /\ a \in Request /\ before \in SUBSET Request /\ m \in Parsed(a, before)
        /\ a.data \in Seq(Bytes) /\ \A old \in before : old.data \in Seq(Bytes)
    BY <1>2 DEF Request
  <2> HIDE DEF a, before
  <2> QED  BY <2>1, ParsedFacts
<1> DEFINE q == Tail(c2s[c])
           new == <<m>> \o q
<1>5. new \in Seq(Request) /\ new # << >> /\ Head(new) = m /\ Tail(new) = q
  BY <1>2, <1>4, PutInFront
<1>6. c2s' = [c2s EXCEPT ![c] = new]
  BY <1>3
<1> HIDE DEF new, q
<1>7. /\ c2s'[c] = new /\ c2s' \in [Conns -> Seq(Request)]
      /\ \A d \in Conns \ {c} : c2s'[d] = c2s[d]
  BY <1>5, <1>6 DEF ServerOK
<1>8. Asked(c)' = m
  BY <1>5, <1>7 DEF Asked
<1>9. {Asked(c).flags} \in SUBSET Flags
  BY <1>2 DEF Request
<1>10. /\ mixed' \in [Conns -> SUBSET Flags]
       /\ \A d \in Conns \ {c} : mixed'[d] = mixed[d]
       /\ mixed'[c] = IF m.trusted /\ m # Asked(c) THEN {Asked(c).flags} ELSE mixed[c]
  <2> HIDE DEF Asked
  <2> QED  BY <1>3, <1>9 DEF ServerOK
<1>11. /\ torn' = [torn EXCEPT ![c] = "part"]
       /\ UNCHANGED <<sock, cut, s2c, up, clients, cursor, stamped, quiet, present, files, buffer>>
  BY DEF SplitFrame, diskVars
<1>12. /\ torn'[c] = "part" /\ torn' \in [Conns -> {"no", "part", "rest"}]
       /\ \A d \in Conns \ {c} : torn'[d] = torn[d]
  BY <1>11 DEF ServerOK
<1> QED  BY <1>1, <1>2, <1>3, <1>4, <1>5, <1>7, <1>8, <1>10, <1>11, <1>12 DEF q

LEMMA ServerType ==
    ASSUME ServerOK, ServerNext
    PROVE  ServerOK'
<1>0. CASE WakeAndLock
  BY <1>0 DEF WakeAndLock, ServerOK, linkVars, diskVars, readerVars
<1>1. CASE Restart
  BY <1>1 DEF Restart, ServerOK, linkVars, diskVars, readerVars
<1> << >> \in Seq(Request)
  BY EmptySeq
<1>2. CASE EraseTimedOut
  <2> DEFINE gone == {c \in ToSet(clients) : TimedOut(c)}
  <2>1. /\ sock' = [c \in Conns |-> IF c \in gone THEN "closed" ELSE sock[c]]
        /\ c2s' = [c \in Conns |-> IF c \in gone THEN << >> ELSE c2s[c]]
        /\ stamped' = stamped \ gone /\ quiet' = quiet \ gone /\ cursor' = 0
        /\ UNCHANGED <<cut, s2c, up, present, files, buffer, torn, mixed>>
    BY <1>2 DEF EraseTimedOut, diskVars, readerVars
  <2> HIDE DEF gone
  <2> QED  BY <2>1 DEF ServerOK
<1>3. CASE Crash
  BY <1>3, DyingType DEF Crash
<1>4. ASSUME NEW c \in Conns, AnswerToClient(c)
      PROVE  ServerOK'
  BY <1>4, AnswerType
<1>5. ASSUME NEW c \in Conns, AcceptThread(c)
      PROVE  ServerOK'
  BY <1>5 DEF AcceptThread, ServerOK, diskVars, readerVars
<1>6. ASSUME NEW c \in Conns, PassTime(c)
      PROVE  ServerOK'
  BY <1>6 DEF PassTime, ServerOK, linkVars, diskVars, readerVars
<1>7. ASSUME NEW c \in Conns, CutLink(c)
      PROVE  ServerOK'
  <2>1. /\ cut' = cut \cup {c} /\ c2s' \in {c2s, [c2s EXCEPT ![c] = << >>]}
        /\ UNCHANGED <<sock, s2c, up, cursor, stamped, quiet, present, files, buffer, torn, mixed>>
    BY <1>7 DEF CutLink, Cut, serverVars, diskVars, readerVars
  <2>2. c2s' \in [Conns -> Seq(Request)]
    BY <2>1 DEF ServerOK
  <2> QED  BY <2>1, <2>2 DEF ServerOK
<1>8. ASSUME NEW c \in Conns, SplitFrame(c)
      PROVE  ServerOK'
  BY <1>8, SplitFacts DEF ServerOK
<1> QED  BY <1>0, <1>1, <1>2, <1>3, <1>4, <1>5, <1>6, <1>7, <1>8
      DEF ServerNext, HandleClientsThread, Environment

-----------------------------------------------------------------------------
(***************************************************************************)
(* What the server does with the connections, whatever it was asked.        *)
(***************************************************************************)
\* The server may lose what a stream sent, or take the first message away and
\* answer nothing.
NoAnswer(s) ==
    /\ \/ c2s'[s] \in {c2s[s], << >>}
       \/ c2s[s] # << >> /\ c2s'[s] = Tail(c2s[s])
    /\ s2c'[s] = s2c[s]

OneAnswer(s) ==
    /\ c2s[s] # << >> /\ c2s'[s] \in {<< >>, Tail(c2s[s])}
    /\ \E r \in Reply : s2c'[s] = Append(s2c[s], r)

\* No upload stream sends such a request.
NotAnUpload(s) ==
    \/ Asked(s).kind = "download"
    \/ Asked(s).kind = "upload" /\ ~Asked(s).overwrite

LEMMA StoreMoves ==
    ASSUME ServerOK, NEW c \in Conns, StoreUpload(c), NEW s \in Conns
    PROVE  /\ s # c => c2s'[s] = c2s[s] /\ s2c'[s] = s2c[s]
           /\ NoAnswer(c) \/ OneAnswer(c)
           /\ c2s[c] # << >> /\ c2s'[c] \in {<< >>, Tail(c2s[c])}
<1>1. /\ c2s[c] # << >> /\ SendReply(c, "success", 0)
      /\ Stop(c) \/ KeepOpen(c)
  BY DEF StoreUpload, Reads, FrameIsThere
<1>2. /\ c2s'[c] \in {<< >>, Tail(c2s[c])}
      /\ s # c => c2s'[s] = c2s[s]
  BY <1>1 DEF Stop, KeepOpen, ServerOK
<1>3. Answer("success", 0) \in Reply
  BY DEF Answer, Reply, Status
<1>4. /\ s2c'[c] = s2c[c] \/ s2c'[c] = Append(s2c[c], Answer("success", 0))
      /\ s # c => s2c'[s] = s2c[s]
  BY <1>1 DEF SendReply, ServerOK
<1> QED  BY <1>1, <1>2, <1>3, <1>4 DEF NoAnswer, OneAnswer

LEMMA AnswerMoves ==
    ASSUME ServerOK, NEW c \in Conns, AnswerToClient(c), ~StoreUpload(c), NEW s \in Conns
    PROVE  /\ files' = files
           /\ NoAnswer(s) \/ (OneAnswer(s) /\ NotAnUpload(s))
<1> USE DEF ServerOK
<1>1. CASE AnswerBroken(c)
  BY <1>1 DEF AnswerBroken, Stop, NoAnswer, diskVars
<1>2. CASE AnswerIdle(c)
  BY <1>2 DEF AnswerIdle, Stop, NoAnswer, diskVars
<1>3. CASE RejectRequest(c)
  BY <1>3 DEF RejectRequest, Stop, NoAnswer, diskVars
<1>4. CASE IgnoreUpload(c) \/ IgnoreDownload(c)
  <2>1. c2s[c] # << >> /\ KeepOpen(c) /\ UNCHANGED <<s2c, files>>
    BY <1>4 DEF IgnoreUpload, IgnoreDownload, Reads, diskVars, FrameIsThere
  <2> QED  BY <2>1 DEF KeepOpen, NoAnswer
<1>5. ASSUME NEW st \in Status, NEW n \in Nat, SendReply(c, st, n), Stop(c) \/ KeepOpen(c),
             c2s[c] # << >>, NotAnUpload(c)
      PROVE  NoAnswer(s) \/ (OneAnswer(s) /\ NotAnUpload(s))
  <2>1. Answer(st, n) \in Reply
    BY <1>5 DEF Answer, Reply
  <2>2. CASE s = c
    <3>1. c2s'[c] \in {<< >>, Tail(c2s[c])}
      BY <1>5 DEF Stop, KeepOpen
    <3>2. s2c'[c] = s2c[c] \/ s2c'[c] = Append(s2c[c], Answer(st, n))
      BY <1>5 DEF SendReply
    <3> QED  BY <1>5, <2>1, <2>2, <3>1, <3>2 DEF NoAnswer, OneAnswer
  <2>3. CASE s # c
    BY <1>5, <2>3 DEF SendReply, Stop, KeepOpen, NoAnswer
  <2> QED  BY <2>2, <2>3
<1>6. CASE RefuseUpload(c)
  <2>1. /\ c2s[c] # << >> /\ SendReply(c, "exists", 0) /\ Stop(c) /\ UNCHANGED files
        /\ Wants(c, "upload") /\ UploadMode(c) = "refuse"
    BY <1>6 DEF RefuseUpload, Reads, diskVars, FrameIsThere
  <2>2. NotAnUpload(c)
    BY <2>1 DEF NotAnUpload, Wants, UploadMode, OpenMode
  <2> QED  BY <1>5, <2>1, <2>2 DEF Status
<1>7. CASE CheckDownload(c)
  <2>1. /\ c2s[c] # << >> /\ (Stop(c) \/ KeepOpen(c))
        /\ UNCHANGED files /\ Wants(c, "download")
        /\ \/ Asked(c).path \in present /\ SendReply(c, "exists", Len(files[Asked(c).path]))
           \/ SendReply(c, "not_found", 0)
    BY <1>7 DEF CheckDownload, Reads, diskVars, FrameIsThere
  <2>2. Asked(c).path \in present => Len(files[Asked(c).path]) \in Nat
    BY LenProperties
  <2>3. NotAnUpload(c)
    BY <2>1 DEF NotAnUpload, Wants
  <2>4. "not_found" \in Status /\ "exists" \in Status /\ 0 \in Nat
    BY DEF Status
  <2>5. NoAnswer(s) \/ (OneAnswer(s) /\ NotAnUpload(s))
    BY <1>5, <2>1, <2>2, <2>3, <2>4, Zenon
  <2> QED  BY <2>1, <2>5
<1>8. CASE SendDownloadPacket(c)
  <2>1. /\ c2s[c] # << >> /\ Stop(c) /\ UNCHANGED files /\ Wants(c, "download")
        /\ \/ SendReply(c, "open_error", 0) \/ SendReply(c, "read_error", 0)
           \/ UNCHANGED s2c
    BY <1>8 DEF SendDownloadPacket, Reads, diskVars, FrameIsThere
  <2>2. NotAnUpload(c)
    BY <2>1 DEF NotAnUpload, Wants
  <2>3. CASE UNCHANGED s2c
    BY <2>1, <2>3 DEF Stop, NoAnswer
  <2> QED  BY <1>5, <2>1, <2>2, <2>3 DEF Status
<1>9. CASE DieOnMissingFile(c)
  BY <1>9 DEF DieOnMissingFile, Die, NoAnswer, diskVars
<1>10. CASE ReadRest(c)
  BY <1>10 DEF ReadRest, Stop, NoAnswer, diskVars
<1> QED  BY <1>1, <1>2, <1>3, <1>4, <1>6, <1>7, <1>8, <1>9, <1>10 DEF AnswerToClient

LEMMA ServerMoves ==
    ASSUME ServerOK, ServerNext, \A c \in Conns : ~StoreUpload(c), NEW s \in Conns
    PROVE  /\ files' = files
           /\ NoAnswer(s) \/ SplitFrame(s) \/ (OneAnswer(s) /\ NotAnUpload(s))
<1>1. CASE WakeAndLock
  BY <1>1 DEF WakeAndLock, NoAnswer, linkVars, diskVars
<1>2. CASE Restart
  BY <1>2 DEF Restart, NoAnswer, linkVars, diskVars
<1>3. CASE EraseTimedOut
  BY <1>3 DEF EraseTimedOut, NoAnswer, diskVars
<1>4. CASE Crash
  BY <1>4 DEF Crash, Die, NoAnswer, diskVars
<1>5. ASSUME NEW c \in Conns, AnswerToClient(c)
      PROVE  /\ files' = files
             /\ NoAnswer(s) \/ (OneAnswer(s) /\ NotAnUpload(s))
  BY <1>5, AnswerMoves
<1>6. ASSUME NEW c \in Conns, AcceptThread(c) \/ PassTime(c)
      PROVE  files' = files /\ NoAnswer(s)
  BY <1>6 DEF AcceptThread, PassTime, NoAnswer, linkVars, diskVars
<1>7. ASSUME NEW c \in Conns, CutLink(c)
      PROVE  files' = files /\ NoAnswer(s)
  BY <1>7 DEF CutLink, Cut, NoAnswer, serverVars, diskVars, ServerOK
<1>8. ASSUME NEW c \in Conns, SplitFrame(c)
      PROVE  files' = files /\ (NoAnswer(s) \/ SplitFrame(s))
  BY <1>8, SplitFacts DEF NoAnswer
<1> QED  BY <1>1, <1>2, <1>3, <1>4, <1>5, <1>6, <1>7, <1>8
      DEF ServerNext, HandleClientsThread, Environment

\* Stop and wait on one connection: a message or its answer, not both.
OneAtATime(s) ==
    /\ c2s[s] # << >> => s2c[s] = << >> /\ Tail(c2s[s]) = << >>
    /\ s2c[s] # << >> => Tail(s2c[s]) = << >>

Unused(s) == c2s[s] = << >> /\ s2c[s] = << >>

LEMMA OneAtATimeCounts ==
    ASSUME ServerOK, NEW s \in Conns, OneAtATime(s)
    PROVE  Len(c2s[s]) + Len(s2c[s]) <= 1
<1>1. c2s[s] \in Seq(Request) /\ s2c[s] \in Seq(Reply)
  BY DEF ServerOK
<1>2. /\ c2s[s] = << >> => Len(c2s[s]) = 0
      /\ c2s[s] # << >> /\ Tail(c2s[s]) = << >> => Len(c2s[s]) = 1
      /\ s2c[s] = << >> => Len(s2c[s]) = 0
      /\ s2c[s] # << >> /\ Tail(s2c[s]) = << >> => Len(s2c[s]) = 1
  BY <1>1, OneOrEmpty
<1>3. \/ Len(c2s[s]) = 0 /\ Len(s2c[s]) = 0
      \/ Len(c2s[s]) = 1 /\ Len(s2c[s]) = 0
      \/ Len(c2s[s]) = 0 /\ Len(s2c[s]) = 1
  BY <1>2, Zenon DEF OneAtATime
<1> DEFINE m == Len(c2s[s])
           n == Len(s2c[s])
<1>4. (m = 0 /\ n = 0) \/ (m = 1 /\ n = 0) \/ (m = 0 /\ n = 1)
  BY <1>3
<1> HIDE DEF m, n
<1>5. m + n <= 1
  BY <1>4
<1> QED  BY <1>5 DEF m, n

\* An answer takes the place of the message it answers.
LEMMA ServerOneAtATime ==
    ASSUME ServerOK, ServerNext, NEW s \in Conns, OneAtATime(s)
    PROVE  /\ OneAtATime(s)'
           /\ Unused(s) => Unused(s)'
<1>1. CASE NoAnswer(s)
  BY <1>1 DEF NoAnswer, OneAtATime, Unused
<1>2. CASE OneAnswer(s)
  <2>1. c2s[s] # << >> /\ s2c[s] = << >> /\ c2s'[s] = << >>
    BY <1>2 DEF OneAnswer, OneAtATime
  <2>2. PICK r \in Reply : s2c'[s] = Append(s2c[s], r)
    BY <1>2 DEF OneAnswer
  <2>3. s2c'[s] # << >> /\ Tail(s2c'[s]) = << >>
    BY <2>1, <2>2, AppendToEmpty
  <2> QED  BY <2>1, <2>3 DEF OneAtATime, Unused
<1>3. CASE \E c \in Conns : StoreUpload(c)
  <2>1. PICK c \in Conns : StoreUpload(c)
    BY <1>3
  <2>2. CASE s # c
    BY <2>1, <2>2, StoreMoves DEF OneAtATime, Unused
  <2>3. CASE s = c
    BY <1>1, <1>2, <2>1, <2>3, StoreMoves
  <2> QED  BY <2>2, <2>3
<1>4. CASE \A c \in Conns : ~StoreUpload(c)
  <2>1. CASE SplitFrame(s)
    BY <2>1, SplitFacts DEF OneAtATime, Unused
  <2> QED  BY <1>1, <1>2, <1>4, <2>1, ServerMoves
<1> QED  BY <1>3, <1>4

\* The reader of a session moves only when it takes a frame, or a part of one, and
\* only a frame it takes is answered.
LEMMA ReaderMoves ==
    ASSUME ServerOK, ServerNext, NEW s \in Conns
    PROVE  \/ SplitFrame(s)
           \/ Reads(s)
           \/ /\ buffer'[s] = buffer[s] /\ torn'[s] = torn[s] /\ mixed'[s] = mixed[s]
              /\ s2c'[s] = s2c[s]
<1> DEFINE Rest == /\ buffer'[s] = buffer[s] /\ torn'[s] = torn[s] /\ mixed'[s] = mixed[s]
                   /\ s2c'[s] = s2c[s]
<1>1. CASE WakeAndLock \/ EraseTimedOut \/ Restart
  BY <1>1 DEF WakeAndLock, EraseTimedOut, Restart, readerVars, linkVars
<1>2. CASE Crash \/ \E c \in Conns : DieOnMissingFile(c)
  BY <1>2 DEF Crash, DieOnMissingFile, Die, readerVars
<1>3. ASSUME NEW c \in Conns, AcceptThread(c) \/ PassTime(c) \/ CutLink(c)
      PROVE  Rest
  BY <1>3 DEF AcceptThread, PassTime, CutLink, Cut, serverVars, readerVars, linkVars
<1>4. ASSUME NEW c \in Conns, SplitFrame(c)
      PROVE  SplitFrame(s) \/ Rest
  BY <1>4, SplitFacts
<1>5. ASSUME NEW c \in Conns, Reads(c), \/ UNCHANGED s2c
                                        \/ \E st, n : SendReply(c, st, n)
      PROVE  Reads(s) \/ Rest
  BY <1>5 DEF Reads, SendReply, ServerOK
<1>6. ASSUME NEW c \in Conns, AnswerBroken(c) \/ AnswerIdle(c) \/ ReadRest(c)
      PROVE  Rest
  BY <1>6 DEF AnswerBroken, AnswerIdle, ReadRest, readerVars
<1>7. ASSUME NEW c \in Conns, AnswerToClient(c), ~DieOnMissingFile(c)
      PROVE  Reads(s) \/ Rest
  <2>1. \/ AnswerBroken(c) \/ AnswerIdle(c) \/ ReadRest(c)
        \/ Reads(c) /\ (UNCHANGED s2c \/ \E st, n : SendReply(c, st, n))
    BY <1>7 DEF AnswerToClient, RejectRequest, StoreUpload, RefuseUpload, IgnoreUpload,
                CheckDownload, SendDownloadPacket, IgnoreDownload
  <2> QED  BY <1>5, <1>6, <2>1
<1> QED  BY <1>1, <1>2, <1>3, <1>4, <1>7 DEF ServerNext, HandleClientsThread, Environment

-----------------------------------------------------------------------------
(***************************************************************************)
(* The list of sessions.                                                   *)
(***************************************************************************)
\* c is the session at position i, and at no other.
NoneTwice == \A i, j \in DOMAIN clients : clients[i] = clients[j] => i = j

ListOK ==
    /\ clients \in Seq(Conns)
    /\ cursor \in 0..Len(clients) + 1
    /\ NoneTwice
    /\ \A c \in Conns : sock[c] = "open" => \E i \in DOMAIN clients : clients[i] = c
    /\ \A i \in DOMAIN clients : sock[clients[i]] \in {"open", "closed"}

\* Erasing keeps the other sessions, all of them and each once.
LEMMA EraseFacts ==
    ASSUME ListOK, NEW gone, Erase(gone)
    PROVE  /\ clients' \in Seq(Conns) /\ NoneTwice'
           /\ \A i \in DOMAIN clients' :
                \E j \in DOMAIN clients : clients'[i] = clients[j] /\ clients[j] \notin gone
           /\ \A j \in DOMAIN clients :
                clients[j] \notin gone => \E i \in DOMAIN clients' : clients'[i] = clients[j]
<1> DEFINE stay == {i \in DOMAIN clients : clients[i] \notin gone}
           n == Cardinality(stay)
<1>1. /\ clients \in Seq(Conns) /\ Len(clients) \in Nat /\ DOMAIN clients = 1..Len(clients)
      /\ \A i \in DOMAIN clients : clients[i] \in Conns
  BY LenProperties, ElementOfSeq DEF ListOK
<1>2. IsFiniteSet(stay) /\ n \in Nat
  <2>1. IsFiniteSet(1..Len(clients))
    BY <1>1, FS_Interval
  <2>2. stay \subseteq 1..Len(clients)
    BY <1>1
  <2> HIDE DEF stay
  <2>3. IsFiniteSet(stay)
    BY <2>1, <2>2, FS_Subset
  <2> QED  BY <2>3, FS_CardinalityType
<1>3. PICK at \in SetToSeqs(stay) : clients' = [i \in DOMAIN at |-> clients[at[i]]]
  BY DEF Erase
<1>4. at \in [1..n -> stay] /\ \A i, j \in 1..n : i # j => at[i] # at[j]
  BY <1>3 DEF SetToSeqs
<1>5. \A j \in stay : \E i \in 1..n : at[i] = j
  <2> HIDE DEF stay, n
  <2>1. at \in Injection(1..n, stay)
    BY <1>4 DEF Injection, IsInjective
  <2>2. Cardinality(1..n) = n
    BY <1>2, FS_Interval
  <2>3. at \in Surjection(1..n, stay)
    BY <1>2, <2>1, <2>2, FS_Injection DEF n
  <2> QED  BY <2>3 DEF Surjection
<1>6. /\ DOMAIN clients' = 1..n
      /\ \A i \in 1..n : clients'[i] = clients[at[i]] /\ at[i] \in stay /\ clients[at[i]] \in Conns
  BY <1>1, <1>3, <1>4
<1>7. clients' \in Seq(Conns)
  <2>1. clients' = [i \in 1..n |-> clients'[i]]
    BY <1>3, <1>4
  <2>2. clients' \in [1..n -> Conns]
    BY <1>6, <2>1
  <2> HIDE DEF n
  <2> QED  BY <1>2, <2>2
<1>8. NoneTwice'
  <2> SUFFICES ASSUME NEW i \in 1..n, NEW j \in 1..n, clients'[i] = clients'[j] PROVE i = j
    BY <1>6 DEF NoneTwice
  <2>1. at[i] = at[j]
    BY <1>6 DEF ListOK, NoneTwice
  <2> QED  BY <1>4, <2>1
<1> QED  BY <1>5, <1>6, <1>7, <1>8

LEMMA StopFacts ==
    ASSUME ServerOK, NEW c \in Conns, Stop(c) \/ UNCHANGED sock, NEW d \in Conns
    PROVE  sock'[d] = sock[d] \/ (d = c /\ sock'[d] = "closed")
BY DEF Stop, ServerOK

\* The session at the cursor is answered and may close; the list stays.
LEMMA AnswerList ==
    ASSUME ServerOK, ListOK, NEW c \in Conns, AnswerToClient(c)
    PROVE  /\ ListOK'
           /\ up' => clients' = clients
           /\ \A d \in Conns : sock[d] = "none" => sock'[d] = "none"
<1>1. CASE DieOnMissingFile(c)
  <2>1. clients' = << >> /\ cursor' = 0 /\ ~up'
        /\ sock' = [d \in Conns |-> IF sock[d] = "none" THEN "none" ELSE "closed"]
    BY <1>1 DEF DieOnMissingFile, Die
  <2> QED  BY <2>1, EmptySeq DEF ListOK, NoneTwice
<1>2. CASE ~DieOnMissingFile(c)
  <2>1. /\ cursor \in 1..Len(clients) /\ clients[cursor] = c /\ cursor' = cursor + 1
        /\ clients' = clients /\ (Stop(c) \/ UNCHANGED sock)
    BY <1>2 DEF AnswerToClient, AnswerBroken, AnswerIdle, RejectRequest, StoreUpload,
                RefuseUpload, IgnoreUpload, CheckDownload, SendDownloadPacket, IgnoreDownload,
                Reads, KeepOpen, AtCursor, FrameIsThere, Stamp, ReadRest
  <2>2. Len(clients) \in Nat /\ DOMAIN clients = 1..Len(clients)
        /\ \A i \in DOMAIN clients : clients[i] \in Conns
    BY LenProperties, ElementOfSeq DEF ListOK
  <2>3. sock[c] \in {"open", "closed"}
    BY <2>1, <2>2 DEF ListOK
  <2>4. \A d \in Conns : sock'[d] = sock[d] \/ (d = c /\ sock'[d] = "closed")
    BY <2>1, StopFacts
  <2>5. \A d \in Conns : sock'[d] = "open" => sock[d] = "open"
    BY <2>4
  <2>6. \A d \in Conns : sock[d] \in {"open", "closed"} => sock'[d] \in {"open", "closed"}
    BY <2>4
  <2>7. cursor' \in 0..Len(clients') + 1
    BY <2>1, <2>2
  <2> QED  BY <2>1, <2>2, <2>3, <2>4, <2>5, <2>6, <2>7 DEF ListOK, NoneTwice
<1> QED  BY <1>1, <1>2

\* Whatever the server does, the list holds the accepted connections, each once;
\* a pass over it changes it only at its end; what was never connected stays so.
LEMMA ServerList ==
    ASSUME ServerOK, ListOK, ServerNext
    PROVE  /\ ListOK'
           /\ cursor \in 1..Len(clients) /\ up' => clients' = clients
           /\ \A d \in Conns : sock[d] = "none" => sock'[d] = "none"
<1>0. Len(clients) \in Nat /\ DOMAIN clients = 1..Len(clients)
      /\ \A i \in DOMAIN clients : clients[i] \in Conns
  BY LenProperties, ElementOfSeq DEF ListOK
<1>1. CASE WakeAndLock
  <2>1. UNCHANGED <<clients, sock>> /\ cursor' = 1
    BY <1>1 DEF WakeAndLock, linkVars
  <2>2. cursor' \in 0..Len(clients') + 1
    BY <1>0, <2>1
  <2> QED  BY <2>1, <2>2 DEF ListOK, NoneTwice
<1>2. CASE Restart
  BY <1>2 DEF Restart, ListOK, NoneTwice, linkVars
<1>3. CASE EraseTimedOut
  <2> DEFINE gone == {c \in ToSet(clients) : TimedOut(c)}
  <2>1. /\ Erase(gone) /\ cursor = Len(clients) + 1 /\ cursor' = 0
        /\ sock' = [c \in Conns |-> IF c \in gone THEN "closed" ELSE sock[c]]
    BY <1>3 DEF EraseTimedOut
  <2>2. \A c \in gone : \E i \in DOMAIN clients : clients[i] = c
    BY DEF ToSet
  <2> HIDE DEF gone
  <2>3. /\ clients' \in Seq(Conns) /\ NoneTwice'
        /\ \A i \in DOMAIN clients' :
             \E j \in DOMAIN clients : clients'[i] = clients[j] /\ clients[j] \notin gone
        /\ \A j \in DOMAIN clients :
             clients[j] \notin gone => \E i \in DOMAIN clients' : clients'[i] = clients[j]
    BY <2>1, EraseFacts
  <2>4. cursor' \in 0..Len(clients') + 1
    BY <2>1, <2>3, LenProperties
  <2>5. ASSUME NEW c \in Conns, sock'[c] = "open"
        PROVE  \E i \in DOMAIN clients' : clients'[i] = c
    <3>1. c \notin gone /\ sock[c] = "open"
      BY <2>1, <2>5
    <3>2. PICK j \in DOMAIN clients : clients[j] = c
      BY <3>1 DEF ListOK
    <3> QED  BY <2>3, <3>1, <3>2
  <2>6. ASSUME NEW i \in DOMAIN clients'
        PROVE  sock'[clients'[i]] \in {"open", "closed"}
    <3>1. PICK j \in DOMAIN clients : clients'[i] = clients[j] /\ clients[j] \notin gone
      BY <2>3
    <3> QED  BY <1>0, <2>1, <3>1 DEF ListOK
  <2>7. ASSUME NEW d \in Conns, sock[d] = "none" PROVE sock'[d] = "none"
    <3>1. d \notin gone
      BY <2>2, <2>7 DEF ListOK
    <3> QED  BY <2>1, <2>7, <3>1
  <2>8. cursor \notin 1..Len(clients)
    BY <1>0, <2>1
  <2> QED  BY <2>3, <2>4, <2>5, <2>6, <2>7, <2>8 DEF ListOK
<1>4. CASE Crash
  <2>1. clients' = << >> /\ cursor' = 0 /\ ~up'
        /\ sock' = [d \in Conns |-> IF sock[d] = "none" THEN "none" ELSE "closed"]
    BY <1>4 DEF Crash, Die
  <2> QED  BY <2>1, EmptySeq DEF ListOK, NoneTwice
<1>5. ASSUME NEW c \in Conns, AnswerToClient(c)
      PROVE  /\ ListOK'
             /\ up' => clients' = clients
             /\ \A d \in Conns : sock[d] = "none" => sock'[d] = "none"
  BY <1>5, AnswerList
<1>6. ASSUME NEW c \in Conns, AcceptThread(c)
      PROVE  /\ ListOK' /\ cursor = 0
             /\ \A d \in Conns : sock[d] = "none" => sock'[d] = "none"
  <2>1. /\ cursor = 0 /\ cursor' = 0 /\ sock[c] = "backlog"
        /\ sock' = [sock EXCEPT ![c] = "open"] /\ clients' = Append(clients, c)
    BY <1>6 DEF AcceptThread
  <2>2. sock \in [Conns -> {"none", "backlog", "open", "closed"}]
    BY DEF ServerOK
  <2> DEFINE n == Len(clients)
  <2>3. /\ clients' \in Seq(Conns) /\ DOMAIN clients' = 1..n + 1
        /\ clients'[n + 1] = c /\ \A i \in 1..n : clients'[i] = clients[i]
        /\ Len(clients') = n + 1
    BY <2>1, AppendProperties, LenProperties DEF ListOK
  <2>4. \A i \in 1..n : clients[i] # c
    BY <1>0, <2>1 DEF ListOK
  <2>5. n \in Nat /\ DOMAIN clients = 1..n
    BY <1>0
  <2> HIDE DEF n
  <2>6. cursor' \in 0..Len(clients') + 1
    BY <2>1, <2>3, <2>5
  <2>7. \A i \in 1..n + 1 : i \in 1..n \/ i = n + 1
    BY <2>5
  <2>8. NoneTwice'
    BY <2>3, <2>4, <2>5, <2>7 DEF NoneTwice, ListOK
  <2>9. ASSUME NEW d \in Conns, sock'[d] = "open"
        PROVE  \E i \in DOMAIN clients' : clients'[i] = d
    <3>1. CASE d = c
      BY <2>3, <2>5, <3>1
    <3>2. CASE d # c
      <4>1. sock[d] = "open"
        BY <2>1, <2>2, <2>9, <3>2
      <4>2. PICK i \in 1..n : clients[i] = d
        BY <2>5, <4>1 DEF ListOK
      <4>3. i \in 1..n + 1
        BY <2>5
      <4> QED  BY <2>3, <4>2, <4>3
    <3> QED  BY <3>1, <3>2
  <2>10. ASSUME NEW i \in DOMAIN clients'
         PROVE  sock'[clients'[i]] \in {"open", "closed"}
    <3>1. CASE i \in 1..n
      BY <1>0, <2>1, <2>2, <2>3, <2>4, <2>5, <3>1 DEF ListOK
    <3>2. CASE i = n + 1
      BY <2>1, <2>2, <2>3, <3>2
    <3> QED  BY <2>3, <2>7, <3>1, <3>2
  <2> QED  BY <2>1, <2>2, <2>3, <2>6, <2>8, <2>9, <2>10 DEF ListOK
<1>7. ASSUME NEW c \in Conns, PassTime(c) \/ CutLink(c) \/ SplitFrame(c)
      PROVE  UNCHANGED <<clients, cursor, sock>>
  BY <1>7 DEF PassTime, CutLink, Cut, linkVars, serverVars, SplitFrame
<1>8. CASE UNCHANGED <<clients, cursor, sock>>
  BY <1>8 DEF ListOK, NoneTwice
<1>9. cursor = 0 => cursor \notin 1..Len(clients)
  BY <1>0
<1>10. CASE \E c \in Conns : AnswerToClient(c)
  BY <1>5, <1>10
<1>11. CASE \E c \in Conns : AcceptThread(c)
  BY <1>6, <1>9, <1>11
<1>12. WakeAndLock \/ Restart => clients' = clients
  BY DEF WakeAndLock, Restart
<1> QED  BY <1>1, <1>2, <1>3, <1>4, <1>7, <1>8, <1>10, <1>11, <1>12
      DEF ServerNext, HandleClientsThread, Environment

\* A client that connects, asks or reads leaves the list as it is.
LEMMA ListKept ==
    ASSUME ServerOK, ListOK, UNCHANGED <<clients, cursor>>,
           \A c \in Conns : sock'[c] = sock[c] \/ (sock[c] = "none" /\ sock'[c] = "backlog")
    PROVE  ListOK'
<1>1. \A i \in DOMAIN clients : clients[i] \in Conns
  BY LenProperties, ElementOfSeq DEF ListOK
<1>2. \A c \in Conns : /\ sock[c] \in {"open", "closed"} => sock'[c] \in {"open", "closed"}
                      /\ sock'[c] = "open" => sock[c] = "open"
  OBVIOUS
<1> QED  BY <1>1, <1>2 DEF ListOK, NoneTwice

-----------------------------------------------------------------------------
(***************************************************************************)
(* Who waits for the server.  Beside the list this needs that a server that *)
(* is down has left no connection behind.                                  *)
(***************************************************************************)
Down == ~up => \A c \in Conns : sock[c] \in {"none", "closed"}

LEMMA ServerDown ==
    ASSUME ServerOK, Down, ServerNext
    PROVE  Down'
<1>1. CASE Crash \/ \E c \in Conns : DieOnMissingFile(c)
  BY <1>1 DEF Crash, DieOnMissingFile, Die, Down
<1>2. CASE Restart \/ WakeAndLock \/ EraseTimedOut
  BY <1>2 DEF Restart, WakeAndLock, EraseTimedOut, Down
<1>3. CASE \E c \in Conns : AcceptThread(c)
  BY <1>3 DEF AcceptThread, Down
<1>4. CASE \E c \in Conns : PassTime(c) \/ CutLink(c) \/ SplitFrame(c)
  BY <1>4 DEF PassTime, CutLink, Cut, Down, linkVars, serverVars, SplitFrame
<1>5. ASSUME NEW c \in Conns, AnswerToClient(c), ~DieOnMissingFile(c)
      PROVE  Down'
  <2>1. up /\ up' = up
    BY <1>5 DEF AnswerToClient, AnswerBroken, AnswerIdle, RejectRequest, StoreUpload,
                RefuseUpload, IgnoreUpload, CheckDownload, SendDownloadPacket, IgnoreDownload,
                Reads, AtCursor, FrameIsThere, Stamp, ReadRest
  <2> QED  BY <2>1 DEF Down
<1> QED  BY <1>1, <1>2, <1>3, <1>4, <1>5 DEF ServerNext, HandleClientsThread, Environment

LEMMA ConnectionsStay ==
    ASSUME ServerOK, ServerNext, NEW c \in Conns, sock[c] # "none"
    PROVE  sock'[c] # "none"
BY DEF ServerOK, ServerNext, HandleClientsThread, Environment, WakeAndLock, EraseTimedOut,
       AnswerToClient, AnswerBroken, AnswerIdle, RejectRequest, StoreUpload, RefuseUpload,
       IgnoreUpload, CheckDownload, SendDownloadPacket, IgnoreDownload, DieOnMissingFile, Die,
       Crash, Restart, PassTime, CutLink, Cut, AcceptThread, Stop, KeepOpen, linkVars, ReadRest,
       SplitFrame

LEMMA HeldOrBroken ==
    ASSUME ServerOK, ListOK, Down
    PROVE  NobodyIsForgotten
<1> SUFFICES ASSUME NEW c \in Conns, sock[c] # "none", sock[c] # "closed"
             PROVE  Held(c)
  BY DEF NobodyIsForgotten, Broken
<1>1. up /\ sock[c] \in {"backlog", "open"}
  BY DEF ServerOK, Down
<1>2. sock[c] = "open" => c \in ToSet(clients)
  BY DEF ListOK, ToSet
<1> QED  BY <1>1, <1>2 DEF Held
====
