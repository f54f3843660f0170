---- MODULE SecftUpload_proofs ----
(***************************************************************************)
(* Proofs about uploads, for every number of streams, every file, every    *)
(* buffer size and every schedule.                                         *)
(***************************************************************************)
EXTENDS SecftUpload, SecftServer_proofs

-----------------------------------------------------------------------------
(***************************************************************************)
(* Sequences: the one-place channels and the chunks of a file.             *)
(***************************************************************************)
\* get_packet's read returns the file's bytes from the offset on, at most a
\* buffer full; a file that is no longer than the offset gives nothing.
LEMMA NextChunkIsSlice ==
    ASSUME NEW content \in Seq(Bytes), NEW n \in 0..Len(content), NEW k \in 0..Len(content)
    PROVE  LET d == NextChunk(SubSeq(content, 1, n), k) IN
           /\ d \in Seq(Bytes)
           /\ Len(d) \in 0..BufferSize
           /\ k + Len(d) \in k..Len(content)
           /\ d = SubSeq(content, k + 1, k + Len(d))
<1> DEFINE c == SubSeq(content, 1, n)
           d == NextChunk(c, k)
           e == IF n < k + BufferSize THEN n ELSE k + BufferSize
<1>1. c \in Seq(Bytes) /\ Len(c) = n /\ \A i \in 1..n : c[i] = content[i]
  BY PrefixFacts
<1>2. BufferSize \in Nat \ {0} /\ Len(content) \in Nat
  BY BufferSizeAssumption, LenProperties
<1>3. d = SubSeq(c, k + 1, e)
  BY <1>1 DEF NextChunk
<1>4. e \in Nat /\ e <= n /\ e - k <= BufferSize
  BY <1>2
<1> HIDE DEF c, d, e
<1>5. CASE e <= k
  <2>1. d = << >> /\ SubSeq(content, k + 1, k) = << >>
    BY <1>2, <1>3, <1>4, <1>5, SubSeqEmpty
  <2>2. d \in Seq(Bytes) /\ Len(d) = 0
    BY <2>1, EmptySeq
  <2> QED  BY <1>2, <2>1, <2>2 DEF c, d
<1>6. CASE e > k
  <2>1. \A i \in k + 1 .. e : c[i] = content[i] /\ c[i] \in Bytes
    <3>1. \A i \in 1..Len(c) : c[i] \in Bytes
      BY <1>1, ElementOfSeq
    <3> QED  BY <1>1, <1>2, <1>4, <3>1
  <2>2. d \in Seq(Bytes) /\ Len(d) = e - k /\ \A i \in 1..e - k : d[i] = c[k + 1 + i - 1]
    BY <1>2, <1>3, <1>4, <1>6, <2>1, SubSeqProperties
  <2> DEFINE f == SubSeq(content, k + 1, e)
  <2>3. f \in Seq(Bytes) /\ Len(f) = e - k /\ \A i \in 1..e - k : f[i] = content[k + 1 + i - 1]
    BY <1>2, <1>4, <1>6, <2>1, SubSeqProperties
  <2> HIDE DEF f
  <2>4. ASSUME NEW i \in 1..Len(d)
        PROVE  d[i] = f[i]
    <3>1. i \in 1..e - k /\ k + 1 + i - 1 \in k + 1 .. e
      BY <1>2, <1>4, <1>6, <2>2
    <3> QED  BY <2>1, <2>2, <2>3, <3>1
  <2>5. d = f
    BY <2>2, <2>3, <2>4, SeqEqual
  <2>6. e = k + Len(d)
    BY <1>2, <1>4, <2>2
  <2> QED  BY <1>2, <1>4, <1>6, <2>2, <2>5, <2>6 DEF c, d, f
<1> QED  BY <1>2, <1>4, <1>5, <1>6

-----------------------------------------------------------------------------
(***************************************************************************)
(* Types.  What a stream has read never exceeds its file.                   *)
(***************************************************************************)
\* Steps of the application beside its streams, and none at all: nothing changes
\* but the handler, the process and the connections that end with it.
Still == UNCHANGED <<sock, c2s, s2c, serverVars, status, offset, pc, local, reported, notices,
                     asked, overtaken>>
AppStep == HandleProcessEvent \/ Unhandled

LEMMA StillSteps ==
    ASSUME AppStep \/ UNCHANGED uploadVars
    PROVE  Still
BY DEF AppStep, Still, HandleProcessEvent, Unhandled, uploadVars, linkVars, cellVars, appVars

InFile == \A s \in Conns : offset[s] <= Len(Content[s])
TypeInv == TypeOK /\ InFile

\* The packet get_packet makes: bytes of the file from the offset on, for the
\* stream's own path, with overwrite set; "first" only at the beginning, and at
\* the beginning nothing but "first" or, for one packet in all, "last".
LEMMA PacketFacts ==
    ASSUME TypeInv, NEW s \in Conns
    PROVE  /\ ReadBytes(s) \in Seq(Bytes)
           /\ Len(ReadBytes(s)) \in Nat
           /\ Len(ReadBytes(s)) <= BufferSize
           /\ offset[s] + Len(ReadBytes(s)) <= Len(Content[s])
           /\ ReadBytes(s) = SubSeq(Content[s], offset[s] + 1, offset[s] + Len(ReadBytes(s)))
<1>1. /\ offset[s] \in 0..Len(Content[s]) /\ Len(Content[s]) \in Nat
      /\ Content[s] \in Seq(Bytes)
      /\ local[s] \in {Missing} \cup 0..Len(Content[s])
  BY StreamsAssumption, LenProperties DEF TypeInv, TypeOK, CellsOK, InFile
<1>2. BufferSize \in Nat
  BY BufferSizeAssumption
<1>3. CASE local[s] = Missing
  <2>1. ReadBytes(s) = << >> /\ SubSeq(Content[s], offset[s] + 1, offset[s]) = << >>
    BY <1>1, <1>3, SubSeqEmpty DEF ReadBytes
  <2> QED  BY <1>1, <1>2, <2>1, EmptySeq
<1>4. CASE local[s] # Missing
  <2>1. ReadBytes(s) = NextChunk(SubSeq(Content[s], 1, local[s]), offset[s])
    BY <1>4 DEF ReadBytes
  <2>2. local[s] \in 0..Len(Content[s])
    BY <1>1, <1>4
  <2> DEFINE d == NextChunk(SubSeq(Content[s], 1, local[s]), offset[s])
  <2>3. /\ d \in Seq(Bytes) /\ Len(d) \in 0..BufferSize
        /\ offset[s] + Len(d) \in offset[s]..Len(Content[s])
        /\ d = SubSeq(Content[s], offset[s] + 1, offset[s] + Len(d))
    BY <1>1, <2>2, NextChunkIsSlice
  <2> HIDE DEF d
  <2>4. /\ Len(d) \in Nat /\ Len(d) <= BufferSize
        /\ offset[s] + Len(d) <= Len(Content[s])
    BY <1>1, <1>2, <2>3
  <2> QED  BY <2>1, <2>3, <2>4 DEF d
<1> QED  BY <1>3, <1>4

\* The bytes of a stream's file.
FromFile(s) == {Content[s][i] : i \in 1..Len(Content[s])}

LEMMA BytesAreOfFile ==
    ASSUME TypeInv, NEW s \in Conns
    PROVE  ReadBytes(s) \in Seq(FromFile(s))
<1> DEFINE n == offset[s]
           m == offset[s] + Len(ReadBytes(s))
<1>1. /\ n \in Nat /\ m \in Nat /\ n <= m /\ m <= Len(Content[s])
      /\ Content[s] \in Seq(Bytes) /\ Len(Content[s]) \in Nat
      /\ ReadBytes(s) = SubSeq(Content[s], n + 1, m)
  BY PacketFacts, StreamsAssumption, LenProperties DEF TypeInv, TypeOK, CellsOK
<1> HIDE DEF n, m
<1>2. CASE n = m
  BY <1>1, <1>2, SubSeqEmpty, EmptySeq
<1>3. CASE n < m
  <2>1. \A i \in n + 1 .. m : Content[s][i] \in FromFile(s)
    BY <1>1 DEF FromFile
  <2> QED  BY <1>1, <1>3, <2>1, SubSeqProperties
<1> QED  BY <1>1, <1>2, <1>3

LEMMA RequestFacts ==
    ASSUME TypeInv, NEW s \in Conns
    PROVE  LET m == GetPacket(s) IN
           /\ m \in Request
           /\ m.path = Path[s]
           /\ m.kind \in {"upload", "blank"}
           /\ m.kind = "upload" =>
                /\ m.overwrite
                /\ m.data = ReadBytes(s)
                /\ m.flags = "first" => offset[s] = 0
                /\ m.flags \in {"packet", "last"} /\ offset[s] = 0 => Size[s] <= BufferSize
           /\ m.data \in Seq(FromFile(s))
           /\ offset[s] < Size[s] =>
                (m.flags = "last" <=> offset[s] + Len(ReadBytes(s)) = Size[s])
<1> DEFINE len == Len(ReadBytes(s))
<1>1. /\ ReadBytes(s) \in Seq(Bytes) /\ len \in Nat /\ len <= BufferSize
      /\ offset[s] \in Nat /\ Size[s] \in Nat /\ Path[s] \in Paths
  BY PacketFacts, StreamsAssumption DEF TypeInv, TypeOK, CellsOK
<1>0. ReadBytes(s) \in Seq(FromFile(s))
  BY BytesAreOfFile
<1>2. CASE local[s] = Missing
  <2>1. GetPacket(s) = BlankRequest(s \in Trusted, Path[s]) /\ Len(ReadBytes(s)) = 0
    BY <1>2, EmptySeq DEF GetPacket, ReadBytes
  <2> QED  BY <1>1, <2>1, EmptySeq DEF BlankRequest, Request, Flags
<1>3. CASE local[s] # Missing
  <2> DEFINE f == PacketFlags(offset[s] + len, len, Size[s])
  <2>1. GetPacket(s) = UploadRequest(s \in Trusted, Path[s], f, ReadBytes(s))
    BY <1>3 DEF GetPacket
  <2>2. /\ f \in Flags
        /\ f = "first" => offset[s] = 0
        /\ f \in {"packet", "last"} /\ offset[s] = 0 => Size[s] <= BufferSize
        /\ f = "last" <=> offset[s] + len = Size[s]
    <3> HIDE DEF len
    <3> QED  BY <1>1, BufferSizeAssumption DEF PacketFlags, Flags, len
  <2>3. f = "last" <=> offset[s] + Len(ReadBytes(s)) = Size[s]
    BY <2>2
  <2> HIDE DEF f, len
  <2> QED  BY <1>0, <1>1, <2>1, <2>2, <2>3 DEF UploadRequest, Request
<1> QED  BY <1>2, <1>3

LEMMA InitType == Init => TypeInv
<1> SUFFICES ASSUME Init PROVE TypeInv
  OBVIOUS
<1>1. CellsOK
  <2>1. \A s \in Conns : local[s] \in {Missing} \cup 0..Len(Content[s])
    BY StreamsAssumption DEF Init
  <2>2. handled \in BOOLEAN
    BY DEF Init
  <2> QED  BY <2>1, <2>2, StreamsAssumption DEF Init, CellsOK, StatusValues, Places
<1>2. ServerOK
  <2>1. files \in [Paths -> Seq(Bytes)]
    BY DiskAssumption, EmptySeq DEF Init, ServerInit
  <2>2. present \subseteq Paths
    BY DiskAssumption DEF Init, ServerInit
  <2> QED  BY <2>1, <2>2, EmptySeq DEF Init, ServerInit, LinkInit, SessionsInit, ServerOK
<1>3. InFile
  BY StreamsAssumption, LenProperties DEF Init, InFile
<1> QED  BY <1>1, <1>2, <1>3 DEF TypeInv, TypeOK

(***************************************************************************)
(* The client's steps.                                                     *)
(***************************************************************************)
LEMMA AdvanceType ==
    ASSUME TypeInv, NEW s \in Conns, Advance(s)
    PROVE  /\ offset' \in [Conns -> Nat]
           /\ InFile'
<1> DEFINE n == offset[s] + Len(ReadBytes(s))
<1>1. offset \in [Conns -> Nat] /\ n \in Nat /\ n <= Len(Content[s])
  BY PacketFacts DEF TypeInv, TypeOK, CellsOK
<1>2. offset' = [offset EXCEPT ![s] = n]
  BY DEF Advance
<1> HIDE DEF n
<1> QED  BY <1>1, <1>2 DEF TypeInv, InFile

LEMMA ClientType ==
    ASSUME TypeInv, NEW s \in Conns, Scheduler(s) \/ Upload(s) \/ Cancel(s) \/ LocalFileChanges(s)
    PROVE  TypeInv'
<1> USE DEF TypeInv, TypeOK, InFile
<1>1. CASE Pick(s)
  BY <1>1 DEF Pick, Goto, CellsOK, appVars, ServerOK, linkVars, serverVars, diskVars, Places, readerVars
<1>2. CASE Launch(s)
  BY <1>2 DEF Launch, Goto, SetStatus, CellsOK, appVars, ServerOK, linkVars, serverVars, diskVars, Places,
              StatusValues, readerVars
<1>3. CASE ConnectOk(s)
  BY <1>3 DEF ConnectOk, Connect, Goto, CellsOK, appVars, ServerOK, serverVars, diskVars, Places,
              readerVars
<1>4. CASE ConnectFails(s)
  BY <1>4 DEF ConnectFails, Goto, CellsOK, appVars, ServerOK, linkVars, serverVars, diskVars, Places,
              readerVars
<1>5. CASE TestLoop(s)
  BY <1>5 DEF TestLoop, Goto, CellsOK, appVars, ServerOK, linkVars, serverVars, diskVars, Places,
              readerVars
<1>6. CASE MarkUploading(s)
  BY <1>6 DEF MarkUploading, Goto, SetStatus, CellsOK, appVars, ServerOK, linkVars, serverVars, diskVars,
              Places, StatusValues, readerVars
<1>7. CASE SendPacket(s)
  <2>1. /\ offset' \in [Conns -> Nat] /\ pc' \in [Conns -> Places] /\ InFile'
    BY <1>7, AdvanceType DEF SendPacket, Goto, CellsOK, Places
  <2>2. c2s' \in [Conns -> Seq(Request)]
    <3>1. GetPacket(s) \in Request /\ c2s[s] \in Seq(Request)
      BY RequestFacts DEF ServerOK
    <3>2. Append(c2s[s], GetPacket(s)) \in Seq(Request)
      BY <3>1, AppendProperties
    <3> QED  BY <1>7, <3>2 DEF SendPacket, ClientSend, ServerOK
  <2> QED  BY <1>7, <2>1, <2>2 DEF SendPacket, ClientSend, CellsOK, appVars, ServerOK, serverVars,
                                   diskVars, readerVars
<1>8. CASE SendFails(s)
  <2>1. /\ offset' \in [Conns -> Nat] /\ pc' \in [Conns -> Places] /\ InFile'
    BY <1>8, AdvanceType DEF SendFails, Goto, CellsOK, Places
  <2> QED  BY <1>8, <2>1 DEF SendFails, ClientSendFails, SetStatus, Tell, CellsOK, appVars, ServerOK,
                             linkVars, serverVars, diskVars, StatusValues, readerVars
<1>9. CASE ReadReply(s)
  <2>1. s2c' \in [Conns -> Seq(Reply)]
    BY <1>9, HeadTailProperties DEF ReadReply, ClientReceive, ServerOK
  <2> QED  BY <1>9, <2>1 DEF ReadReply, ClientReceive, Goto, CellsOK, appVars, ServerOK, serverVars,
                             diskVars, Places, readerVars
<1>10. CASE ReadFails(s)
  BY <1>10 DEF ReadFails, ClientReceiveFails, Goto, SetStatus, Tell, CellsOK, appVars, ServerOK, linkVars,
               serverVars, diskVars, Places, StatusValues, readerVars
<1>11. CASE Finish(s)
  <2>1. /\ status' \in [Conns -> StatusValues]
        /\ notices' \in [Conns -> SUBSET {"failed", "uploaded"}]
    <3>1. \/ UNCHANGED <<status, notices>>
          \/ /\ status' = [status EXCEPT ![s] = "UPLOADED"]
             /\ notices' = [notices EXCEPT ![s] = @ \cup {"uploaded"}]
      BY <1>11 DEF Finish, SetStatus, Tell
    <3>2. /\ notices[s] \cup {"uploaded"} \in SUBSET {"failed", "uploaded"}
          /\ notices \in [Conns -> SUBSET {"failed", "uploaded"}]
          /\ status \in [Conns -> StatusValues] /\ "UPLOADED" \in StatusValues
      BY DEF CellsOK, StatusValues
    <3> QED  BY <3>1, <3>2
  <2> QED  BY <1>11, <2>1 DEF Finish, Goto, CellsOK, appVars, ServerOK, linkVars, serverVars, diskVars,
                              Places, readerVars
<1>12. CASE Cancel(s)
  BY <1>12 DEF Cancel, SetStatus, CellsOK, appVars, ServerOK, linkVars, serverVars, diskVars,
               StatusValues, readerVars
<1>13. CASE LocalFileChanges(s)
  <2>1. PICK n \in LocalSizes[s] : local' = [local EXCEPT ![s] = n]
    BY <1>13 DEF LocalFileChanges
  <2>2. n \in Int /\ n \in {Missing} \cup 0..Len(Content[s])
    BY <2>1, StreamsAssumption
  <2>3. /\ local' \in [Conns -> Int]
        /\ \A t \in Conns : local'[t] \in {Missing} \cup 0..Len(Content[t])
    BY <2>1, <2>2 DEF CellsOK
  <2> QED  BY <1>13, <2>3 DEF LocalFileChanges, CellsOK, appVars, ServerOK, linkVars, serverVars,
                              diskVars, readerVars
<1> QED  BY <1>1, <1>2, <1>3, <1>4, <1>5, <1>6, <1>7, <1>8, <1>9, <1>10, <1>11, <1>12, <1>13
      DEF Scheduler, Upload

LEMMA StutterType ==
    ASSUME TypeInv, UNCHANGED uploadVars
    PROVE  TypeInv'
BY DEF TypeInv, TypeOK, InFile, CellsOK, ServerOK, uploadVars, cellVars, linkVars, serverVars,
       diskVars, readerVars, appVars

LEMMA AppType ==
    ASSUME TypeInv, AppStep
    PROVE  TypeInv'
<1>1. TypeInv' <=> /\ cut' \subseteq Conns /\ handled' \in BOOLEAN /\ alive' \in BOOLEAN
  BY StillSteps DEF Still, TypeInv, TypeOK, InFile, CellsOK, ServerOK, serverVars, diskVars,
                    readerVars
<1>2. cut \subseteq Conns /\ handled \in BOOLEAN /\ alive \in BOOLEAN
  BY DEF TypeInv, TypeOK, CellsOK, ServerOK
<1> QED  BY <1>1, <1>2 DEF AppStep, HandleProcessEvent, Unhandled, linkVars

LEMMA StepType ==
    ASSUME TypeInv, [Next]_uploadVars
    PROVE  TypeInv'
<1>1. CASE ServerNext /\ UNCHANGED cellVars
  BY <1>1, ServerType DEF TypeInv, TypeOK, InFile, CellsOK, cellVars, appVars
<1> QED  BY <1>1, ClientType, AppType, StutterType DEF Next, AppStep

\* Every variable keeps its type, under every fault and every schedule; what
\* get_packet makes is always a message of the protocol, and a stream never
\* reads past the longest form of its file.
THEOREM UploadTypes == Spec => []TypeOK
<1>1. Init => TypeInv
  BY InitType
<1>2. TypeInv /\ [Next]_uploadVars => TypeInv'
  BY StepType
<1>3. TypeInv => TypeOK
  BY DEF TypeInv
<1> QED  BY <1>1, <1>2, <1>3, PTL DEF Spec

-----------------------------------------------------------------------------
(***************************************************************************)
(* Stop and wait.                                                          *)
(***************************************************************************)
Before == {"queued", "picked", "connect", "head", "mark", "send"}

WireOK(s) == OneAtATime(s) /\ (pc[s] \in Before => Unused(s))

Wire == \A s \in Conns : WireOK(s)

LEMMA WireIsStopAndWait ==
    ASSUME TypeInv, Wire
    PROVE  StopAndWait
<1> SUFFICES ASSUME NEW s \in Conns
             PROVE  /\ Len(c2s[s]) + Len(s2c[s]) <= 1
                    /\ pc[s] \in Before => c2s[s] = << >> /\ s2c[s] = << >>
  BY DEF StopAndWait, Before
<1>1. WireOK(s) /\ ServerOK
  BY DEF TypeInv, TypeOK, Wire
<1> QED  BY <1>1, OneAtATimeCounts DEF WireOK, Unused

\* A stream's own steps leave the connections of the others alone.
LEMMA OwnLink ==
    ASSUME TypeInv, NEW s \in Conns, NEW t \in Conns, t # s,
           Scheduler(s) \/ Upload(s) \/ Cancel(s) \/ LocalFileChanges(s)
    PROVE  /\ c2s'[t] = c2s[t] /\ s2c'[t] = s2c[t]
           /\ pc'[t] = pc[t] /\ offset'[t] = offset[t] /\ reported'[t] = reported[t]
           /\ notices'[t] = notices[t]
<1> USE DEF TypeInv, TypeOK, CellsOK, ServerOK
<1>1. /\ c2s'[t] = c2s[t] /\ s2c'[t] = s2c[t]
  BY DEF Scheduler, Upload, Pick, Launch, ConnectOk, ConnectFails, TestLoop, MarkUploading,
         SendPacket, SendFails, ReadReply, ReadFails, Finish, Cancel, LocalFileChanges,
         Connect, ClientSend, ClientSendFails, ClientReceive, ClientReceiveFails, linkVars
<1>2. pc'[t] = pc[t]
  BY DEF Scheduler, Upload, Pick, Launch, ConnectOk, ConnectFails, TestLoop, MarkUploading,
         SendPacket, SendFails, ReadReply, ReadFails, Finish, Cancel, LocalFileChanges, Goto
<1>3. offset'[t] = offset[t] /\ reported'[t] = reported[t]
  BY DEF Scheduler, Upload, Pick, Launch, ConnectOk, ConnectFails, TestLoop, MarkUploading,
         SendPacket, SendFails, ReadReply, ReadFails, Finish, Cancel, LocalFileChanges, Advance
<1>4. notices'[t] = notices[t]
  BY DEF Scheduler, Upload, Pick, Launch, ConnectOk, ConnectFails, TestLoop, MarkUploading,
         SendPacket, SendFails, ReadReply, ReadFails, Finish, Cancel, LocalFileChanges, Tell
<1> QED  BY <1>1, <1>2, <1>3, <1>4

LEMMA InitWire == Init => Wire
<1> SUFFICES ASSUME Init, NEW s \in Conns PROVE WireOK(s)
  BY DEF Wire
<1>1. c2s[s] = << >> /\ s2c[s] = << >>
  BY DEF Init, ServerInit, LinkInit
<1> QED  BY <1>1 DEF WireOK, OneAtATime, Unused

LEMMA ServerWire ==
    ASSUME TypeInv, Wire, ServerNext, UNCHANGED cellVars
    PROVE  Wire'
BY ServerOneAtATime DEF Wire, WireOK, TypeInv, TypeOK, cellVars

LEMMA ClientWire ==
    ASSUME TypeInv, Wire, NEW s \in Conns,
           Scheduler(s) \/ Upload(s) \/ Cancel(s) \/ LocalFileChanges(s)
    PROVE  Wire'
<1> SUFFICES ASSUME NEW t \in Conns PROVE WireOK(t)'
  BY DEF Wire
<1>1. WireOK(t) /\ CellsOK /\ ServerOK
  BY DEF Wire, TypeInv, TypeOK
<1>2. CASE t # s
  BY <1>1, <1>2, OwnLink DEF WireOK, OneAtATime, Unused
<1>3. CASE t = s
  <2> USE <1>1, <1>3 DEF WireOK, OneAtATime, Unused, Before, CellsOK, ServerOK
  <2>1. CASE Pick(s)
    BY <2>1 DEF Pick, Goto, linkVars
  <2>2. CASE Launch(s)
    BY <2>2 DEF Launch, Goto, linkVars
  <2>3. CASE ConnectOk(s) \/ ConnectFails(s)
    BY <2>3 DEF ConnectOk, ConnectFails, Connect, Goto, linkVars
  <2>4. CASE TestLoop(s) \/ MarkUploading(s)
    BY <2>4 DEF TestLoop, MarkUploading, Goto, linkVars
  <2>5. CASE SendPacket(s)
    <3>1. c2s[s] = << >> /\ s2c[s] = << >> /\ pc'[s] = "reply"
      BY <2>5 DEF SendPacket, Goto
    <3>2. s2c' = s2c /\ c2s'[s] \in {c2s[s], Append(c2s[s], GetPacket(s))}
      BY <2>5 DEF SendPacket, ClientSend
    <3>3. Append(<< >>, GetPacket(s)) # << >> /\ Tail(Append(<< >>, GetPacket(s))) = << >>
      BY RequestFacts, AppendToEmpty
    <3> QED  BY <3>1, <3>2, <3>3
  <2>6. CASE SendFails(s) \/ ReadFails(s) \/ Finish(s)
    BY <2>6 DEF SendFails, ReadFails, Finish, Goto, ClientSendFails, ClientReceiveFails, linkVars
  <2>7. CASE ReadReply(s)
    BY <2>7 DEF ReadReply, Goto, ClientReceive
  <2>8. CASE Cancel(s) \/ LocalFileChanges(s)
    BY <2>8 DEF Cancel, LocalFileChanges, linkVars
  <2> QED  BY <2>1, <2>2, <2>3, <2>4, <2>5, <2>6, <2>7, <2>8 DEF Scheduler, Upload
<1> QED  BY <1>2, <1>3

LEMMA StepWire ==
    ASSUME TypeInv, Wire, [Next]_uploadVars
    PROVE  Wire'
<1>1. CASE AppStep \/ UNCHANGED uploadVars
  BY <1>1, StillSteps DEF Still, Wire, WireOK, OneAtATime, Unused
<1> QED  BY <1>1, ServerWire, ClientWire DEF Next, AppStep

\* The protocol is stop and wait: whatever fails and whoever is slow, a
\* connection carries one packet or one reply, and nothing while the upload
\* thread is about to send.
THEOREM UploadsStopAndWait == Spec => []StopAndWait
<1>1. Init => TypeInv /\ Wire
  BY InitType, InitWire
<1>2. TypeInv /\ Wire /\ [Next]_uploadVars => (TypeInv /\ Wire)'
  BY StepType, StepWire
<1>3. TypeInv /\ Wire => StopAndWait
  BY WireIsStopAndWait
<1> QED  BY <1>1, <1>2, <1>3, PTL DEF Spec

-----------------------------------------------------------------------------
(***************************************************************************)
(* The stored file.  The inductive invariant has four parts beside Wire:    *)
(* what a message under way, or left in the server's buffer, looks like     *)
(* (Sent), how the progress told to the application relates to the offset   *)
(* (Sync), where a short read can have left a stream (Split), and what is   *)
(* stored as long as none made another packet of one (Data).                *)
(***************************************************************************)
OfStream(m, s) ==
    /\ m.path = Path[s]
    /\ m.kind \in {"upload", "blank"}
    /\ m.kind = "upload" => m.overwrite
    /\ m.data \in Seq(FromFile(s))

SentByStream(s) ==
    /\ c2s[s] # << >> => OfStream(Asked(s), s)
    /\ \A m \in buffer[s] : OfStream(m, s)

Sent == \A s \in Conns : SentByStream(s)

SyncOK(s) ==
    /\ reported[s] <= offset[s]
    /\ pc[s] \in Before => reported[s] = offset[s]
    /\ pc[s] \in Before \cup {"reply"} => notices[s] = {}
    /\ pc[s] = "end" => "uploaded" \notin notices[s]
    /\ pc[s] \in {"end", "done"} /\ "failed" \notin notices[s] => reported[s] = offset[s]
    /\ "uploaded" \in notices[s] => offset[s] = Size[s]

Sync == \A s \in Conns : SyncOK(s)

\* A packet that was not the last one became another by a short read.
Early(s) == mixed[s] \notin {{}, {"last"}}

\* After a short read the server rejects what it reads next.  So a stream whose
\* packet became another, and was not the last, is not at its end: whatever it
\* sends now is not answered, and it fails.
SplitOK(s) ==
    /\ torn[s] = "no" => mixed[s] = {}
    /\ pc[s] \in {"mark", "send"} => offset[s] < Size[s]
    /\ pc[s] = "reply" /\ torn[s] = "no" /\ c2s[s] # << >>
         => (Asked(s).flags = "last" <=> offset[s] = Size[s])
    /\ pc[s] \in {"end", "done"} /\ "failed" \notin notices[s] => Unused(s)
    /\ Early(s) =>
         /\ pc[s] \in Before => torn[s] = "rest" /\ offset[s] # Size[s]
         /\ pc[s] = "reply" /\ s2c[s] # << >> => torn[s] = "rest" /\ offset[s] # Size[s]
         /\ pc[s] = "reply" /\ torn[s] = "part" /\ c2s[s] # << >> => offset[s] # Size[s]
         /\ pc[s] \in {"end", "done"} => "failed" \in notices[s] \/ offset[s] # Size[s]

Split == \A s \in Conns : SplitOK(s)

\* What is stored of the first n bytes, on a disk that takes every write or not.
KeptOf(s, part, n) ==
    IF "disk" \in Faults THEN Thinned(part, Content[s], n) ELSE part = FirstBytes(s, n)

AtReported(s) ==
    \/ KeptOf(s, Stored(s), reported[s])
    \/ reported[s] = 0 /\ Stored(s) = Initially(s)

AtOffset(s) == KeptOf(s, Stored(s), offset[s])

\* The packet under way extends the reported bytes to the offset.
PacketOK(s) ==
    Wants(s, "upload") =>
        /\ Asked(s).data = SubSeq(Content[s], reported[s] + 1, offset[s])
        /\ Asked(s).flags = "first" => reported[s] = 0
        /\ Asked(s).flags \in {"packet", "last"} /\ reported[s] = 0 => Initially(s) = << >>

DataOK(s) ==
    /\ AtReported(s) \/ AtOffset(s)
    /\ c2s[s] # << >> => AtReported(s) /\ PacketOK(s)
    /\ s2c[s] # << >> => AtOffset(s)

Data == \A s \in Regular : mixed[s] = {} => DataOK(s)

LEMMA SentMeansExpected ==
    ASSUME NEW s \in Conns, SentByStream(s), c2s[s] # << >>
    PROVE  ~NotAnUpload(s)
BY DEF SentByStream, OfStream, NotAnUpload

LEMMA InitData == Init => Sent /\ Sync /\ Split /\ Data
<1> SUFFICES ASSUME Init PROVE Sent /\ Sync /\ Split /\ Data
  OBVIOUS
<1>1. ASSUME NEW s \in Conns
      PROVE  /\ c2s[s] = << >> /\ s2c[s] = << >> /\ offset[s] = 0 /\ reported[s] = 0
             /\ notices[s] = {} /\ pc[s] = "queued" /\ buffer[s] = {} /\ mixed[s] = {}
  BY DEF Init, ServerInit, LinkInit
<1>2. Sent
  BY <1>1 DEF Sent, SentByStream
<1>3. Sync
  BY <1>1 DEF Sync, SyncOK
<1>4. ASSUME NEW s \in Conns
      PROVE  Stored(s) = Initially(s)
  <2>1. Stem[Path[s]] \in Paths
    BY StemAssumption, StreamsAssumption
  <2> QED  BY <2>1 DEF Init, ServerInit, Stored, Initially
<1>5. Data
  BY <1>1, <1>4 DEF Data, DataOK, AtReported, Regular
<1>6. Split
  BY <1>1 DEF Split, SplitOK, Early
<1> QED  BY <1>2, <1>3, <1>5, <1>6

-----------------------------------------------------------------------------
(***************************************************************************)
(* The server's steps keep Sent and Data.                                  *)
(***************************************************************************)
LEMMA AtOnlyOne ==
    ASSUME Wire, NEW s \in Conns, c2s[s] # << >>, c2s'[s] \in {<< >>, Tail(c2s[s])}
    PROVE  c2s'[s] = << >> /\ s2c[s] = << >>
BY DEF Wire, WireOK, OneAtATime, Unused

\* A short read leaves a packet of the stream, and the history tells if another.
LEMMA SplitSent ==
    ASSUME ServerOK, NEW s \in Conns, SentByStream(s), SplitFrame(s)
    PROVE  SentByStream(s)'
<1> DEFINE m == Asked(s)
           x == Asked(s)'
<1>1. /\ c2s[s] # << >> /\ buffer'[s] = buffer[s] /\ buffer[s] \in SUBSET Request
      /\ m \in Request /\ x \in Parsed(m, buffer[s])
  BY SplitFacts
<1>2. OfStream(m, s) /\ \A old \in buffer[s] : OfStream(old, s)
  BY <1>1 DEF SentByStream
<1>3. x.data \in Seq(FromFile(s)) /\ (x \in buffer[s] \/ Alike(x, m))
  <2>1. m.data \in Seq(FromFile(s)) /\ \A old \in buffer[s] : old.data \in Seq(FromFile(s))
    BY <1>2 DEF OfStream
  <2> HIDE DEF m, x
  <2> QED  BY <1>1, <2>1, ParsedFacts
<1> HIDE DEF m, x
<1>4. OfStream(x, s)
  BY <1>2, <1>3 DEF OfStream, Alike
<1> QED  BY <1>1, <1>2, <1>4 DEF SentByStream, x

LEMMA MixedStays ==
    ASSUME ServerOK, ServerNext, NEW s \in Conns, mixed'[s] = {}
    PROVE  /\ mixed[s] = {}
           /\ SplitFrame(s) => Asked(s)' = Asked(s) \/ ~Asked(s)'.trusted
<1>1. CASE SplitFrame(s)
  <2>1. mixed'[s] = IF Asked(s)'.trusted /\ Asked(s)' # Asked(s)
                    THEN {Asked(s).flags} ELSE mixed[s]
    BY <1>1, SplitFacts
  <2> QED  BY <2>1
<1>2. CASE ~SplitFrame(s)
  BY <1>2, ReaderMoves DEF Reads
<1> QED  BY <1>1, <1>2

\* Apart from short reads a message stays or goes.
LEMMA ServerTakes ==
    ASSUME TypeInv, Wire, ServerNext, NEW s \in Conns, ~SplitFrame(s)
    PROVE  c2s'[s] \in {c2s[s], << >>}
<1>1. CASE NoAnswer(s) \/ OneAnswer(s)
  BY <1>1, AtOnlyOne DEF NoAnswer, OneAnswer
<1>2. CASE \A c \in Conns : ~StoreUpload(c)
  BY <1>1, <1>2, ServerMoves DEF TypeInv, TypeOK
<1>3. ASSUME NEW c \in Conns, StoreUpload(c) PROVE c2s'[s] \in {c2s[s], << >>}
  BY <1>1, <1>3, StoreMoves DEF TypeInv, TypeOK
<1> QED  BY <1>2, <1>3

LEMMA ServerSent ==
    ASSUME TypeInv, Wire, Sent, ServerNext
    PROVE  Sent'
<1> SUFFICES ASSUME NEW s \in Conns PROVE SentByStream(s)'
  BY DEF Sent
<1>1. SentByStream(s) /\ ServerOK
  BY DEF Sent, TypeInv, TypeOK
<1>2. CASE SplitFrame(s)
  BY <1>1, <1>2, SplitSent
<1>3. CASE ~SplitFrame(s)
  <2>1. c2s'[s] = c2s[s] \/ c2s'[s] = << >>
    BY <1>3, ServerTakes
  <2>2. buffer'[s] = buffer[s] \/ (buffer'[s] = {Asked(s)} /\ c2s[s] # << >>)
    BY <1>1, <1>3, ReaderMoves DEF Reads, FrameIsThere, ServerOK
  <2>3. \A m \in buffer'[s] : OfStream(m, s)
    BY <1>1, <2>2 DEF SentByStream
  <2>4. c2s'[s] # << >> => OfStream(Asked(s)', s)
    BY <1>1, <2>1 DEF SentByStream, Asked
  <2> QED  BY <2>3, <2>4 DEF SentByStream
<1> QED  BY <1>2, <1>3

\* What a step leaves to show when the offset and the progress stay.
LEMMA DataKept ==
    ASSUME Wire, NEW s \in Regular, DataOK(s), NoAnswer(s),
           offset'[s] = offset[s], reported'[s] = reported[s], Stored(s)' = Stored(s)
    PROVE  DataOK(s)'
<1>1. s \in Conns
  BY DEF Regular
<1>2. c2s'[s] \in {c2s[s], << >>} /\ s2c'[s] = s2c[s]
  BY <1>1, AtOnlyOne DEF NoAnswer
<1>3. (AtReported(s)' <=> AtReported(s)) /\ (AtOffset(s)' <=> AtOffset(s))
  BY DEF AtReported, AtOffset, KeptOf, FirstBytes
<1>4. c2s'[s] # << >> => (PacketOK(s)' <=> PacketOK(s))
  BY <1>2 DEF PacketOK, Wants, Asked
<1> QED  BY <1>2, <1>3, <1>4 DEF DataOK

\* Nor does a short read whose packet stays what it was or is rejected.
LEMMA DataSplit ==
    ASSUME ServerOK, NEW s \in Regular, DataOK(s), SplitFrame(s),
           Asked(s)' = Asked(s) \/ ~Asked(s)'.trusted,
           offset'[s] = offset[s], reported'[s] = reported[s]
    PROVE  DataOK(s)'
<1>1. /\ s \in Conns /\ c2s[s] # << >> /\ s2c' = s2c /\ files' = files
  BY SplitFacts DEF Regular
<1>2. (AtReported(s)' <=> AtReported(s)) /\ (AtOffset(s)' <=> AtOffset(s))
  BY <1>1 DEF AtReported, AtOffset, Stored, KeptOf, FirstBytes
<1>3. PacketOK(s) => PacketOK(s)'
  BY DEF PacketOK, Wants
<1> QED  BY <1>1, <1>2, <1>3 DEF DataOK

\* What a write leaves of a slice: its bytes from the beginning on.
LEMMA PartOfSlice ==
    ASSUME NEW whole \in Seq(Bytes), NEW n \in 0..Len(whole), NEW m \in n..Len(whole),
           NEW w \in Prefixes(SubSeq(whole, n + 1, m))
    PROVE  /\ w \in Seq(Bytes) /\ Len(w) \in 0..m - n
           /\ \A i \in 1..Len(w) : w[i] = whole[n + i]
<1> DEFINE d == SubSeq(whole, n + 1, m)
<1>1. Len(whole) \in Nat /\ n \in Nat /\ m \in Nat /\ \A i \in 1..Len(whole) : whole[i] \in Bytes
  BY LenProperties, ElementOfSeq
<1>2. d \in Seq(Bytes) /\ Len(d) = m - n /\ \A i \in 1..m - n : d[i] = whole[n + i]
  <2>1. \A i \in n + 1 .. m : whole[i] \in Bytes
    BY <1>1
  <2>2. CASE n = m
    <3>1. d = << >>
      BY <1>1, <2>2, SubSeqEmpty
    <3> QED  BY <1>1, <2>2, <3>1, EmptySeq
  <2>3. CASE n < m
    <3>1. /\ d \in Seq(Bytes) /\ Len(d) = m - (n + 1) + 1
          /\ \A i \in 1..m - (n + 1) + 1 : d[i] = whole[n + 1 + i - 1]
      BY <1>1, <2>1, <2>3, SubSeqProperties
    <3> QED  BY <1>1, <2>3, <3>1
  <2> QED  BY <1>1, <2>2, <2>3
<1> HIDE DEF d
<1>3. PICK l \in 0..Len(d) : w = SubSeq(d, 1, l)
  BY DEF Prefixes, d
<1>4. w \in Seq(Bytes) /\ Len(w) = l /\ \A i \in 1..l : w[i] = whole[n + i]
  <2>1. w \in Seq(Bytes) /\ Len(w) = l /\ \A i \in 1..l : w[i] = d[i]
    BY <1>2, <1>3, PrefixFacts
  <2> QED  BY <1>1, <1>2, <1>3, <2>1
<1> QED  BY <1>1, <1>2, <1>3, <1>4

\* Of a full disk: a thinned front followed by a part of the next slice is a
\* thinned longer front.
LEMMA ThinningAppends ==
    ASSUME NEW whole \in Seq(Bytes), NEW n \in 0..Len(whole), NEW m \in n..Len(whole),
           NEW part \in Seq(Bytes), Thinned(part, whole, n),
           NEW w \in Prefixes(SubSeq(whole, n + 1, m))
    PROVE  Thinned(part \o w, whole, m)
<1>1. Len(whole) \in Nat /\ n \in Nat /\ m \in Nat
  BY LenProperties
<1>2. PICK l \in 0..m - n :
        w \in Seq(Bytes) /\ Len(w) = l /\ \A i \in 1..l : w[i] = whole[n + i]
  BY PartOfSlice
<1> DEFINE k == Len(part)
<1>5. k \in Nat /\ DOMAIN part = 1..k
  BY LenProperties
<1>6. PICK at \in [1..k -> 1..n] :
        /\ \A i, j \in 1..k : i < j => at[i] < at[j]
        /\ \A i \in 1..k : part[i] = whole[at[i]]
  BY <1>5 DEF Thinned
<1>7. /\ DOMAIN (part \o w) = 1..k + l
      /\ \A i \in 1..k + l : (part \o w)[i] = IF i <= k THEN part[i] ELSE w[i - k]
  <2>1. /\ part \o w \in Seq(Bytes) /\ Len(part \o w) = k + l
        /\ \A i \in 1..k + l : (part \o w)[i] = IF i <= k THEN part[i] ELSE w[i - k]
    BY <1>2, ConcatProperties
  <2> QED  BY <2>1, LenProperties
<1> HIDE DEF k
<1> DEFINE to == [i \in 1..k + l |-> IF i <= k THEN at[i] ELSE n + (i - k)]
<1>8. l \in Nat /\ n + l <= m
  BY <1>1, <1>2
<1>9. to \in [1..k + l -> 1..m]
  BY <1>1, <1>5, <1>6, <1>8
<1>10. \A i, j \in 1..k + l : i < j => to[i] < to[j]
  <2> SUFFICES ASSUME NEW i \in 1..k + l, NEW j \in 1..k + l, i < j PROVE to[i] < to[j]
    OBVIOUS
  <2>1. CASE j <= k
    BY <1>5, <1>6, <1>8, <2>1
  <2>2. CASE i <= k /\ j > k
    <3>1. at[i] \in 1..n
      BY <1>5, <1>6, <2>2
    <3> QED  BY <1>1, <1>5, <1>8, <2>2, <3>1
  <2>3. CASE i > k
    BY <1>1, <1>5, <1>8, <2>3
  <2> QED  BY <1>5, <1>8, <2>1, <2>2, <2>3
<1>11. \A i \in 1..k + l : (part \o w)[i] = whole[to[i]]
  <2> SUFFICES ASSUME NEW i \in 1..k + l PROVE (part \o w)[i] = whole[to[i]]
    OBVIOUS
  <2>1. CASE i <= k
    <3>1. i \in 1..k /\ to[i] = at[i]
      BY <1>5, <1>8, <2>1
    <3>2. (part \o w)[i] = part[i]
      BY <1>5, <1>7, <1>8, <2>1
    <3>3. part[i] = whole[at[i]]
      BY <1>6, <3>1
    <3> QED  BY <3>1, <3>2, <3>3, Zenon
  <2>2. CASE i > k
    <3>1. i - k \in 1..l /\ to[i] = n + (i - k)
      BY <1>5, <1>8, <2>2
    <3>2. (part \o w)[i] = w[i - k]
      BY <1>5, <1>7, <1>8, <2>2
    <3>3. w[i - k] = whole[n + (i - k)]
      BY <1>2, <3>1
    <3> QED  BY <3>1, <3>2, <3>3, Zenon
  <2>3. i <= k \/ i > k
    BY <1>5, <1>8
  <2> QED  BY <2>1, <2>2, <2>3
<1> HIDE DEF to
<1> QED  BY <1>7, <1>9, <1>10, <1>11 DEF Thinned

LEMMA NothingIsThinned ==
    ASSUME NEW whole, NEW n
    PROVE  Thinned(<< >>, whole, n)
<1>1. DOMAIN << >> = {}
  OBVIOUS
<1>2. [i \in {} |-> 1] \in [{} -> 1..n]
  OBVIOUS
<1> QED  BY <1>1, <1>2 DEF Thinned

\* A front is thinned by nothing.
LEMMA FrontIsThinned ==
    ASSUME NEW whole \in Seq(Bytes), NEW n \in 0..Len(whole)
    PROVE  Thinned(SubSeq(whole, 1, n), whole, n)
<1> DEFINE front == SubSeq(whole, 1, n)
           at == [i \in 1..n |-> i]
<1>1. front \in Seq(Bytes) /\ Len(front) = n /\ \A i \in 1..n : front[i] = whole[i]
  BY PrefixFacts
<1>2. DOMAIN front = 1..n
  BY <1>1, LenProperties
<1> HIDE DEF front
<1>3. /\ at \in [1..n -> 1..n]
      /\ \A i, j \in 1..n : i < j => at[i] < at[j]
      /\ \A i \in 1..n : front[i] = whole[at[i]]
  BY <1>1
<1> HIDE DEF at
<1>4. Thinned(front, whole, n)
  BY <1>2, <1>3 DEF Thinned
<1> QED  BY <1>4 DEF front

\* What the disk keeps of the next slice extends what it kept before.
LEMMA KeptExtends ==
    ASSUME NEW s \in Conns, NEW n \in 0..Len(Content[s]), NEW m \in n..Len(Content[s]),
           NEW part \in Seq(Bytes), KeptOf(s, part, n),
           NEW w \in Written(SubSeq(Content[s], n + 1, m))
    PROVE  KeptOf(s, part \o w, m)
<1>1. Content[s] \in Seq(Bytes) /\ Len(Content[s]) \in Nat
  BY StreamsAssumption, LenProperties
<1>2. CASE "disk" \in Faults
  BY <1>1, <1>2, ThinningAppends DEF KeptOf, Written
<1>3. CASE "disk" \notin Faults
  <2>1. part = SubSeq(Content[s], 1, n) /\ w = SubSeq(Content[s], n + 1, m)
    BY <1>3 DEF KeptOf, Written, FirstBytes
  <2>2. /\ 1 \in 1 .. Len(Content[s]) + 1
        /\ n \in 1 - 1 .. Len(Content[s])
        /\ m \in n .. Len(Content[s])
    BY <1>1
  <2>3. SubSeq(Content[s], 1, n) \o SubSeq(Content[s], n + 1, m) = SubSeq(Content[s], 1, m)
    BY <1>1, <2>2, ConcatAdjacentSubSeq
  <2> QED  BY <1>3, <2>1, <2>3 DEF KeptOf, FirstBytes
<1> QED  BY <1>2, <1>3

LEMMA NothingIsKept ==
    ASSUME NEW s \in Conns
    PROVE  KeptOf(s, << >>, 0)
<1>1. Content[s] \in Seq(Bytes)
  BY StreamsAssumption
<1>2. SubSeq(Content[s], 1, 0) = << >>
  BY <1>1, SubSeqEmpty
<1> QED  BY <1>2, NothingIsThinned DEF KeptOf, FirstBytes

\* Storing the packet under way takes the file from what was reported to the
\* offset.
LEMMA StoringAdvances ==
    ASSUME TypeInv, Wire, Sent,
           NEW s \in Regular, DataOK(s), Sync, StoreUpload(s)
    PROVE  KeptOf(s, files'[Stem[Path[s]]], offset[s])
<1>1. /\ s \in Conns /\ c2s[s] # << >> /\ Wants(s, "upload")
      /\ UploadMode(s) \in {"truncate", "append"}
  BY DEF Regular, StoreUpload, Reads, FrameIsThere
<1>2. /\ Target(s) = Stem[Path[s]] /\ Target(s) \in Paths
      /\ Asked(s).kind = "upload"
  BY <1>1, AskedIsRequest DEF Sent, SentByStream, OfStream, Target, Wants, TypeInv, TypeOK
<1>3. /\ Asked(s).data = SubSeq(Content[s], reported[s] + 1, offset[s])
      /\ Asked(s).flags = "first" => reported[s] = 0
      /\ Asked(s).flags \in {"packet", "last"} /\ reported[s] = 0 => Initially(s) = << >>
      /\ AtReported(s)
  BY <1>1, <1>2 DEF DataOK, PacketOK
<1>4. PICK w \in Written(Asked(s).data) :
        files'[Target(s)] = IF UploadMode(s) = "truncate" THEN w ELSE Stored(s) \o w
  BY <1>2 DEF StoreUpload, Stored, TypeInv, TypeOK, ServerOK
<1>5. /\ offset[s] \in Nat /\ reported[s] \in Nat /\ reported[s] <= offset[s]
      /\ offset[s] <= Len(Content[s]) /\ Len(Content[s]) \in Nat
      /\ Content[s] \in Seq(Bytes) /\ Stored(s) \in Seq(Bytes)
  BY <1>1, <1>2, StreamsAssumption, LenProperties
  DEF TypeInv, TypeOK, CellsOK, ServerOK, InFile, Sync, SyncOK, Stored
<1>6. w \in Seq(Bytes)
  <2>1. Asked(s).data \in Seq(Bytes)
    BY <1>1, AskedIsRequest DEF Request, TypeInv, TypeOK
  <2> QED  BY <1>4, <2>1, PrefixFacts DEF Written, Prefixes
<1>7. reported[s] = 0 => KeptOf(s, w, offset[s])
  <2> SUFFICES ASSUME reported[s] = 0 PROVE KeptOf(s, w, offset[s])
    OBVIOUS
  <2>1. w \in Written(SubSeq(Content[s], 0 + 1, offset[s]))
    BY <1>3, <1>4
  <2>2. 0 \in 0..Len(Content[s]) /\ offset[s] \in 0..Len(Content[s]) /\ << >> \in Seq(Bytes)
    BY <1>5, EmptySeq
  <2>3. KeptOf(s, << >> \o w, offset[s])
    BY <1>1, <2>1, <2>2, NothingIsKept, KeptExtends
  <2>4. << >> \o w = w
    BY <1>6, ConcatEmptySeq
  <2> QED  BY <2>3, <2>4
<1>8. CASE UploadMode(s) = "truncate"
  <2>1. Asked(s).flags = "first"
    BY <1>8 DEF UploadMode, OpenMode
  <2> QED  BY <1>2, <1>3, <1>4, <1>7, <1>8, <2>1
<1>9. CASE UploadMode(s) = "append"
  <2>1. Asked(s).flags \in {"packet", "last"}
    BY <1>9 DEF UploadMode, OpenMode
  <2>2. CASE KeptOf(s, Stored(s), reported[s])
    <3>1. reported[s] \in 0..Len(Content[s]) /\ offset[s] \in reported[s]..Len(Content[s])
      BY <1>5
    <3>2. w \in Written(SubSeq(Content[s], reported[s] + 1, offset[s]))
      BY <1>3, <1>4
    <3>3. KeptOf(s, Stored(s) \o w, offset[s])
      BY <1>1, <1>5, <2>2, <3>1, <3>2, KeptExtends
    <3> QED  BY <1>2, <1>4, <1>9, <3>3
  <2>3. CASE reported[s] = 0 /\ Stored(s) = Initially(s)
    <3>1. << >> \o w = w
      BY <1>6, ConcatEmptySeq
    <3>2. Stored(s) = << >>
      BY <1>3, <2>1, <2>3
    <3> QED  BY <1>2, <1>4, <1>7, <1>9, <2>3, <3>1, <3>2
  <2> QED  BY <1>3, <2>2, <2>3 DEF AtReported
<1> QED  BY <1>1, <1>8, <1>9

LEMMA ServerData ==
    ASSUME TypeInv, Wire, Sent, Sync, Data, ServerNext, UNCHANGED cellVars
    PROVE  Data'
<1> SUFFICES ASSUME NEW s \in Regular, mixed'[s] = {} PROVE DataOK(s)'
  BY DEF Data, Regular
<1>1. /\ s \in Conns /\ DataOK(s) /\ ServerOK
      /\ offset'[s] = offset[s] /\ reported'[s] = reported[s]
  BY MixedStays DEF Data, Regular, cellVars, TypeInv, TypeOK
<1>2. CASE \A c \in Conns : ~StoreUpload(c)
  <2>1. /\ files' = files
        /\ NoAnswer(s) \/ SplitFrame(s) \/ (OneAnswer(s) /\ NotAnUpload(s))
    BY <1>1, <1>2, ServerMoves
  <2>2. CASE SplitFrame(s)
    BY <1>1, <2>2, MixedStays, DataSplit
  <2>3. CASE ~SplitFrame(s)
    <3>1. NoAnswer(s)
      BY <1>1, <2>1, <2>3, SentMeansExpected DEF Sent, OneAnswer
    <3> QED  BY <1>1, <2>1, <3>1, DataKept DEF Stored
  <2> QED  BY <2>2, <2>3
<1>3. ASSUME NEW c \in Conns, StoreUpload(c), c # s
      PROVE  DataOK(s)'
  <2>1. Target(c) = Stem[Path[c]]
    BY <1>3 DEF StoreUpload, Reads, Sent, SentByStream, OfStream, Target, FrameIsThere
  <2>2. Stem[Path[c]] # Stem[Path[s]]
    BY <1>1, <1>3 DEF Regular, Alone
  <2>3. Stored(s)' = Stored(s)
    BY <1>1, <1>3, <2>1, <2>2, StemAssumption, StreamsAssumption
    DEF StoreUpload, Stored, ServerOK
  <2>4. NoAnswer(s)
    BY <1>1, <1>3, StoreMoves DEF NoAnswer
  <2> QED  BY <1>1, <2>3, <2>4, DataKept
<1>4. CASE StoreUpload(s)
  <2>1. KeptOf(s, files'[Stem[Path[s]]], offset[s])
    BY <1>1, <1>4, StoringAdvances
  <2>2. AtOffset(s)'
    BY <1>1, <2>1 DEF AtOffset, Stored, KeptOf, FirstBytes
  <2>3. c2s'[s] = << >>
    BY <1>1, <1>4, StoreMoves, AtOnlyOne
  <2> QED  BY <2>2, <2>3 DEF DataOK
<1> QED  BY <1>2, <1>3, <1>4

\* A frame that is read in part, or answered, keeps the stream where it was.
LEMMA ServerSplit ==
    ASSUME TypeInv, Wire, Split, ServerNext, UNCHANGED cellVars
    PROVE  Split'
<1> SUFFICES ASSUME NEW s \in Conns PROVE SplitOK(s)'
  BY DEF Split
<1>1. /\ SplitOK(s) /\ WireOK(s) /\ ServerOK
      /\ pc[s] \in Before \cup {"reply", "end", "done"}
      /\ pc' = pc /\ offset' = offset /\ notices' = notices
  BY DEF Split, Wire, TypeInv, TypeOK, CellsOK, Places, Before, cellVars
<1>2. Unused(s) => Unused(s)'
  BY <1>1, ServerOneAtATime DEF WireOK
<1>3. CASE SplitFrame(s)
  <2>1. /\ c2s[s] # << >> /\ torn[s] = "no" /\ torn'[s] = "part" /\ s2c' = s2c
        /\ mixed'[s] = {Asked(s).flags} \/ mixed'[s] = mixed[s]
    BY <1>1, <1>3, SplitFacts
  <2>2. pc[s] \notin Before /\ s2c[s] = << >> /\ ~Unused(s) /\ mixed[s] = {}
    BY <1>1, <2>1 DEF WireOK, OneAtATime, Unused, SplitOK
  <2>3. Early(s)' => mixed'[s] = {Asked(s).flags} /\ Asked(s).flags # "last"
    BY <2>1, <2>2 DEF Early
  <2> QED  BY <1>1, <2>1, <2>2, <2>3 DEF SplitOK, Before
<1>4. CASE ~SplitFrame(s)
  <2>1. c2s'[s] = c2s[s] \/ c2s'[s] = << >>
    BY <1>4, ServerTakes
  <2>2. c2s'[s] # << >> => Asked(s)' = Asked(s)
    BY <2>1 DEF Asked
  <2>3. CASE Reads(s)
    <3>1. /\ c2s[s] # << >> /\ torn[s] \in {"no", "part"} /\ mixed' = mixed
          /\ torn'[s] = IF torn[s] = "part" THEN "rest" ELSE torn[s]
      BY <1>1, <2>3 DEF Reads, FrameIsThere, ServerOK
    <3>2. pc[s] \notin Before /\ ~Unused(s)
      BY <1>1, <3>1 DEF WireOK, Unused
    <3>3. Early(s)' => Early(s) /\ torn[s] = "part"
      BY <1>1, <3>1 DEF Early, SplitOK
    <3> QED  BY <1>1, <2>1, <2>2, <3>1, <3>2, <3>3 DEF SplitOK
  <2>4. CASE ~Reads(s)
    <3>1. torn'[s] = torn[s] /\ mixed'[s] = mixed[s] /\ s2c'[s] = s2c[s]
      BY <1>1, <1>4, <2>4, ReaderMoves
    <3> QED  BY <1>1, <1>2, <2>1, <2>2, <3>1 DEF SplitOK, Early
  <2> QED  BY <2>3, <2>4
<1> QED  BY <1>3, <1>4

-----------------------------------------------------------------------------
(***************************************************************************)
(* The client's steps keep Sent, Sync, Split and Data.                     *)
(***************************************************************************)
\* A stream's step is seen by another stream as nothing at all: the rest is
\* about the stream itself.
ClientStep(s) == Scheduler(s) \/ Upload(s) \/ Cancel(s) \/ LocalFileChanges(s)

LEMMA ClientFiles ==
    ASSUME NEW s \in Conns, ClientStep(s)
    PROVE  files' = files /\ UNCHANGED <<buffer, torn, mixed>>
BY DEF ClientStep, Scheduler, Upload, Pick, Launch, ConnectOk, ConnectFails, TestLoop,
       MarkUploading, SendPacket, SendFails, ReadReply, ReadFails, Finish, Cancel,
       LocalFileChanges, serverVars, diskVars, readerVars

LEMMA ClientSent ==
    ASSUME TypeInv, Wire, Sent, NEW s \in Conns, ClientStep(s)
    PROVE  Sent'
<1> SUFFICES ASSUME NEW t \in Conns PROVE SentByStream(t)'
  BY DEF Sent
<1>1. SentByStream(t) /\ WireOK(t) /\ ServerOK /\ buffer' = buffer
  BY ClientFiles DEF Sent, Wire, TypeInv, TypeOK
<1>2. CASE c2s'[t] = c2s[t]
  BY <1>1, <1>2 DEF SentByStream, Asked
<1>3. CASE t # s
  BY <1>2, <1>3, OwnLink DEF ClientStep
<1>4. CASE t = s
  <2>1. CASE SendPacket(s)
    <3>1. c2s[s] = << >>
      BY <1>1, <1>4, <2>1 DEF SendPacket, Goto, WireOK, OneAtATime, Unused, Before
    <3>2. c2s'[s] = c2s[s] \/ c2s'[s] = Append(<< >>, GetPacket(s))
      BY <1>1, <2>1, <3>1 DEF SendPacket, ClientSend, ServerOK
    <3>3. CASE c2s'[s] = Append(<< >>, GetPacket(s))
      <4>1. Asked(s)' = GetPacket(s)
        BY <3>3, RequestFacts, AppendToEmpty DEF Asked
      <4>2. OfStream(GetPacket(s), s)
        BY RequestFacts DEF OfStream
      <4> QED  BY <1>1, <1>4, <4>1, <4>2 DEF SentByStream
    <3> QED  BY <1>2, <1>4, <3>2, <3>3
  <2>2. CASE ~SendPacket(s)
    <3>1. c2s' = c2s
      BY <2>2 DEF ClientStep, Scheduler, Upload, Pick, Launch, ConnectOk, ConnectFails, TestLoop,
        MarkUploading, SendFails, ReadReply, ReadFails, Finish, Cancel, LocalFileChanges,
        Connect, ClientSendFails, ClientReceive, ClientReceiveFails, linkVars
    <3> QED  BY <1>2, <3>1
  <2> QED  BY <2>1, <2>2
<1> QED  BY <1>3, <1>4

LEMMA ClientSync ==
    ASSUME TypeInv, Sync, NEW s \in Conns, ClientStep(s)
    PROVE  Sync'
<1> SUFFICES ASSUME NEW t \in Conns PROVE SyncOK(t)'
  BY DEF Sync
<1>1. SyncOK(t) /\ CellsOK
  BY DEF Sync, TypeInv, TypeOK
<1>2. CASE t # s
  BY <1>1, <1>2, OwnLink DEF SyncOK, ClientStep
<1>3. CASE t = s
  <2> USE <1>1, <1>3 DEF SyncOK, Before, CellsOK
  <2>1. CASE Pick(s) \/ Launch(s)
    BY <2>1 DEF Pick, Launch, Goto
  <2>2. CASE ConnectOk(s) \/ ConnectFails(s)
    BY <2>2 DEF ConnectOk, ConnectFails, Goto
  <2>3. CASE TestLoop(s) \/ MarkUploading(s)
    BY <2>3 DEF TestLoop, MarkUploading, Goto
  <2>4. CASE SendPacket(s) \/ SendFails(s)
    <3> DEFINE n == Len(ReadBytes(s))
    <3>1. n \in Nat
      BY PacketFacts
    <3>2. offset'[s] = offset[s] + n /\ reported' = reported
      BY <2>4 DEF SendPacket, SendFails, Advance
    <3>3. /\ reported[s] = offset[s] /\ notices[s] = {}
          /\ reported[s] \in Nat /\ offset[s] \in Nat
      BY <2>4 DEF SendPacket, SendFails, Goto
    <3>4. \/ pc'[s] = "reply" /\ notices'[s] = {}
          \/ pc'[s] = "end" /\ notices'[s] = {"failed"}
      BY <2>4, <3>3 DEF SendPacket, SendFails, Goto, Tell
    <3> HIDE DEF n
    <3> QED  BY <3>1, <3>2, <3>3, <3>4
  <2>5. CASE ReadReply(s)
    BY <2>5 DEF ReadReply, Goto
  <2>6. CASE ReadFails(s)
    BY <2>6 DEF ReadFails, Goto, Tell
  <2>7. CASE Finish(s)
    <3>1. /\ pc[s] = "end" /\ pc'[s] = "done" /\ offset' = offset /\ reported' = reported
          /\ \/ notices' = notices
             \/ offset[s] = Size[s] /\ notices'[s] = notices[s] \cup {"uploaded"}
      BY <2>7 DEF Finish, Goto, Tell
    <3> QED  BY <3>1
  <2>8. CASE Cancel(s) \/ LocalFileChanges(s)
    BY <2>8 DEF Cancel, LocalFileChanges
  <2> QED  BY <2>1, <2>2, <2>3, <2>4, <2>5, <2>6, <2>7, <2>8
           DEF ClientStep, Scheduler, Upload
<1> QED  BY <1>2, <1>3

LEMMA ClientSplit ==
    ASSUME TypeInv, Wire, Split, NEW s \in Conns, ClientStep(s)
    PROVE  Split'
<1> SUFFICES ASSUME NEW t \in Conns PROVE SplitOK(t)'
  BY DEF Split
<1>1. SplitOK(t) /\ WireOK(t) /\ CellsOK /\ ServerOK /\ UNCHANGED <<torn, mixed>>
  BY ClientFiles DEF Split, Wire, TypeInv, TypeOK
<1>2. CASE t # s
  BY <1>1, <1>2, OwnLink DEF SplitOK, Early, Unused, Asked, ClientStep
<1>3. CASE t = s
  <2> USE <1>1, <1>3 DEF SplitOK, Early, Unused, Before, CellsOK
  <2>1. CASE SendPacket(s)
    <3>1. /\ pc[s] = "send" /\ pc'[s] = "reply" /\ offset[s] < Size[s]
          /\ offset'[s] = offset[s] + Len(ReadBytes(s))
          /\ s2c'[s] = << >>
          /\ c2s'[s] = << >> \/ c2s'[s] = Append(<< >>, GetPacket(s))
      BY <2>1 DEF SendPacket, Goto, Advance, ClientSend, WireOK, ServerOK
    <3>2. c2s'[s] # << >> => Asked(s)' = GetPacket(s)
      BY <3>1, RequestFacts, AppendToEmpty DEF Asked
    <3>3. GetPacket(s).flags = "last" <=> offset'[s] = Size[s]
      BY <3>1, RequestFacts
    <3> QED  BY <3>1, <3>2, <3>3
  <2>2. CASE SendFails(s) \/ ReadFails(s)
    <3>1. pc'[s] = "end" /\ "failed" \in notices'[s]
      BY <2>2 DEF SendFails, ReadFails, Goto, Tell
    <3> QED  BY <3>1
  <2>3. CASE ReadReply(s)
    <3>1. /\ pc[s] = "reply" /\ pc'[s] = "head" /\ s2c[s] # << >> /\ offset' = offset
      BY <2>3 DEF ReadReply, Goto, ClientReceive
    <3> QED  BY <3>1
  <2>4. CASE TestLoop(s)
    <3>1. /\ pc[s] = "head" /\ UNCHANGED <<c2s, s2c, offset, notices>>
          /\ pc'[s] = IF GoesOn(s) THEN "mark" ELSE "end"
      BY <2>4 DEF TestLoop, Goto, linkVars
    <3> QED  BY <3>1 DEF GoesOn, WireOK
  <2>5. CASE Pick(s) \/ Launch(s) \/ ConnectOk(s) \/ ConnectFails(s) \/ MarkUploading(s)
    <3>1. /\ pc[s] \in Before /\ UNCHANGED <<c2s, s2c, offset, notices>>
          /\ pc'[s] \in {"picked", "connect", "head", "send", "done"}
          /\ pc'[s] = "send" => pc[s] = "mark"
      BY <2>5 DEF Pick, Launch, ConnectOk, ConnectFails, MarkUploading, Goto, Connect, linkVars
    <3> QED  BY <3>1 DEF WireOK
  <2>6. CASE Finish(s)
    <3>1. /\ pc[s] = "end" /\ pc'[s] = "done" /\ UNCHANGED <<c2s, s2c, offset>>
          /\ "failed" \in notices'[s] <=> "failed" \in notices[s]
      BY <2>6 DEF Finish, Goto, Tell, linkVars
    <3> QED  BY <3>1
  <2>7. CASE Cancel(s) \/ LocalFileChanges(s)
    BY <2>7 DEF Cancel, LocalFileChanges, linkVars, Asked
  <2> QED  BY <2>1, <2>2, <2>3, <2>4, <2>5, <2>6, <2>7 DEF ClientStep, Scheduler, Upload
<1> QED  BY <1>2, <1>3

\* A packet made at the reported offset carries the bytes from there on.
LEMMA PacketExtends ==
    ASSUME TypeInv, Wire, Sync, NEW s \in Regular, DataOK(s), SendPacket(s)
    PROVE  DataOK(s)'
<1> DEFINE n == Len(ReadBytes(s))
<1>1. s \in Conns /\ WireOK(s) /\ SyncOK(s) /\ ServerOK /\ CellsOK
  BY DEF Regular, Wire, Sync, TypeInv, TypeOK
<1>2. /\ c2s[s] = << >> /\ s2c[s] = << >> /\ reported[s] = offset[s]
      /\ reported' = reported /\ s2c' = s2c /\ files' = files
  BY <1>1 DEF SendPacket, Goto, WireOK, OneAtATime, Unused, SyncOK, Before, ClientSend, serverVars,
              diskVars
<1>3. offset'[s] = offset[s] + n
  BY <1>1 DEF SendPacket, Advance, CellsOK
<1>4. AtReported(s)'
  <2>1. AtReported(s)
    BY <1>2 DEF DataOK, AtReported, AtOffset
  <2> QED  BY <1>2, <2>1 DEF AtReported, Stored, KeptOf, FirstBytes
<1>5. CASE c2s'[s] = << >>
  BY <1>2, <1>4, <1>5 DEF DataOK
<1>6. CASE c2s'[s] = Append(<< >>, GetPacket(s))
  <2>1. Asked(s)' = GetPacket(s)
    BY <1>1, <1>6, RequestFacts, AppendToEmpty DEF Asked
  <2>2. ReadBytes(s) = SubSeq(Content[s], reported'[s] + 1, offset'[s])
    BY <1>1, <1>2, <1>3, PacketFacts
  <2>3. Size[s] <= BufferSize => Initially(s) = << >>
    BY <1>1, StreamsAssumption, BufferSizeAssumption DEF Regular, Replaces
  <2>4. PacketOK(s)'
    BY <1>1, <1>2, <2>1, <2>2, <2>3, RequestFacts DEF PacketOK, Wants
  <2> QED  BY <1>2, <1>4, <2>4 DEF DataOK
<1>7. c2s'[s] = << >> \/ c2s'[s] = Append(<< >>, GetPacket(s))
  BY <1>1, <1>2 DEF SendPacket, ClientSend, ServerOK
<1> QED  BY <1>5, <1>6, <1>7

LEMMA ClientData ==
    ASSUME TypeInv, Wire, Sync, Data, NEW s \in Conns, ClientStep(s)
    PROVE  Data'
<1> SUFFICES ASSUME NEW t \in Regular, mixed'[t] = {} PROVE DataOK(t)'
  BY DEF Data, Regular
<1>1. t \in Conns /\ DataOK(t) /\ WireOK(t) /\ SyncOK(t) /\ Stored(t)' = Stored(t)
      /\ CellsOK /\ ServerOK
  BY ClientFiles DEF Data, Regular, Wire, Sync, Stored, TypeInv, TypeOK
<1>2. CASE NoAnswer(t) /\ offset'[t] = offset[t] /\ reported'[t] = reported[t]
  BY <1>1, <1>2, DataKept
<1>3. CASE t # s
  BY <1>1, <1>2, <1>3, OwnLink DEF NoAnswer, ClientStep
<1>4. CASE t = s
  <2>1. CASE SendPacket(s)
    BY <1>1, <1>4, <2>1, PacketExtends
  <2>2. CASE SendFails(s)
    <3>1. /\ c2s[s] = << >> /\ s2c[s] = << >> /\ reported[s] = offset[s]
          /\ c2s' = c2s /\ s2c' = s2c /\ reported' = reported
      BY <1>1, <1>4, <2>2
      DEF SendFails, ClientSendFails, Goto, WireOK, OneAtATime, Unused, SyncOK, Before, linkVars
    <3>2. AtReported(s)
      BY <1>1, <1>4, <3>1 DEF DataOK, AtReported, AtOffset
    <3>3. AtReported(s)'
      BY <1>1, <1>4, <3>1, <3>2 DEF AtReported, KeptOf, FirstBytes
    <3> QED  BY <1>4, <3>1, <3>3 DEF DataOK
  <2>3. CASE ReadReply(s)
    <3>1. /\ s2c[s] # << >> /\ s2c'[s] = Tail(s2c[s]) /\ c2s' = c2s
          /\ offset' = offset /\ reported'[s] = offset[s]
      BY <1>1, <2>3 DEF ReadReply, ClientReceive, CellsOK, ServerOK
    <3>2. c2s'[s] = << >> /\ s2c'[s] = << >>
      BY <1>1, <1>4, <3>1 DEF WireOK, OneAtATime, Unused
    <3>3. AtReported(s)'
      BY <1>1, <1>4, <3>1 DEF DataOK, AtReported, AtOffset, KeptOf, FirstBytes
    <3> QED  BY <1>4, <3>2, <3>3 DEF DataOK
  <2>4. CASE ~SendPacket(s) /\ ~SendFails(s) /\ ~ReadReply(s)
    <3>1. c2s' = c2s /\ s2c' = s2c /\ offset' = offset /\ reported' = reported
      BY <2>4 DEF ClientStep, Scheduler, Upload, Pick, Launch, ConnectOk, ConnectFails, TestLoop,
        MarkUploading, ReadFails, Finish, Cancel, LocalFileChanges, Connect,
        ClientReceiveFails, linkVars
    <3> QED  BY <1>2, <3>1 DEF NoAnswer
  <2> QED  BY <2>1, <2>2, <2>3, <2>4
<1> QED  BY <1>3, <1>4

-----------------------------------------------------------------------------
(***************************************************************************)
(* The theorems.                                                           *)
(***************************************************************************)
UploadInv == TypeInv /\ Wire /\ Sent /\ Sync /\ Split /\ Data

LEMMA StillInv ==
    ASSUME UploadInv, Still
    PROVE  (Sent /\ Sync /\ Split /\ Data)'
<1> USE DEF Still, serverVars, diskVars, readerVars, UploadInv
<1>1. Sent'
  BY DEF Sent, SentByStream, Asked
<1>2. Sync'
  BY DEF Sync, SyncOK
<1>3. Split'
  BY DEF Split, SplitOK, Early, Unused, Asked
<1>4. ASSUME NEW s \in Regular, mixed'[s] = {} PROVE DataOK(s)'
  <2>1. NoAnswer(s) /\ Stored(s)' = Stored(s) /\ DataOK(s)
    BY <1>4 DEF NoAnswer, Stored, Data
  <2> QED  BY <2>1, DataKept
<1> QED  BY <1>1, <1>2, <1>3, <1>4 DEF Data, Regular

LEMMA StepInv ==
    ASSUME UploadInv, [Next]_uploadVars
    PROVE  UploadInv'
<1>1. TypeInv' /\ Wire'
  BY StepType, StepWire DEF UploadInv
<1>2. CASE ServerNext /\ UNCHANGED cellVars
  <2>1. Sync'
    BY <1>2 DEF UploadInv, Sync, SyncOK, cellVars
  <2> QED  BY <1>1, <1>2, <2>1, ServerSent, ServerSplit, ServerData DEF UploadInv
<1>3. ASSUME NEW s \in Conns, ClientStep(s)
      PROVE  UploadInv'
  BY <1>1, <1>3, ClientSent, ClientSync, ClientSplit, ClientData DEF UploadInv
<1>4. CASE AppStep \/ UNCHANGED uploadVars
  BY <1>1, <1>4, StillSteps, StillInv DEF UploadInv
<1> QED  BY <1>2, <1>3, <1>4 DEF Next, ClientStep, AppStep

LEMMA InvariantHolds == Spec => []UploadInv
<1>1. Init => UploadInv
  BY InitType, InitWire, InitData DEF UploadInv
<1>2. UploadInv /\ [Next]_uploadVars => UploadInv'
  BY StepInv
<1> QED  BY <1>1, <1>2, PTL DEF Spec

\* As long as the server's disk takes every write, a stored file is always
\* the front of the uploaded one, as far as was reported or one packet more,
\* or what was there before: through cuts, crashes, restarts, time-outs,
\* cancels, a local file that grows, is cut or vanishes and frames read in part
\* that the server then rejects, for any number of other uploads.  A frame read
\* in part that it takes for another packet is the one exception.
THEOREM UploadsStoreAFront ==
    ASSUME "disk" \notin Faults
    PROVE  Spec => []StoredIsFront
<1>1. UploadInv => StoredIsFront
  BY DEF UploadInv, Data, DataOK, AtReported, AtOffset, KeptOf, StoredIsFront
<1> QED  BY <1>1, InvariantHolds, PTL

\* On a disk that may be full, with no check of a write: a stored file is always
\* the uploaded one with bytes left out, in order and without a foreign one, no
\* further than get_packet has read, or what was there before, as long as no
\* short read made another packet of one.
THEOREM FullDisksThinUploads == Spec => []StoredIsThinned
<1>1. ASSUME UploadInv, NEW s \in Regular, mixed[s] = {}
      PROVE  \/ Thinned(Stored(s), Content[s], offset[s])
             \/ reported[s] = 0 /\ Stored(s) = Initially(s)
  <2>1. /\ s \in Conns /\ DataOK(s) /\ Content[s] \in Seq(Bytes) /\ Len(Content[s]) \in Nat
        /\ offset[s] \in Nat /\ reported[s] \in Nat /\ reported[s] <= offset[s]
        /\ offset[s] <= Len(Content[s])
    BY <1>1, StreamsAssumption, LenProperties
    DEF UploadInv, Data, Regular, Sync, SyncOK, TypeInv, TypeOK, CellsOK, InFile
  <2>2. ASSUME NEW n \in 0..offset[s], KeptOf(s, Stored(s), n)
        PROVE  Thinned(Stored(s), Content[s], offset[s])
    <3>1. Thinned(Stored(s), Content[s], n)
      <4>1. n \in 0..Len(Content[s])
        BY <2>1
      <4> QED  BY <2>1, <2>2, <4>1, FrontIsThinned DEF KeptOf, FirstBytes
    <3>2. 1..n \subseteq 1..offset[s]
      BY <2>1
    <3> QED  BY <3>1, <3>2 DEF Thinned
  <2>3. reported[s] \in 0..offset[s] /\ offset[s] \in 0..offset[s]
    BY <2>1
  <2> QED  BY <2>1, <2>2, <2>3 DEF DataOK, AtReported, AtOffset
<1>2. UploadInv => StoredIsThinned
  BY <1>1 DEF StoredIsThinned
<1> QED  BY <1>2, InvariantHolds, PTL

\* A stream that ended with its offset at the size and no failure was not read
\* in part before its last packet.
LEMMA CleanEndsAreWhole ==
    ASSUME UploadInv, NEW s \in Regular, pc[s] \in {"end", "done"}, "failed" \notin notices[s],
           offset[s] = Size[s], mixed[s] # {"last"}
    PROVE  mixed[s] = {}
BY DEF UploadInv, Regular, Split, SplitOK, Early

\* "uploaded" without "failed" can be relied on: the whole file is stored, also
\* if a frame was read in part and taken for another packet, unless it was the
\* last one.
THEOREM CleanUploadsAreStored ==
    ASSUME "disk" \notin Faults
    PROVE  Spec => []CleanUploadIsStored
<1>1. ASSUME UploadInv, NEW s \in Regular, notices[s] = {"uploaded"}, mixed[s] # {"last"}
      PROVE  Stored(s) = FirstBytes(s, Size[s])
  <2>1. /\ s \in Conns /\ Size[s] > 0 /\ SyncOK(s) /\ CellsOK /\ Size[s] \in Nat
    BY <1>1, StreamsAssumption DEF UploadInv, Sync, Regular, TypeInv, TypeOK
  <2>2. offset[s] = Size[s] /\ pc[s] \in {"end", "done"}
    BY <1>1, <2>1 DEF SyncOK, CellsOK, Places, Before
  <2>3. reported[s] = Size[s]
    BY <1>1, <2>1, <2>2 DEF SyncOK
  <2>4. DataOK(s)
    BY <1>1, <2>2, CleanEndsAreWhole DEF UploadInv, Data
  <2> QED  BY <2>1, <2>2, <2>3, <2>4 DEF DataOK, AtReported, AtOffset, KeptOf
<1>2. UploadInv => CleanUploadIsStored
  BY <1>1 DEF CleanUploadIsStored
<1> QED  BY <1>2, InvariantHolds, PTL

-----------------------------------------------------------------------------
(***************************************************************************)
(* Every path, also one that several streams share.  The bytes of a stream  *)
(* that are stored reach to its offset, or to what was reported while its    *)
(* packet is still on its way: where they end is Delivery, and a step either *)
(* leaves the file alone and Delivery no lower, or stores the next bytes.    *)
(***************************************************************************)
Delivery == [s \in Conns |-> IF c2s[s] # << >> THEN reported[s] ELSE offset[s]]

\* A stream that sends has a file that is not empty, and its packet carries the
\* bytes from what was reported to the offset, if no short read made it another.
Carrying(s) ==
    /\ pc[s] \in {"mark", "send", "reply"} => Size[s] > 0
    /\ c2s[s] # << >> =>
         /\ Size[s] > 0
         /\ Wants(s, "upload") /\ mixed[s] = {}
              => Asked(s).data = SubSeq(Content[s], reported[s] + 1, offset[s])

WovenBehind(p, old) ==
    \E part \in Seq(Bytes) : files[p] = old \o part /\ Woven(part, p, Delivery)

Unmixed(p) == \A s \in Senders(p) : mixed[s] = {}

WovenAt(p) ==
    Unmixed(p) =>
        /\ WovenBehind(p, << >>) \/ WovenBehind(p, InitialAt(p))
        /\ Senders(p) = {} =>
             files[p] = InitialAt(p) /\ (p \in present <=> p \in DOMAIN InitialFiles)

WeaveInv == UploadInv /\ (\A s \in Conns : Carrying(s)) /\ \A p \in Paths : WovenAt(p)

LEMMA OriginFacts ==
    ASSUME NEW p, NEW limit, NEW r
    PROVE  r \in Origins(p, limit)
             <=> \E s \in Senders(p) : \E n \in 1..limit[s] : r = [by |-> s, at |-> n]
BY DEF Origins

LEMMA WovenGrows ==
    ASSUME NEW part, NEW p, NEW limit \in [Conns -> Nat], NEW more \in [Conns -> Nat],
           \A s \in Conns : limit[s] <= more[s], Woven(part, p, limit)
    PROVE  Woven(part, p, more)
<1>1. Origins(p, limit) \subseteq Origins(p, more)
  <2> SUFFICES ASSUME NEW r \in Origins(p, limit) PROVE r \in Origins(p, more)
    OBVIOUS
  <2>1. PICK s \in Senders(p) : \E n \in 1..limit[s] : r = [by |-> s, at |-> n]
    BY OriginFacts
  <2>2. s \in Conns
    BY DEF Senders
  <2>3. PICK n \in 1..limit[s] : r = [by |-> s, at |-> n]
    BY <2>1
  <2>4. n \in 1..more[s]
    BY <2>2
  <2> QED  BY <2>3, <2>4, OriginFacts
<1> QED  BY <1>1 DEF Woven

LEMMA NothingIsWoven ==
    ASSUME NEW p, NEW limit
    PROVE  Woven(<< >>, p, limit)
<1>1. DOMAIN << >> = {}
  OBVIOUS
<1>2. [i \in {} |-> 1] \in [{} -> Origins(p, limit)]
  OBVIOUS
<1> QED  BY <1>1, <1>2 DEF Woven

\* The next bytes of one stream, or what the disk keeps of them, go behind.
LEMMA WeavingAppends ==
    ASSUME NEW p, NEW s \in Senders(p), NEW limit \in [Conns -> Nat], NEW more \in [Conns -> Nat],
           limit[s] <= more[s], more[s] <= Len(Content[s]), \A t \in Conns : limit[t] <= more[t],
           NEW part \in Seq(Bytes), Woven(part, p, limit),
           NEW w \in Prefixes(SubSeq(Content[s], limit[s] + 1, more[s]))
    PROVE  part \o w \in Seq(Bytes) /\ Woven(part \o w, p, more)
<1> DEFINE n == limit[s]
           m == more[s]
           whole == Content[s]
<1>1. s \in Conns /\ whole \in Seq(Bytes) /\ Len(whole) \in Nat /\ n \in Nat /\ m \in Nat
  BY StreamsAssumption, LenProperties DEF Senders
<1>2. PICK l \in 0..m - n :
        w \in Seq(Bytes) /\ Len(w) = l /\ \A i \in 1..l : w[i] = whole[n + i]
  <2>1. n \in 0..Len(whole) /\ m \in n..Len(whole)
    BY <1>1
  <2> HIDE DEF n, m, whole
  <2>2. w \in Prefixes(SubSeq(whole, n + 1, m))
    BY DEF n, m, whole
  <2>3. /\ w \in Seq(Bytes) /\ Len(w) \in 0..m - n
        /\ \A i \in 1..Len(w) : w[i] = whole[n + i]
    BY ONLY <1>1, <2>1, <2>2, PartOfSlice
  <2> QED  BY <2>3
<1> DEFINE k == Len(part)
<1>3. k \in Nat /\ DOMAIN part = 1..k
  BY LenProperties
<1>4. PICK from \in [1..k -> Origins(p, limit)] :
        /\ \A i \in 1..k : part[i] = Content[from[i].by][from[i].at]
        /\ \A i, j \in 1..k : i < j /\ from[i].by = from[j].by => from[i].at < from[j].at
  BY <1>3 DEF Woven
<1>5. /\ part \o w \in Seq(Bytes) /\ DOMAIN (part \o w) = 1..k + l
      /\ \A i \in 1..k + l : (part \o w)[i] = IF i <= k THEN part[i] ELSE w[i - k]
  <2> DEFINE both == part \o w
  <2>1. part \in Seq(Bytes) /\ w \in Seq(Bytes) /\ Len(w) = l
    BY <1>2
  <2>2. /\ both \in Seq(Bytes) /\ Len(both) = Len(part) + Len(w)
        /\ \A i \in 1..Len(part) + Len(w) :
             both[i] = IF i <= Len(part) THEN part[i] ELSE w[i - Len(part)]
    BY ONLY <2>1, ConcatProperties
  <2>3. DOMAIN both = 1..Len(both)
    BY <2>2, LenProperties
  <2> HIDE DEF both
  <2>4. /\ both \in Seq(Bytes) /\ DOMAIN both = 1..k + l
        /\ \A i \in 1..k + l : both[i] = IF i <= k THEN part[i] ELSE w[i - k]
    BY <2>1, <2>2, <2>3
  <2> QED  BY <2>4 DEF both
<1> HIDE DEF k, n, m, whole
<1> DEFINE next(i) == [by |-> s, at |-> n + (i - k)]
           to == [i \in 1..k + l |-> IF i <= k THEN from[i] ELSE next(i)]
<1>6. l \in Nat /\ n + l <= m
  BY <1>1, <1>2
<1>7. \A i \in 1..k + l : i \in 1..k \/ (i > k /\ i - k \in 1..l /\ n + (i - k) \in 1..m)
  BY <1>1, <1>3, <1>6
<1>8. \A i \in 1..k : from[i] \in Origins(p, limit) /\ from[i] \in Origins(p, more)
  <2> SUFFICES ASSUME NEW i \in 1..k PROVE from[i] \in Origins(p, more)
    BY <1>4
  <2>1. PICK t \in Senders(p), x \in Nat : x \in 1..limit[t] /\ from[i] = [by |-> t, at |-> x]
    <3>1. from[i] \in Origins(p, limit)
      BY <1>4
    <3> QED  BY ONLY <3>1, OriginFacts
  <2>2. t \in Conns
    BY DEF Senders
  <2>3. x \in 1..more[t]
    BY <2>1, <2>2
  <2> QED  BY <2>1, <2>3, OriginFacts
<1>9. to \in [1..k + l -> Origins(p, more)]
  <2> SUFFICES ASSUME NEW i \in 1..k + l PROVE to[i] \in Origins(p, more)
    OBVIOUS
  <2>1. CASE i \in 1..k
    BY <1>3, <1>8, <2>1
  <2>2. CASE i > k /\ n + (i - k) \in 1..m
    <3>1. to[i] = next(i)
      BY <1>3, <1>6, <2>2
    <3>2. next(i) \in Origins(p, more)
      BY <2>2, OriginFacts DEF m
    <3> QED  BY <3>1, <3>2
  <2> QED  BY <1>7, <2>1, <2>2
<1>10. \A i \in 1..k + l : (part \o w)[i] = Content[to[i].by][to[i].at]
  <2> SUFFICES ASSUME NEW i \in 1..k + l PROVE (part \o w)[i] = Content[to[i].by][to[i].at]
    OBVIOUS
  <2>1. CASE i \in 1..k
    <3>1. to[i] = from[i] /\ (part \o w)[i] = part[i]
      BY <1>3, <1>5, <1>6, <2>1
    <3>2. part[i] = Content[from[i].by][from[i].at]
      BY <1>4, <2>1
    <3> QED  BY <3>1, <3>2, Zenon
  <2>2. CASE i > k /\ i - k \in 1..l
    <3>1. to[i] = next(i) /\ (part \o w)[i] = w[i - k]
      BY <1>3, <1>5, <1>6, <2>2
    <3>2. w[i - k] = whole[n + (i - k)]
      BY <1>2, <2>2
    <3>3. next(i).by = s /\ next(i).at = n + (i - k)
      OBVIOUS
    <3> QED  BY <3>1, <3>2, <3>3, Zenon DEF whole
  <2> QED  BY <1>7, <2>1, <2>2
<1>11. ASSUME NEW i \in 1..k + l, NEW j \in 1..k + l, i < j, to[i].by = to[j].by
       PROVE  to[i].at < to[j].at
  <2>1. CASE j \in 1..k
    <3>1. i \in 1..k /\ to[i] = from[i] /\ to[j] = from[j]
      BY <1>3, <1>6, <1>11, <2>1
    <3> HIDE DEF to
    <3> QED  BY <1>4, <1>11, <2>1, <3>1
  <2>2. CASE i \in 1..k /\ j > k /\ j - k \in 1..l
    <3>1. to[i] = from[i] /\ to[j] = next(j)
      BY <1>3, <1>6, <2>2
    <3>2. PICK t \in Senders(p), x \in Nat : x \in 1..limit[t] /\ from[i] = [by |-> t, at |-> x]
      BY <1>8, <2>2, OriginFacts
    <3>3. t = s /\ to[i].at = x /\ to[j].at = n + (j - k)
      BY <1>11, <3>1, <3>2
    <3>4. x \in 1..n
      BY <3>2, <3>3 DEF n
    <3> QED  BY <1>1, <1>3, <1>6, <2>2, <3>3, <3>4
  <2>3. CASE i > k /\ j > k
    <3>1. to[i].at = n + (i - k) /\ to[j].at = n + (j - k)
      BY <1>3, <1>6, <2>3
    <3> QED  BY <1>1, <1>3, <1>6, <1>11, <2>3, <3>1
  <2> QED  BY <1>3, <1>6, <1>7, <1>11, <2>1, <2>2, <2>3
<1> HIDE DEF to
<1>12. Woven(part \o w, p, more)
  BY <1>5, <1>9, <1>10, <1>11 DEF Woven
<1> QED  BY <1>5, <1>12

LEMMA DeliveryFacts ==
    ASSUME UploadInv
    PROVE  /\ Delivery \in [Conns -> Nat]
           /\ \A s \in Conns : Delivery[s] <= offset[s] /\ offset[s] <= Len(Content[s])
           /\ \A s \in Conns : offset[s] \in Nat /\ reported[s] \in Nat /\ reported[s] <= offset[s]
BY DEF UploadInv, TypeInv, TypeOK, CellsOK, InFile, Sync, SyncOK, Delivery

LEMMA NextDeliveryType ==
    ASSUME UploadInv'
    PROVE  Delivery' \in [Conns -> Nat]
BY DEF UploadInv, TypeInv, TypeOK, CellsOK, Delivery

LEMMA InitialType ==
    ASSUME NEW p \in Paths
    PROVE  InitialAt(p) \in Seq(Bytes)
BY DiskAssumption, EmptySeq DEF InitialAt

LEMMA InitWeave == Init => WeaveInv
<1> SUFFICES ASSUME Init PROVE WeaveInv
  OBVIOUS
<1>1. UploadInv
  BY InitType, InitWire, InitData DEF UploadInv
<1>2. ASSUME NEW s \in Conns PROVE Carrying(s)
  BY DEF Init, ServerInit, LinkInit, Carrying
<1>3. ASSUME NEW p \in Paths PROVE WovenAt(p)
  <2>1. /\ files[p] = InitialAt(p) /\ InitialAt(p) \in Seq(Bytes)
        /\ p \in present <=> p \in DOMAIN InitialFiles
    BY InitialType DEF Init, ServerInit, InitialAt
  <2>2. files[p] = InitialAt(p) \o << >> /\ << >> \in Seq(Bytes)
    BY <2>1, ConcatEmptySeq, EmptySeq
  <2>3. WovenBehind(p, InitialAt(p))
    BY <2>2, NothingIsWoven DEF WovenBehind
  <2> QED  BY <2>1, <2>3 DEF WovenAt
<1> QED  BY <1>1, <1>2, <1>3 DEF WeaveInv

\* Steps that leave the disk alone.
LEMMA WeaveKept ==
    ASSUME WeaveInv, UploadInv', UNCHANGED diskVars,
           \A s \in Conns : Delivery[s] <= Delivery'[s], NEW p \in Paths, Unmixed(p)' => Unmixed(p)
    PROVE  WovenAt(p)'
<1>1. Delivery \in [Conns -> Nat] /\ Delivery' \in [Conns -> Nat]
  BY DeliveryFacts, NextDeliveryType DEF WeaveInv
<1>2. ASSUME NEW old, WovenBehind(p, old) PROVE WovenBehind(p, old)'
  <2>1. PICK part \in Seq(Bytes) : files[p] = old \o part /\ Woven(part, p, Delivery)
    BY <1>2 DEF WovenBehind
  <2>2. Woven(part, p, Delivery')
    BY <1>1, <2>1, WovenGrows
  <2>3. files'[p] = old \o part
    BY <2>1 DEF diskVars
  <2> QED  BY <2>2, <2>3 DEF WovenBehind
<1> QED  BY <1>2 DEF WeaveInv, WovenAt, diskVars

LEMMA WholeIsPrefix ==
    ASSUME NEW S, NEW seq \in Seq(S)
    PROVE  seq \in Prefixes(seq)
<1>1. Len(seq) \in Nat /\ Len(seq) \in 0..Len(seq)
  BY LenProperties
<1> DEFINE front == SubSeq(seq, 1, Len(seq))
<1>2. front \in Seq(S) /\ Len(front) = Len(seq) /\ \A i \in 1..Len(seq) : front[i] = seq[i]
  BY <1>1, PrefixFacts
<1> HIDE DEF front
<1>3. front = seq
  BY <1>2, SeqEqual
<1> QED  BY <1>1, <1>3 DEF front, Prefixes

\* Storing the packet under way puts the next bytes of its stream behind the rest,
\* or in the place of everything.
LEMMA StoringWeaves ==
    ASSUME WeaveInv, UploadInv', NEW c \in Conns, StoreUpload(c), UNCHANGED cellVars,
           NEW p \in Paths
    PROVE  WovenAt(p)'
<1>1. /\ c2s[c] # << >> /\ Wants(c, "upload") /\ ServerOK /\ UploadInv /\ WovenAt(p)
      /\ Wire /\ SentByStream(c) /\ Carrying(c) /\ mixed' = mixed
  BY DEF StoreUpload, Reads, WeaveInv, UploadInv, TypeInv, TypeOK, Sent, FrameIsThere
<1>2. /\ Target(c) = Stem[Path[c]] /\ Asked(c).data \in Seq(Bytes) /\ Size[c] > 0
      /\ mixed[c] = {} => Asked(c).data = SubSeq(Content[c], reported[c] + 1, offset[c])
  BY <1>1, AskedIsRequest DEF SentByStream, OfStream, Target, Carrying, Request
<1>6. Unmixed(p)' <=> Unmixed(p)
  BY <1>1 DEF Unmixed
<1>3. /\ Delivery \in [Conns -> Nat] /\ Delivery' \in [Conns -> Nat]
      /\ Delivery[c] = reported[c] /\ Delivery'[c] = offset[c]
      /\ reported[c] <= offset[c] /\ offset[c] <= Len(Content[c])
      /\ \A s \in Conns : Delivery[s] <= Delivery'[s]
  <2>1. Delivery \in [Conns -> Nat] /\ Delivery' \in [Conns -> Nat]
    BY <1>1, DeliveryFacts, NextDeliveryType
  <2>2. c2s'[c] = << >>
    BY <1>1, StoreMoves, AtOnlyOne
  <2>3. reported[c] <= offset[c] /\ offset[c] <= Len(Content[c])
    BY <1>1, DeliveryFacts
  <2>4. Delivery[c] = reported[c] /\ Delivery'[c] = offset[c]
    BY <1>1, <2>2 DEF Delivery, cellVars
  <2>5. ASSUME NEW s \in Conns, s # c PROVE Delivery'[s] = Delivery[s]
    <3>1. c2s'[s] = c2s[s]
      BY <1>1, <2>5, StoreMoves
    <3> QED  BY <3>1 DEF Delivery, cellVars
  <2> QED  BY <2>1, <2>3, <2>4, <2>5
<1>4. CASE p # Target(c)
  <2>1. files'[p] = files[p] /\ (p \in present' <=> p \in present)
    BY <1>1, <1>4 DEF StoreUpload, ServerOK
  <2>2. ASSUME NEW old, WovenBehind(p, old) PROVE WovenBehind(p, old)'
    <3>1. PICK part \in Seq(Bytes) : files[p] = old \o part /\ Woven(part, p, Delivery)
      BY <2>2 DEF WovenBehind
    <3>2. Woven(part, p, Delivery')
      BY <1>3, <3>1, WovenGrows
    <3> QED  BY <2>1, <3>1, <3>2 DEF WovenBehind
  <2> QED  BY <1>1, <1>6, <2>1, <2>2 DEF WovenAt
<1>5. CASE p = Target(c) /\ Unmixed(p)
  <2>1. c \in Senders(p) /\ mixed[c] = {}
    BY <1>2, <1>5 DEF Senders, Unmixed
  <2>2. PICK w \in Written(Asked(c).data) :
          files'[p] = IF UploadMode(c) = "truncate" THEN w ELSE files[p] \o w
    BY <1>1, <1>5 DEF StoreUpload, ServerOK
  <2>3. w \in Prefixes(SubSeq(Content[c], Delivery[c] + 1, Delivery'[c]))
    <3>1. w \in Prefixes(Asked(c).data)
      BY <1>2, <2>2, WholeIsPrefix DEF Written
    <3> QED  BY <1>2, <1>3, <2>1, <3>1
  <2>4. ASSUME NEW part \in Seq(Bytes), Woven(part, p, Delivery)
        PROVE  part \o w \in Seq(Bytes) /\ Woven(part \o w, p, Delivery')
    BY <1>3, <2>1, <2>3, <2>4, WeavingAppends
  <2>5. w \in Seq(Bytes)
    BY <1>2, <2>2, PrefixFacts DEF Written, Prefixes
  <2>6. CASE UploadMode(c) = "truncate"
    <3>1. << >> \o w = w /\ << >> \in Seq(Bytes)
      BY <2>5, ConcatEmptySeq, EmptySeq
    <3>2. Woven(w, p, Delivery')
      BY <2>4, <3>1, NothingIsWoven
    <3>3. WovenBehind(p, << >>)'
      BY <2>2, <2>5, <2>6, <3>1, <3>2 DEF WovenBehind
    <3> QED  BY <2>1, <3>3 DEF WovenAt
  <2>7. CASE UploadMode(c) # "truncate"
    <3>1. ASSUME NEW old \in Seq(Bytes), WovenBehind(p, old) PROVE WovenBehind(p, old)'
      <4>1. PICK part \in Seq(Bytes) : files[p] = old \o part /\ Woven(part, p, Delivery)
        BY <3>1 DEF WovenBehind
      <4>2. (old \o part) \o w = old \o (part \o w)
        BY <2>5, ConcatAssociative
      <4>3. files'[p] = old \o (part \o w)
        BY <2>2, <2>7, <4>1, <4>2
      <4> QED  BY <2>4, <4>1, <4>3 DEF WovenBehind
    <3>2. << >> \in Seq(Bytes) /\ InitialAt(p) \in Seq(Bytes)
      BY EmptySeq, InitialType
    <3> QED  BY <1>1, <1>5, <2>1, <3>1, <3>2 DEF WovenAt
  <2> QED  BY <2>6, <2>7
<1> QED  BY <1>4, <1>5, <1>6 DEF WovenAt

LEMMA OnlyStoresAddFiles ==
    ASSUME ServerNext, \A c \in Conns : ~StoreUpload(c)
    PROVE  present' = present
<1>1. ASSUME NEW c \in Conns, AnswerToClient(c) PROVE present' = present
  BY <1>1 DEF AnswerToClient, AnswerBroken, AnswerIdle, RejectRequest, RefuseUpload,
              IgnoreUpload, CheckDownload, SendDownloadPacket, IgnoreDownload, DieOnMissingFile,
              Die, diskVars, ReadRest
<1> QED  BY <1>1 DEF ServerNext, HandleClientsThread, Environment, WakeAndLock, EraseTimedOut,
                     Crash, Die, Restart, PassTime, CutLink, AcceptThread, serverVars, diskVars,
                     SplitFrame

LEMMA ServerWeave ==
    ASSUME WeaveInv, UploadInv', ServerNext, UNCHANGED cellVars
    PROVE  WeaveInv'
<1>1. /\ UploadInv /\ ServerOK /\ Wire /\ Sent /\ \A s \in Conns : Carrying(s)
  BY DEF WeaveInv, UploadInv, TypeInv, TypeOK
<1>2. ASSUME NEW s \in Conns PROVE c2s'[s] # << >> => c2s[s] # << >>
  <2>1. CASE SplitFrame(s)
    BY <1>1, <2>1, SplitFacts
  <2>2. CASE ~SplitFrame(s)
    BY <1>1, <2>2, ServerTakes DEF UploadInv
  <2> QED  BY <2>1, <2>2
<1>3. ASSUME NEW s \in Conns PROVE Carrying(s)'
  <2>1. /\ Carrying(s) /\ pc' = pc /\ reported' = reported /\ offset' = offset
        /\ mixed'[s] = {} => mixed[s] = {}
    BY <1>1, MixedStays DEF cellVars
  <2>2. c2s'[s] # << >> /\ mixed'[s] = {} => Asked(s)' = Asked(s) \/ ~Asked(s)'.trusted
    <3>1. CASE SplitFrame(s)
      BY <1>1, <3>1, MixedStays
    <3>2. CASE ~SplitFrame(s)
      BY <1>1, <3>2, ServerTakes DEF UploadInv, Asked
    <3> QED  BY <3>1, <3>2
  <2> QED  BY <1>2, <2>1, <2>2 DEF Carrying, Wants
<1>4. ASSUME NEW p \in Paths PROVE WovenAt(p)'
  <2>1. CASE \A c \in Conns : ~StoreUpload(c)
    <3>1. UNCHANGED diskVars
      <4>1. CASE Conns = {}
        BY <1>1, <4>1, <2>1, OnlyStoresAddFiles DEF ServerNext, HandleClientsThread, Environment,
           WakeAndLock, EraseTimedOut, Crash, Die, Restart, diskVars
      <4>2. CASE Conns # {}
        BY <1>1, <2>1, <4>2, OnlyStoresAddFiles, ServerMoves DEF diskVars
      <4> QED  BY <4>1, <4>2
    <3>2. ASSUME NEW s \in Conns PROVE Delivery[s] <= Delivery'[s]
      <4>1. offset'[s] = offset[s] /\ reported'[s] = reported[s]
        BY DEF cellVars
      <4>2. offset[s] \in Nat /\ reported[s] \in Nat /\ reported[s] <= offset[s]
        BY <1>1, DeliveryFacts
      <4> QED  BY <1>2, <4>1, <4>2 DEF Delivery
    <3>3. Unmixed(p)' => Unmixed(p)
      BY <1>1, MixedStays DEF Unmixed, Senders
    <3> QED  BY <3>1, <3>2, <3>3, WeaveKept
  <2>2. ASSUME NEW c \in Conns, StoreUpload(c) PROVE WovenAt(p)'
    BY <2>2, StoringWeaves
  <2> QED  BY <2>1, <2>2
<1> QED  BY <1>3, <1>4 DEF WeaveInv

LEMMA ClientCarries ==
    ASSUME WeaveInv, NEW s \in Conns, ClientStep(s), NEW t \in Conns
    PROVE  Carrying(t)' /\ Delivery[t] <= Delivery'[t]
<1>1. /\ Carrying(t) /\ WireOK(t) /\ SyncOK(t) /\ CellsOK /\ ServerOK /\ TypeInv
      /\ offset[t] \in Nat /\ reported[t] \in Nat /\ reported[t] <= offset[t]
      /\ Size[t] \in Nat /\ mixed' = mixed
  BY StreamsAssumption, DeliveryFacts, ClientFiles
  DEF WeaveInv, UploadInv, Wire, Sync, TypeInv, TypeOK
<1>2. CASE c2s'[t] = c2s[t] /\ pc'[t] = pc[t] /\ offset'[t] = offset[t] /\ reported'[t] = reported[t]
  BY <1>1, <1>2 DEF Carrying, Wants, Asked, Delivery
<1>3. CASE t # s
  BY <1>1, <1>2, <1>3, OwnLink DEF ClientStep
<1>4. CASE t = s /\ (SendPacket(s) \/ SendFails(s))
  <2>1. /\ pc[t] = "send" /\ c2s[t] = << >> /\ reported[t] = offset[t] /\ reported' = reported
        /\ pc'[t] \in {"reply", "end"} /\ Size[t] > 0
    BY <1>1, <1>4 DEF SendPacket, SendFails, Goto, WireOK, Unused, SyncOK, Before, CellsOK, Carrying
  <2>2. /\ Len(ReadBytes(t)) \in Nat /\ offset'[t] = offset[t] + Len(ReadBytes(t))
        /\ ReadBytes(t) = SubSeq(Content[t], reported'[t] + 1, offset'[t])
    BY <1>1, <1>4, <2>1, PacketFacts DEF SendPacket, SendFails, Advance, CellsOK
  <2>3. c2s'[t] = << >> \/ c2s'[t] = Append(<< >>, GetPacket(t))
    BY <1>1, <1>4, <2>1 DEF SendPacket, SendFails, ClientSend, ClientSendFails, ServerOK, linkVars
  <2>4. Delivery[t] <= Delivery'[t]
    <3> DEFINE n == Len(ReadBytes(t))
    <3> HIDE DEF n
    <3>1. n \in Nat /\ offset'[t] = offset[t] + n
      BY <2>2 DEF n
    <3>2. Delivery[t] = offset[t] /\ Delivery'[t] \in {offset'[t], reported[t]}
      BY <2>1 DEF Delivery
    <3> QED  BY <1>1, <2>1, <3>1, <3>2
  <2>5. Carrying(t)'
    <3>1. CASE c2s'[t] = << >>
      BY <2>1, <3>1 DEF Carrying
    <3>2. CASE c2s'[t] = Append(<< >>, GetPacket(t))
      <4>1. Asked(t)' = GetPacket(t)
        BY <1>1, <3>2, RequestFacts, AppendToEmpty DEF Asked
      <4>2. Asked(t)'.kind = "upload" => Asked(t)'.data = ReadBytes(t)
        BY <1>1, <4>1, RequestFacts
      <4> QED  BY <2>1, <2>2, <4>2 DEF Carrying, Wants
    <3> QED  BY <2>3, <3>1, <3>2
  <2> QED  BY <2>4, <2>5
<1>5. CASE t = s /\ ReadReply(s)
  <2>1. /\ pc'[t] = "head" /\ c2s[t] = << >> /\ c2s' = c2s /\ offset' = offset
    BY <1>1, <1>5 DEF ReadReply, Goto, ClientReceive, WireOK, OneAtATime, CellsOK
  <2> QED  BY <1>1, <2>1 DEF Carrying, Delivery
<1>6. CASE t = s /\ ~SendPacket(s) /\ ~SendFails(s) /\ ~ReadReply(s)
  <2>1. c2s' = c2s /\ offset' = offset /\ reported' = reported
    BY <1>6 DEF ClientStep, Scheduler, Upload, Pick, Launch, ConnectOk, ConnectFails, TestLoop,
      MarkUploading, ReadFails, Finish, Cancel, LocalFileChanges, Connect,
      ClientReceiveFails, linkVars
  <2>2. pc'[t] \in {"mark", "send", "reply"} => Size[t] > 0
    <3>1. CASE TestLoop(s)
      BY <1>1, <1>6, <3>1 DEF TestLoop, Goto, GoesOn, CellsOK
    <3>2. CASE ~TestLoop(s)
      <4>1. pc'[t] \in {"mark", "send", "reply"} => pc[t] \in {"mark", "send", "reply"}
        BY <1>1, <1>6, <3>2 DEF ClientStep, Scheduler, Upload, Pick, Launch, ConnectOk, ConnectFails,
           MarkUploading, ReadFails, Finish, Cancel, LocalFileChanges, Goto, CellsOK
      <4> QED  BY <1>1, <4>1 DEF Carrying
    <3> QED  BY <3>1, <3>2
  <2> QED  BY <1>1, <2>1, <2>2 DEF Carrying, Wants, Asked, Delivery
<1> QED  BY <1>3, <1>4, <1>5, <1>6

LEMMA StepWeave ==
    ASSUME WeaveInv, [Next]_uploadVars
    PROVE  WeaveInv'
<1>1. UploadInv'
  BY StepInv DEF WeaveInv
<1>2. CASE ServerNext /\ UNCHANGED cellVars
  BY <1>1, <1>2, ServerWeave
<1>3. ASSUME NEW s \in Conns, ClientStep(s) PROVE WeaveInv'
  <2>1. UNCHANGED <<diskVars, mixed>>
    BY <1>3 DEF ClientStep, Scheduler, Upload, Pick, Launch, ConnectOk, ConnectFails, TestLoop,
      MarkUploading, SendPacket, SendFails, ReadReply, ReadFails, Finish, Cancel,
      LocalFileChanges, serverVars, diskVars, readerVars
  <2> QED  BY <1>1, <1>3, <2>1, ClientCarries, WeaveKept DEF WeaveInv, Unmixed
<1>4. CASE AppStep \/ UNCHANGED uploadVars
  <2>1. Still /\ Delivery' = Delivery /\ UNCHANGED <<diskVars, mixed>>
    BY <1>4, StillSteps DEF Still, serverVars, diskVars, readerVars, Delivery
  <2>2. ASSUME NEW s \in Conns PROVE Carrying(s)' /\ Delivery[s] <= Delivery'[s]
    <3>1. Delivery[s] \in Nat
      BY DeliveryFacts DEF WeaveInv
    <3> QED  BY <2>1, <3>1 DEF Still, WeaveInv, Carrying, Wants, Asked
  <2> QED  BY <1>1, <2>1, <2>2, WeaveKept DEF WeaveInv, Unmixed
<1> QED  BY <1>2, <1>3, <1>4 DEF Next, ClientStep, AppStep

LEMMA BehindIsRest ==
    ASSUME NEW old \in Seq(Bytes), NEW part \in Seq(Bytes)
    PROVE  SubSeq(old \o part, Len(old) + 1, Len(old \o part)) = part
<1> DEFINE whole == old \o part
           rest == SubSeq(whole, Len(old) + 1, Len(whole))
<1>1. /\ whole \in Seq(Bytes) /\ Len(whole) = Len(old) + Len(part)
      /\ Len(old) \in Nat /\ Len(part) \in Nat
      /\ \A i \in 1..Len(part) : whole[Len(old) + i] = part[i]
  <2>1. Len(old) \in Nat /\ Len(part) \in Nat
    BY LenProperties
  <2>2. /\ whole \in Seq(Bytes) /\ Len(whole) = Len(old) + Len(part)
        /\ \A i \in 1..Len(old) + Len(part) :
             whole[i] = IF i <= Len(old) THEN old[i] ELSE part[i - Len(old)]
    BY ConcatProperties
  <2> HIDE DEF whole
  <2> QED  BY <2>1, <2>2
<1> HIDE DEF whole
<1>2. CASE Len(part) = 0
  <2>1. part = << >>
    BY <1>2, EmptySeq
  <2>2. rest = << >>
    BY <1>1, <1>2, SubSeqEmpty
  <2> QED  BY <2>1, <2>2 DEF whole
<1>3. CASE Len(part) > 0
  <2>1. \A i \in 1..Len(whole) : whole[i] \in Bytes
    BY <1>1, ElementOfSeq
  <2>2. /\ rest \in Seq(Bytes) /\ Len(rest) = Len(part)
        /\ \A i \in 1..Len(part) : rest[i] = whole[Len(old) + i]
    <3>1. \A i \in Len(old) + 1 .. Len(whole) : whole[i] \in Bytes
      BY <1>1, <2>1
    <3>2. /\ rest \in Seq(Bytes) /\ Len(rest) = Len(whole) - (Len(old) + 1) + 1
          /\ \A i \in 1..Len(whole) - (Len(old) + 1) + 1 : rest[i] = whole[Len(old) + 1 + i - 1]
      BY <1>1, <1>3, <3>1, SubSeqProperties
    <3>3. Len(whole) - (Len(old) + 1) + 1 = Len(part)
      BY <1>1
    <3>4. \A i \in 1..Len(part) : Len(old) + 1 + i - 1 = Len(old) + i
      BY <1>1
    <3> HIDE DEF rest
    <3> QED  BY <3>2, <3>3, <3>4
  <2> HIDE DEF rest
  <2>3. rest = part
    BY <1>1, <2>2, SeqEqual
  <2> QED  BY <2>3 DEF rest, whole
<1> QED  BY <1>1, <1>2, <1>3

\* Whatever a path is used for, also by several streams at a time and on a disk
\* that may be full: behind its first content, or nothing, a file on the server
\* holds what the streams to it have read, each stream's bytes in order and once,
\* and nothing else, as long as no frame of theirs was read in part and taken for
\* another packet; a path that only empty files go to stays as it was.
THEOREM StoredFilesAreWoven == Spec => []StoredIsWoven
<1>1. Init => WeaveInv
  BY InitWeave
<1>2. WeaveInv /\ [Next]_uploadVars => WeaveInv'
  BY StepWeave
<1>3. ASSUME WeaveInv, NEW p \in Paths, NEW old \in {<< >>, InitialAt(p)}, WovenBehind(p, old)
      PROVE  files[p] = old \o Behind(p, old) /\ Woven(Behind(p, old), p, offset)
  <2>1. PICK part \in Seq(Bytes) : files[p] = old \o part /\ Woven(part, p, Delivery)
    BY <1>3 DEF WovenBehind
  <2>2. old \in Seq(Bytes)
    BY <1>3, InitialType, EmptySeq
  <2>3. Behind(p, old) = part
    BY <2>1, <2>2, BehindIsRest DEF Behind
  <2>4. /\ Delivery \in [Conns -> Nat] /\ offset \in [Conns -> Nat]
        /\ \A s \in Conns : Delivery[s] <= offset[s]
    BY <1>3, DeliveryFacts DEF WeaveInv, UploadInv, TypeInv, TypeOK, CellsOK
  <2> QED  BY <2>1, <2>3, <2>4, WovenGrows
<1>4. WeaveInv => StoredIsWoven
  BY <1>3 DEF StoredIsWoven, WeaveInv, WovenAt, Unmixed
<1> QED  BY <1>1, <1>2, <1>4, PTL DEF Spec

-----------------------------------------------------------------------------
(***************************************************************************)
(* Cancelling.  A cancel no write of the status overtook stays in the cell  *)
(* until the loop sees it; only a packet that was about to be sent is left. *)
(***************************************************************************)
CancelledOK(s) ==
    s \notin overtaken /\ asked[s] # NotAsked =>
        /\ pc[s] \notin {"picked", "mark"}
        /\ pc[s] \in {"queued", "connect", "head", "send", "reply"}
             => status[s] = "UPLOAD_CANCELED"
        /\ pc[s] = "send" => offset[s] = asked[s]
        /\ offset[s] <= asked[s] + BufferSize

Cancelled == \A s \in Conns : CancelledOK(s)

LEMMA ClientCancelled ==
    ASSUME TypeInv, NEW s \in Conns, CancelledOK(s), ClientStep(s)
    PROVE  CancelledOK(s)'
<1> USE DEF TypeInv, TypeOK, CellsOK, CancelledOK
<1>1. BufferSize \in Nat /\ NotAsked = -1
  BY BufferSizeAssumption DEF NotAsked
<1>2. CASE Pick(s) \/ Launch(s) \/ ConnectOk(s) \/ ConnectFails(s) \/ MarkUploading(s)
  BY <1>2 DEF Pick, Launch, ConnectOk, ConnectFails, MarkUploading, Goto, SetStatus, appVars
<1>3. CASE TestLoop(s)
  BY <1>3 DEF TestLoop, GoesOn, Stops, Goto, appVars
<1>4. CASE SendPacket(s) \/ SendFails(s)
  <2>1. /\ offset[s] \in Nat /\ Len(ReadBytes(s)) \in Nat /\ Len(ReadBytes(s)) <= BufferSize
        /\ offset'[s] = offset[s] + Len(ReadBytes(s))
    BY <1>4, PacketFacts DEF SendPacket, SendFails, Advance
  <2>2. pc[s] = "send" /\ pc'[s] \in {"reply", "end"} /\ UNCHANGED <<asked, overtaken>>
    BY <1>4 DEF SendPacket, SendFails, Goto, appVars
  <2>3. pc'[s] = "reply" => UNCHANGED status
    BY <1>4 DEF SendPacket, SendFails, Goto
  <2> QED  BY <1>1, <2>1, <2>2, <2>3
<1>5. CASE ReadReply(s) \/ ReadFails(s) \/ Finish(s)
  BY <1>5 DEF ReadReply, ReadFails, Finish, Goto, appVars
<1>6. CASE Cancel(s)
  <2>1. /\ asked'[s] = offset[s] /\ offset' = offset /\ pc' = pc
        /\ status'[s] = "UPLOAD_CANCELED" /\ offset[s] \in Nat
        /\ s \notin overtaken' => pc[s] \notin {"picked", "mark"}
    BY <1>6 DEF Cancel, SetStatus
  <2> QED  BY <1>1, <2>1
<1>7. CASE LocalFileChanges(s)
  BY <1>7 DEF LocalFileChanges, appVars
<1> QED  BY <1>2, <1>3, <1>4, <1>5, <1>6, <1>7 DEF ClientStep, Scheduler, Upload

LEMMA OthersCancelled ==
    ASSUME TypeInv, NEW s \in Conns, NEW t \in Conns, t # s, CancelledOK(t), ClientStep(s)
    PROVE  CancelledOK(t)'
<1>1. offset'[t] = offset[t] /\ pc'[t] = pc[t]
  BY OwnLink DEF ClientStep
<1>2. status'[t] = status[t] /\ asked'[t] = asked[t] /\ (t \in overtaken' <=> t \in overtaken)
  BY DEF TypeInv, TypeOK, CellsOK, ClientStep, Scheduler, Upload, Pick, Launch, ConnectOk,
         ConnectFails, TestLoop, MarkUploading, SendPacket, SendFails, ReadReply, ReadFails,
         Finish, Cancel, LocalFileChanges, SetStatus, appVars
<1> QED  BY <1>1, <1>2 DEF CancelledOK

LEMMA StepCancelled ==
    ASSUME TypeInv, Cancelled, [Next]_uploadVars
    PROVE  Cancelled'
<1>1. CASE UNCHANGED cellVars \/ Still
  BY <1>1 DEF Cancelled, CancelledOK, cellVars, appVars, Still
<1>2. ASSUME NEW s \in Conns, ClientStep(s)
      PROVE  Cancelled'
  BY <1>2, ClientCancelled, OthersCancelled DEF Cancelled
<1> QED  BY <1>1, <1>2, StillSteps DEF Next, ClientStep, AppStep

\* A cancel from another thread, without a lock, lets at most one more packet
\* go out, unless it fell between a test of the status and the write after it.
THEOREM CancelsArePrompt == Spec => []CancelIsPrompt
<1>1. Init => TypeInv /\ Cancelled
  BY InitType DEF Init, Cancelled, CancelledOK
<1>2. TypeInv /\ Cancelled /\ [Next]_uploadVars => (TypeInv /\ Cancelled)'
  BY StepType, StepCancelled
<1>3. TypeInv /\ Cancelled => CancelIsPrompt
  BY DEF Cancelled, CancelledOK, CancelIsPrompt
<1> QED  BY <1>1, <1>2, <1>3, PTL DEF Spec

-----------------------------------------------------------------------------
(***************************************************************************)
(* How a thread ends.  The loop leaves with the offset at the size, or with *)
(* "failed" told: a packet that was read past the size goes out with no     *)
(* flag, the server answers it with nothing, and only the session's end     *)
(* takes the thread out of its wait.                                       *)
(***************************************************************************)
\* EndIsTold speaks of these streams.
Plain(s) ==
    /\ asked[s] = NotAsked /\ mixed[s] = {}
    /\ Size[s] >= BufferSize \/ "local" \notin Faults

\* No reply has come, and none can come to the packet under way.
Unanswerable(s) ==
    /\ s2c[s] = << >>
    /\ c2s[s] # << >> /\ Wants(s, "upload") => Asked(s).flags = "unset"

BeginOK(s) ==
    /\ "local" \notin Faults => local[s] = Size[s]
    /\ pc[s] \in {"queued", "picked", "connect"} => sock[s] = "none" /\ offset[s] = 0

LoopOK(s) ==
    Plain(s) =>
        /\ pc[s] \in Before \cup {"reply"} => status[s] \notin Stops
        /\ pc[s] \in Before => offset[s] <= Size[s]
        /\ pc[s] = "reply" /\ offset[s] > Size[s] => Unanswerable(s)
        /\ pc[s] = "end" => notices[s] # {} \/ offset[s] = Size[s]
        /\ pc[s] = "done" /\ sock[s] # "none" => notices[s] # {}

Told == \A s \in Conns : BeginOK(s) /\ LoopOK(s)

EndInv == TypeInv /\ Wire /\ Sent /\ ListOK /\ Told

LEMMA InitEnd == Init => EndInv
<1> SUFFICES ASSUME Init PROVE EndInv
  OBVIOUS
<1>1. clients = << >> /\ cursor = 0 /\ \A c \in Conns : sock[c] = "none"
  BY DEF Init, ServerInit, SessionsInit, LinkInit
<1>2. ListOK
  BY <1>1, EmptySeq DEF ListOK, NoneTwice
<1>3. Told
  BY <1>1, StreamsAssumption
  DEF Init, Told, BeginOK, LoopOK, Stops, Before
<1> QED  BY <1>2, <1>3, InitType, InitWire, InitData DEF EndInv

\* A packet that carries bytes from before the size to behind it has no flag;
\* without changes of the local file there is none.
LEMMA OvershootHasNoFlag ==
    ASSUME TypeInv, NEW s \in Conns, BeginOK(s), Plain(s), offset[s] <= Size[s],
           offset[s] + Len(ReadBytes(s)) > Size[s]
    PROVE  GetPacket(s).flags = "unset"
<1> DEFINE len == Len(ReadBytes(s))
<1>1. /\ len \in Nat /\ len <= BufferSize /\ BufferSize \in Nat
      /\ offset[s] \in Nat /\ Size[s] \in Nat /\ Size[s] <= Len(Content[s])
      /\ Content[s] \in Seq(Bytes) /\ Len(Content[s]) \in Nat
  BY PacketFacts, BufferSizeAssumption, StreamsAssumption, LenProperties
  DEF TypeInv, TypeOK, CellsOK
<1>2. "local" \in Faults
  <2> SUFFICES ASSUME "local" \notin Faults PROVE FALSE
    OBVIOUS
  <2>1. local[s] = Size[s] /\ local[s] # Missing
    BY <1>1 DEF BeginOK, Missing
  <2> DEFINE c == SubSeq(Content[s], 1, Size[s])
  <2>2. c \in Seq(Bytes) /\ Len(c) = Size[s] /\ SubSeq(c, 1, Size[s]) = c
    <3>1. c \in Seq(Bytes) /\ Len(c) = Size[s]
      BY <1>1, PrefixFacts
    <3> QED  BY <3>1, SubSeqFull
  <2>3. ReadBytes(s) = NextChunk(c, offset[s])
    BY <2>1 DEF ReadBytes
  <2> HIDE DEF c
  <2>4. offset[s] + Len(NextChunk(SubSeq(c, 1, Size[s]), offset[s])) \in offset[s]..Size[s]
    <3>1. offset[s] \in 0..Len(c) /\ Size[s] \in 0..Len(c)
      BY <1>1, <2>2
    <3>2. offset[s] + Len(NextChunk(SubSeq(c, 1, Size[s]), offset[s])) \in offset[s]..Len(c)
      BY <2>2, <3>1, NextChunkIsSlice
    <3> QED  BY <2>2, <3>2
  <2>5. offset[s] + len \in offset[s]..Size[s]
    BY <2>2, <2>3, <2>4
  <2> HIDE DEF len
  <2> QED  BY <1>1, <2>5 DEF len
<1>3. local[s] # Missing
  <2> SUFFICES ASSUME local[s] = Missing PROVE FALSE
    OBVIOUS
  <2>1. len = 0
    BY EmptySeq DEF ReadBytes
  <2> HIDE DEF len
  <2> QED  BY <1>1, <2>1 DEF len
<1>4. PacketFlags(offset[s] + len, len, Size[s]) = "unset"
  <2>1. Size[s] >= BufferSize
    BY <1>2 DEF Plain
  <2> HIDE DEF len
  <2> QED  BY <1>1, <2>1 DEF PacketFlags, len
<1> QED  BY <1>3, <1>4 DEF GetPacket, UploadRequest

\* The server can take the packet away, or read it in part and reject it; it does
\* not answer it.
LEMMA ServerUnanswering ==
    ASSUME TypeInv, Wire, Sent, NEW s \in Conns, Unanswerable(s), ServerNext, mixed'[s] = {}
    PROVE  Unanswerable(s)'
<1>1. ServerOK /\ ~(c2s[s] # << >> /\ NotAnUpload(s))
  BY SentMeansExpected DEF TypeInv, TypeOK, Sent
<1>2. CASE NoAnswer(s)
  <2>1. c2s'[s] \in {c2s[s], << >>} /\ s2c'[s] = s2c[s]
    BY <1>2, AtOnlyOne DEF NoAnswer
  <2> QED  BY <2>1 DEF Unanswerable, Wants, Asked
<1>3. CASE SplitFrame(s)
  <2>1. c2s[s] # << >> /\ s2c' = s2c /\ (Asked(s)' = Asked(s) \/ ~Asked(s)'.trusted)
    BY <1>1, <1>3, SplitFacts, MixedStays
  <2> QED  BY <2>1 DEF Unanswerable, Wants
<1>4. CASE \A c \in Conns : ~StoreUpload(c)
  BY <1>1, <1>2, <1>3, <1>4, ServerMoves DEF OneAnswer
<1>5. ASSUME NEW c \in Conns, StoreUpload(c)
      PROVE  Unanswerable(s)'
  <2>1. c # s
    BY <1>5 DEF StoreUpload, Reads, UploadMode, OpenMode, Unanswerable, FrameIsThere
  <2>2. NoAnswer(s)
    BY <1>1, <1>5, <2>1, StoreMoves DEF NoAnswer
  <2> QED  BY <1>2, <2>2
<1> QED  BY <1>4, <1>5

LEMMA ServerEnd ==
    ASSUME EndInv, ServerNext, UNCHANGED cellVars
    PROVE  ListOK' /\ Told'
<1>1. ListOK' /\ \A s \in Conns : sock[s] = "none" => sock'[s] = "none"
  BY ServerList DEF EndInv, TypeInv, TypeOK
<1>2. ASSUME NEW s \in Conns
      PROVE  BeginOK(s)' /\ LoopOK(s)'
  <2>1. /\ BeginOK(s) /\ LoopOK(s)
        /\ mixed'[s] = {} => mixed[s] = {} /\ (Unanswerable(s) => Unanswerable(s)')
    BY ServerUnanswering, MixedStays DEF EndInv, Told, TypeInv, TypeOK
  <2>2. BeginOK(s)'
    BY <1>1, <2>1 DEF BeginOK, cellVars
  <2>3. LoopOK(s)'
    BY <1>1, <2>1 DEF LoopOK, Plain, cellVars, appVars
  <2> QED  BY <2>2, <2>3
<1> QED  BY <1>1, <1>2 DEF Told

LEMMA ClientKeepsList ==
    ASSUME TypeInv, ListOK, NEW s \in Conns, ClientStep(s)
    PROVE  /\ ListOK'
           /\ \A t \in Conns \ {s} : sock'[t] = sock[t]
<1> USE DEF TypeInv, TypeOK, ServerOK
<1>1. UNCHANGED <<clients, cursor>>
  BY DEF ClientStep, Scheduler, Upload, Pick, Launch, ConnectOk, ConnectFails, TestLoop,
         MarkUploading, SendPacket, SendFails, ReadReply, ReadFails, Finish, Cancel,
         LocalFileChanges, serverVars
<1>2. sock' = sock \/ (sock[s] = "none" /\ sock' = [sock EXCEPT ![s] = "backlog"])
  BY DEF ClientStep, Scheduler, Upload, Pick, Launch, ConnectOk, ConnectFails, TestLoop,
         MarkUploading, SendPacket, SendFails, ReadReply, ReadFails, Finish, Cancel,
         LocalFileChanges, linkVars, Connect, ClientSend, ClientSendFails, ClientReceive,
         ClientReceiveFails
<1> QED  BY <1>1, <1>2, ListKept

LEMMA OthersEnd ==
    ASSUME TypeInv, ListOK, NEW s \in Conns, NEW t \in Conns, t # s,
           BeginOK(t), LoopOK(t), ClientStep(s)
    PROVE  BeginOK(t)' /\ LoopOK(t)'
<1>1. /\ c2s'[t] = c2s[t] /\ s2c'[t] = s2c[t] /\ offset'[t] = offset[t] /\ pc'[t] = pc[t]
      /\ notices'[t] = notices[t]
  BY OwnLink DEF ClientStep
<1>2. status'[t] = status[t] /\ asked'[t] = asked[t]
  BY DEF TypeInv, TypeOK, CellsOK, ClientStep, Scheduler, Upload, Pick, Launch, ConnectOk,
         ConnectFails, TestLoop, MarkUploading, SendPacket, SendFails, ReadReply, ReadFails,
         Finish, Cancel, LocalFileChanges, SetStatus, appVars
<1>3. local'[t] = local[t]
  BY DEF TypeInv, TypeOK, CellsOK, ClientStep, Scheduler, Upload, Pick, Launch, ConnectOk,
         ConnectFails, TestLoop, MarkUploading, SendPacket, SendFails, ReadReply, ReadFails,
         Finish, Cancel, LocalFileChanges
<1>4. sock'[t] = sock[t] /\ mixed' = mixed
  BY ClientKeepsList, ClientFiles
<1> QED  BY <1>1, <1>2, <1>3, <1>4 DEF BeginOK, LoopOK, Plain, Unanswerable, Wants, Asked

LEMMA ClientBegins ==
    ASSUME TypeInv, NEW s \in Conns, BeginOK(s), ClientStep(s)
    PROVE  BeginOK(s)'
<1> USE DEF TypeInv, TypeOK, CellsOK, ServerOK, BeginOK
<1>1. CASE Pick(s) \/ Launch(s) \/ ConnectOk(s) \/ ConnectFails(s) \/ TestLoop(s)
           \/ MarkUploading(s) \/ Finish(s)
  BY <1>1 DEF Pick, Launch, ConnectOk, ConnectFails, TestLoop, MarkUploading, Finish, Goto,
              linkVars
<1>2. CASE SendPacket(s) \/ SendFails(s) \/ ReadReply(s) \/ ReadFails(s)
  BY <1>2 DEF SendPacket, SendFails, ReadReply, ReadFails, Goto
<1>3. CASE Cancel(s) \/ LocalFileChanges(s)
  BY <1>3 DEF Cancel, LocalFileChanges, linkVars
<1> QED  BY <1>1, <1>2, <1>3 DEF ClientStep, Scheduler, Upload

LEMMA ClientEnds ==
    ASSUME TypeInv, Wire, NEW s \in Conns, BeginOK(s), LoopOK(s), ClientStep(s)
    PROVE  LoopOK(s)'
<1> SUFFICES ASSUME Plain(s)' PROVE LoopOK(s)'
  BY DEF LoopOK
<1> USE DEF TypeInv, TypeOK, CellsOK, ServerOK, BeginOK, LoopOK, Before
<1>1. /\ offset[s] \in Nat /\ Size[s] \in Nat /\ NotAsked = -1
  BY StreamsAssumption DEF NotAsked
<1>2. ~Cancel(s) /\ Plain(s)
  BY <1>1, ClientFiles
  DEF Plain, Cancel, ClientStep, Scheduler, Upload, Pick, Launch, ConnectOk, ConnectFails, TestLoop,
      MarkUploading, SendPacket, SendFails, ReadReply, ReadFails, Finish, LocalFileChanges, appVars
<1>3. CASE Pick(s) \/ Launch(s) \/ MarkUploading(s)
  BY <1>2, <1>3 DEF Pick, Launch, MarkUploading, Goto, SetStatus, Stops
<1>4. CASE ConnectOk(s) \/ ConnectFails(s)
  BY <1>2, <1>4 DEF ConnectOk, ConnectFails, Goto, linkVars
<1>5. CASE TestLoop(s)
  BY <1>1, <1>2, <1>5 DEF TestLoop, GoesOn, Goto
<1>6. CASE SendPacket(s)
  <2>1. /\ pc[s] = "send" /\ pc'[s] = "reply" /\ status' = status
        /\ offset'[s] = offset[s] + Len(ReadBytes(s))
    BY <1>6 DEF SendPacket, Goto, Advance
  <2>2. c2s[s] = << >> /\ s2c[s] = << >>
    BY <2>1 DEF Wire, WireOK, Unused
  <2>3. /\ s2c'[s] = << >>
        /\ c2s'[s] = << >> \/ c2s'[s] = Append(<< >>, GetPacket(s))
    BY <1>6, <2>2 DEF SendPacket, ClientSend
  <2>4. c2s'[s] # << >> => Asked(s)' = GetPacket(s)
    BY <2>3, RequestFacts, AppendToEmpty DEF Asked
  <2>5. ASSUME offset'[s] > Size[s] PROVE Unanswerable(s)'
    BY <1>2, <2>1, <2>3, <2>4, <2>5, OvershootHasNoFlag DEF Unanswerable, Wants
  <2> QED  BY <1>2, <2>1, <2>5
<1>7. CASE SendFails(s) \/ ReadFails(s)
  <2>1. pc'[s] = "end" /\ notices'[s] = notices[s] \cup {"failed"}
    BY <1>7 DEF SendFails, ReadFails, Goto, Tell
  <2>2. notices'[s] # {}
    BY <2>1
  <2> QED  BY <2>1, <2>2
<1>8. CASE ReadReply(s)
  <2>1. pc[s] = "reply" /\ pc'[s] = "head" /\ s2c[s] # << >> /\ UNCHANGED <<status, offset>>
    BY <1>8 DEF ReadReply, Goto, ClientReceive
  <2>2. offset[s] <= Size[s]
    BY <1>1, <1>2, <2>1 DEF Unanswerable
  <2> QED  BY <1>2, <2>1, <2>2
<1>9. CASE Finish(s)
  <2>1. pc[s] = "end" /\ pc'[s] = "done"
        /\ \/ notices' = notices /\ offset[s] # Size[s]
           \/ notices'[s] = notices[s] \cup {"uploaded"}
    BY <1>9 DEF Finish, Goto, Tell
  <2>2. notices'[s] # {}
    BY <1>2, <2>1
  <2> QED  BY <2>1, <2>2
<1>10. CASE LocalFileChanges(s)
  BY <1>2, <1>10 DEF LocalFileChanges, linkVars, Unanswerable, Wants, Asked
<1> QED  BY <1>2, <1>3, <1>4, <1>5, <1>6, <1>7, <1>8, <1>9, <1>10
      DEF ClientStep, Scheduler, Upload

LEMMA StepEnd ==
    ASSUME EndInv, [Next]_uploadVars
    PROVE  EndInv'
<1>1. TypeInv' /\ Wire'
  BY StepType, StepWire DEF EndInv
<1>2. CASE AppStep \/ UNCHANGED uploadVars
  <2>1. Still
    BY <1>2, StillSteps
  <2>2. ListOK'
    BY <2>1 DEF EndInv, ListOK, NoneTwice, Still, serverVars
  <2>3. Told'
    BY <2>1 DEF EndInv, Told, BeginOK, LoopOK, Plain, Unanswerable, Wants, Asked, Still, serverVars,
                readerVars
  <2>4. Sent'
    BY <2>1 DEF EndInv, Sent, SentByStream, Asked, Still, serverVars, readerVars
  <2> QED  BY <1>1, <2>2, <2>3, <2>4 DEF EndInv
<1>3. ASSUME NEW s \in Conns, ClientStep(s)
      PROVE  EndInv'
  <2>1. Told'
    BY <1>3, OthersEnd, ClientBegins, ClientEnds DEF EndInv, Told
  <2>2. ListOK'
    BY <1>3, ClientKeepsList DEF EndInv
  <2> QED  BY <1>1, <1>3, <2>1, <2>2, ClientSent DEF EndInv
<1>4. CASE ServerNext /\ UNCHANGED cellVars
  BY <1>1, <1>4, ServerEnd, ServerSent DEF EndInv
<1> QED  BY <1>2, <1>3, <1>4 DEF Next, ClientStep, AppStep

\* No thread that had a connection ends without a final event, whatever fails
\* and however the length of the local file changes, if it is at least a packet
\* long and no frame of it was read in part and taken for another packet.
THEOREM EndsAreTold == Spec => []EndIsTold
<1>1. EndInv => EndIsTold
  BY DEF EndInv, Told, LoopOK, Plain, EndIsTold
<1>2. EndInv /\ [Next]_uploadVars => EndInv'
  BY StepEnd
<1> QED  BY <1>1, <1>2, InitEnd, PTL DEF Spec

-----------------------------------------------------------------------------
(***************************************************************************)
(* Why uploads end, as far as it is a matter of safety: who waits is in the *)
(* hands of the server or sees the end, and every reply brings the offset   *)
(* forward, which is bounded by the file.                                  *)
(***************************************************************************)
Linked(s) == pc[s] \in {"head", "mark", "send", "reply", "end"} => sock[s] # "none"

HeldInv == EndInv /\ Down /\ \A s \in Conns : Linked(s)

LEMMA StepHeld ==
    ASSUME HeldInv, [Next]_uploadVars
    PROVE  HeldInv'
<1> USE DEF HeldInv
<1>1. EndInv'
  BY StepEnd
<1>2. TypeInv /\ TypeOK /\ CellsOK /\ ServerOK
  BY DEF EndInv, TypeInv, TypeOK
<1>3. CASE ServerNext /\ UNCHANGED cellVars
  <2>1. Down'
    BY <1>2, <1>3, ServerDown
  <2>2. \A s \in Conns : Linked(s)'
    BY <1>2, <1>3, ConnectionsStay DEF Linked, cellVars
  <2> QED  BY <1>1, <2>1, <2>2
<1>4. ASSUME NEW s \in Conns, ClientStep(s)
      PROVE  HeldInv'
  <2>1. CASE ConnectOk(s)
    <3>1. up /\ up' = up /\ sock' = [sock EXCEPT ![s] = "backlog"]
          /\ pc' = [pc EXCEPT ![s] = "head"]
      BY <2>1 DEF ConnectOk, Connect, Goto, serverVars
    <3> QED  BY <1>1, <1>2, <3>1 DEF Down, Linked, CellsOK, ServerOK
  <2>2. CASE ~ConnectOk(s)
    <3>1. UNCHANGED <<up, sock>>
      BY <1>4, <2>2 DEF ClientStep, Scheduler, Upload, Pick, Launch, ConnectFails, TestLoop,
           MarkUploading, SendPacket, SendFails, ReadReply, ReadFails, Finish, Cancel,
           LocalFileChanges, ClientSend, ClientSendFails, ClientReceive, ClientReceiveFails,
           linkVars, serverVars
    <3>2. /\ pc'[s] \in {"head", "mark", "send", "reply", "end"}
               => pc[s] \in {"head", "mark", "send", "reply", "end"}
          /\ \A t \in Conns \ {s} : pc'[t] = pc[t]
      BY <1>2, <1>4, <2>2
      DEF ClientStep, Scheduler, Upload, Pick, Launch, ConnectFails, TestLoop, MarkUploading,
          SendPacket, SendFails, ReadReply, ReadFails, Finish, Cancel, LocalFileChanges, Goto,
          CellsOK
    <3> QED  BY <1>1, <3>1, <3>2 DEF Down, Linked
  <2> QED  BY <2>1, <2>2
<1>5. CASE AppStep \/ UNCHANGED uploadVars
  BY <1>1, <1>5, StillSteps DEF Still, Down, Linked, serverVars
<1> QED  BY <1>3, <1>4, <1>5 DEF Next, ClientStep, AppStep

\* read_reply never waits for a server that has forgotten the session.
THEOREM WaitingUploadsAreHeld == Spec => []WaitingIsHeld
<1>1. Init => HeldInv
  BY InitEnd DEF Init, ServerInit, LinkInit, HeldInv, Down, Linked
<1>2. HeldInv /\ [Next]_uploadVars => HeldInv'
  BY StepHeld
<1>3. HeldInv => WaitingIsHeld
  <2> SUFFICES ASSUME HeldInv PROVE WaitingIsHeld
    OBVIOUS
  <2>1. NobodyIsForgotten
    BY HeldOrBroken DEF HeldInv, EndInv, TypeInv, TypeOK
  <2> QED  BY <2>1 DEF HeldInv, Linked, NobodyIsForgotten, WaitingIsHeld
<1> QED  BY <1>1, <1>2, <1>3, PTL DEF Spec

\* Below its size an undisturbed local file gives at least one byte.
LEMMA PacketsHaveBytes ==
    ASSUME TypeInv, NEW s \in Conns, local[s] = Size[s], offset[s] < Size[s]
    PROVE  Len(ReadBytes(s)) > 0
<1>1. /\ Content[s] \in Seq(Bytes) /\ Len(Content[s]) \in Nat
      /\ Size[s] \in 0..Len(Content[s]) /\ offset[s] \in Nat /\ BufferSize \in Nat \ {0}
  BY StreamsAssumption, BufferSizeAssumption, LenProperties DEF TypeInv, TypeOK, CellsOK
<1> DEFINE c == SubSeq(Content[s], 1, Size[s])
           e == IF Len(c) < offset[s] + BufferSize THEN Len(c) ELSE offset[s] + BufferSize
<1>2. c \in Seq(Bytes) /\ Len(c) = Size[s] /\ \A i \in 1..Len(c) : c[i] \in Bytes
  <2>1. c \in Seq(Bytes) /\ Len(c) = Size[s]
    BY <1>1, PrefixFacts
  <2> QED  BY <2>1, ElementOfSeq
<1>3. ReadBytes(s) = SubSeq(c, offset[s] + 1, e)
  <2>1. local[s] # Missing
    BY <1>1 DEF Missing
  <2>2. ReadBytes(s) = NextChunk(c, offset[s])
    BY <2>1 DEF ReadBytes
  <2> QED  BY <2>2 DEF NextChunk
<1> HIDE DEF c
<1>4. e \in offset[s] + 1 .. Len(c)
  BY <1>1, <1>2
<1> HIDE DEF e
<1>5. Len(SubSeq(c, offset[s] + 1, e)) = e - (offset[s] + 1) + 1
  <2>1. \A i \in offset[s] + 1 .. e : c[i] \in Bytes
    BY <1>1, <1>2, <1>4
  <2> QED  BY <1>1, <1>2, <1>4, <2>1, SubSeqProperties
<1> QED  BY <1>1, <1>2, <1>3, <1>4, <1>5

MovingOK(s) ==
    /\ pc[s] \in {"mark", "send"} => offset[s] < Size[s]
    /\ pc[s] = "reply" => reported[s] < offset[s]

MovingInv == UploadInv /\ EndInv /\ \A s \in Conns : MovingOK(s)

LEMMA ClientMoves ==
    ASSUME "local" \notin Faults, MovingInv, NEW s \in Conns, ClientStep(s)
    PROVE  /\ MovingOK(s)'
           /\ pc[s] = "reply" /\ pc'[s] = "head" => reported'[s] > reported[s]
<1>1. /\ TypeInv /\ CellsOK /\ SyncOK(s) /\ MovingOK(s) /\ local[s] = Size[s]
      /\ offset[s] \in Nat /\ reported[s] \in Nat /\ Size[s] \in Nat
  BY StreamsAssumption
  DEF MovingInv, UploadInv, EndInv, Told, BeginOK, Sync, TypeInv, TypeOK, CellsOK
<1> USE <1>1 DEF MovingOK, CellsOK
<1>2. CASE SendPacket(s)
  <2> DEFINE n == Len(ReadBytes(s))
  <2>1. pc[s] = "send" /\ pc'[s] = "reply" /\ reported' = reported
        /\ offset'[s] = offset[s] + n
    BY <1>2 DEF SendPacket, Goto, Advance
  <2>2. n \in Nat /\ n > 0 /\ reported[s] = offset[s]
    BY <2>1, PacketFacts, PacketsHaveBytes DEF SyncOK, Before
  <2> HIDE DEF n
  <2> QED  BY <2>1, <2>2
<1>3. CASE TestLoop(s)
  BY <1>3 DEF TestLoop, GoesOn, Goto
<1>4. CASE ReadReply(s)
  BY <1>4 DEF ReadReply, Goto
<1>5. CASE SendFails(s) \/ ReadFails(s)
  BY <1>5 DEF SendFails, ReadFails, Goto
<1>6. CASE MarkUploading(s)
  BY <1>6 DEF MarkUploading, Goto
<1>7. CASE Cancel(s) \/ LocalFileChanges(s)
  BY <1>7 DEF Cancel, LocalFileChanges
<1>8. CASE Scheduler(s) \/ ConnectOk(s) \/ ConnectFails(s) \/ Finish(s)
  BY <1>8 DEF Scheduler, Pick, Launch, ConnectOk, ConnectFails, Finish, Goto
<1> QED  BY <1>2, <1>3, <1>4, <1>5, <1>6, <1>7, <1>8 DEF ClientStep, Upload

\* A reply is only ever read for a packet with bytes in it: the loop makes at
\* most as many turns as the file has bytes, as long as the file is left alone.
THEOREM AnsweredPacketsAdvance ==
    ASSUME "local" \notin Faults
    PROVE  Spec => RepliesAdvance
<1> DEFINE Advances == \A s \in Conns :
                         pc[s] = "reply" /\ pc'[s] = "head" => reported'[s] > reported[s]
<1>1. Init => MovingInv
  BY InitType, InitWire, InitData, InitEnd DEF MovingInv, UploadInv, MovingOK, Init
<1>2. MovingInv /\ [Next]_uploadVars => MovingInv' /\ [Advances]_uploadVars
  <2> SUFFICES ASSUME MovingInv, [Next]_uploadVars
               PROVE  (\A s \in Conns : MovingOK(s)') /\ [Advances]_uploadVars
    BY StepInv, StepEnd DEF MovingInv
  <2>1. CASE UNCHANGED cellVars \/ Still
    BY <2>1 DEF MovingInv, MovingOK, cellVars, Still
  <2>2. ASSUME NEW s \in Conns, ClientStep(s)
        PROVE  (\A t \in Conns : MovingOK(t)') /\ Advances
    <3>1. ASSUME NEW t \in Conns, t # s
          PROVE  MovingOK(t)' /\ ~(pc[t] = "reply" /\ pc'[t] = "head")
      <4>1. pc'[t] = pc[t] /\ offset'[t] = offset[t] /\ reported'[t] = reported[t]
        BY <2>2, <3>1, OwnLink DEF MovingInv, UploadInv, ClientStep
      <4> QED  BY <4>1 DEF MovingInv, MovingOK
    <3> QED  BY <2>2, <3>1, ClientMoves
  <2> QED  BY <2>1, <2>2, StillSteps DEF Next, ClientStep, AppStep
<1> QED  BY <1>1, <1>2, PTL DEF Spec, RepliesAdvance

-----------------------------------------------------------------------------
(***************************************************************************)
(* The refinement: each step of uploads, server and faults is a step of the *)
(* contract or leaves what the contract sees as it is.                      *)
(***************************************************************************)
\* What the contract sees of the regular streams.
StoredFiles == [s \in Regular |-> Stored(s)]
Reports == [s \in Regular |-> reported[s]]
FinalNotices == [s \in Regular |-> notices[s]]
Spoils == [s \in Regular |-> SpoiledAt(mixed[s])]

LEMMA ContractStarts == Init => Contract!Init
<1> SUFFICES ASSUME Init PROVE Contract!Init
  OBVIOUS
<1>1. ASSUME NEW s \in Regular
      PROVE  /\ Stored(s) = Initially(s) /\ reported[s] = 0 /\ notices[s] = {}
             /\ SpoiledAt(mixed[s]) = "no"
  <2>1. s \in Conns /\ Stem[Path[s]] \in Paths
    BY StemAssumption, StreamsAssumption DEF Regular
  <2> QED  BY <2>1 DEF Init, ServerInit, Stored, Initially, SpoiledAt
<1>2. handled \in BOOLEAN /\ alive = TRUE
  BY DEF Init
<1> QED  BY <1>1, <1>2 DEF Contract!Init

\* A stream with a message under way was not told of a clean end.
LEMMA SendersAreNotDone ==
    ASSUME UploadInv, NEW s \in Conns, c2s[s] # << >>
    PROVE  notices[s] # {"uploaded"}
<1>1. SplitOK(s) /\ SyncOK(s) /\ pc[s] \in Before \cup {"reply", "end", "done"} /\ ~Unused(s)
  BY DEF UploadInv, Split, Sync, TypeInv, TypeOK, CellsOK, Places, Before, Unused
<1> QED  BY <1>1 DEF SplitOK, SyncOK

LEMMA BytesOfFiles ==
    ASSUME NEW S, NEW q \in Seq(S)
    PROVE  q \in Seq(Contract!BytesOf(q))
<1>1. Len(q) \in Nat /\ DOMAIN q = 1..Len(q)
  BY LenProperties
<1>2. \A i \in 1..Len(q) : q[i] \in Contract!BytesOf(q)
  BY DEF Contract!BytesOf
<1>3. q = [i \in 1..Len(q) |-> q[i]]
  BY SeqDef, <1>1
<1> QED  BY <1>1, <1>2, <1>3, SeqDef

\* A packet of a regular stream is stored.
LEMMA ContractStores ==
    ASSUME "disk" \notin Faults, UploadInv, NEW s \in Regular, StoreUpload(s), UNCHANGED cellVars
    PROVE  Contract!Next
<1>1. /\ s \in Conns /\ c2s[s] # << >> /\ SyncOK(s) /\ CellsOK /\ ServerOK /\ mixed' = mixed
      /\ offset[s] \in Nat /\ reported[s] \in Nat /\ Size[s] \in Nat /\ Size[s] > 0
      /\ Len(Content[s]) \in Nat /\ offset[s] <= Len(Content[s])
  BY StreamsAssumption, LenProperties
  DEF UploadInv, Regular, StoreUpload, Reads, Sync, TypeInv, TypeOK, CellsOK, InFile,
      FrameIsThere
<1>2. SentByStream(s) /\ OfStream(Asked(s), s) /\ Target(s) = Stem[Path[s]]
  BY <1>1 DEF UploadInv, Sent, SentByStream, OfStream, Target
<1>3. ASSUME NEW t \in Regular, t # s PROVE Stored(t)' = Stored(t)
  <2>1. t \in Conns /\ Stem[Path[s]] # Stem[Path[t]]
    BY <1>1, <1>3 DEF Regular, Alone
  <2> QED  BY <1>1, <1>2, <2>1, StemAssumption, StreamsAssumption
           DEF StoreUpload, Stored, ServerOK
<1>4. StoredFiles' = [StoredFiles EXCEPT ![s] = files'[Stem[Path[s]]]]
  BY <1>3 DEF StoredFiles, Stored
<1>5. UNCHANGED <<Reports, FinalNotices, Spoils, handled, alive>>
  BY <1>1 DEF Reports, FinalNotices, Spoils, cellVars, appVars
<1>6. notices[s] # {"uploaded"}
  BY <1>1, SendersAreNotDone
<1>7. CASE mixed[s] = {}
  <2>1. DataOK(s) /\ AtReported(s) /\ Spoils[s] = "no"
    BY <1>1, <1>7 DEF UploadInv, Data, DataOK, Spoils, SpoiledAt
  <2>2. files'[Stem[Path[s]]] = FirstBytes(s, offset[s])
    BY <2>1, StoringAdvances DEF UploadInv, KeptOf
  <2>3. offset[s] \in reported[s]..Len(Content[s])
    BY <1>1 DEF SyncOK
  <2>4. Contract!Store(s)
    BY <1>4, <1>5, <1>6, <2>1, <2>2, <2>3
    DEF Contract!Store, Contract!IsStored, Contract!Ahead, AtReported, KeptOf, StoredFiles,
        Reports, FinalNotices, Spoils, FirstBytes
  <2> QED  BY <2>4 DEF Contract!Next
<1>8. CASE mixed[s] # {}
  <2> DEFINE Old == Contract!BytesOf(Stored(s))
             New == Contract!BytesOf(Content[s])
  <2>1. Spoils[s] # "no"
    BY <1>8 DEF Spoils, SpoiledAt
  <2>2. Stem[Path[s]] \in Paths /\ Stored(s) \in Seq(Bytes)
    BY <1>1, StemAssumption, StreamsAssumption DEF Stored, ServerOK
  <2>3. PICK w \in Written(Asked(s).data) :
          files'[Stem[Path[s]]] = IF UploadMode(s) = "truncate" THEN w ELSE Stored(s) \o w
    BY <1>1, <1>2, <2>2 DEF StoreUpload, Stored, ServerOK
  <2>4. w \in Seq(New)
    BY <1>2, <2>3 DEF Written, OfStream, FromFile, Contract!BytesOf
  <2>5. Stored(s) \in Seq(Old)
    BY <2>2, BytesOfFiles
  <2> HIDE DEF Old, New
  <2>6. w \in Seq(Old \cup New) /\ Stored(s) \in Seq(Old \cup New)
    BY <2>4, <2>5, SeqMonotonic
  <2>7. files'[Stem[Path[s]]] \in Seq(Old \cup New)
    BY <2>3, <2>6, ConcatProperties
  <2>8. Contract!StoreSpoiled(s)
    BY <1>4, <1>5, <1>6, <2>1, <2>7
    DEF Contract!StoreSpoiled, StoredFiles, Reports, FinalNotices, Spoils, Old, New
  <2> QED  BY <2>8 DEF Contract!Next
<1> QED  BY <1>7, <1>8

\* A frame of a regular stream is read in part.
LEMMA ContractSpoils ==
    ASSUME UploadInv, NEW s \in Regular, SplitFrame(s), UNCHANGED cellVars
    PROVE  [Contract!Next]_Contract!vars
<1>1. s \in Conns /\ ServerOK /\ SplitOK(s)
  BY DEF Regular, UploadInv, TypeInv, TypeOK, Split
<1>2. /\ c2s[s] # << >> /\ torn[s] = "no" /\ files' = files
      /\ mixed'[s] = {Asked(s).flags} \/ mixed'[s] = mixed[s]
      /\ \A t \in Conns \ {s} : mixed'[t] = mixed[t]
  BY <1>1, SplitFacts
<1>3. notices[s] # {"uploaded"} /\ mixed[s] = {}
  BY <1>1, <1>2, SendersAreNotDone DEF SplitOK
<1>4. UNCHANGED <<StoredFiles, Reports, FinalNotices, handled, alive>>
  BY <1>2 DEF StoredFiles, Stored, Reports, FinalNotices, cellVars, appVars
<1>5. Spoils' = [Spoils EXCEPT ![s] = SpoiledAt(mixed'[s])]
  BY <1>2 DEF Spoils, Regular
<1>6. CASE mixed'[s] = mixed[s]
  <2>1. Spoils' = Spoils
    BY <1>5, <1>6 DEF Spoils
  <2> QED  BY <1>4, <2>1 DEF Contract!vars, StoredFiles, Reports, FinalNotices, Spoils
<1>7. CASE mixed'[s] = {Asked(s).flags}
  <2>1. SpoiledAt(mixed'[s]) \in {"early", "last"} /\ Spoils[s] = "no"
    BY <1>3, <1>7 DEF SpoiledAt, Spoils
  <2>2. Contract!Spoil(s)
    BY <1>3, <1>4, <1>5, <2>1
    DEF Contract!Spoil, StoredFiles, Reports, FinalNotices, Spoils
  <2> QED  BY <2>2 DEF Contract!Next
<1> QED  BY <1>2, <1>6, <1>7

LEMMA ServerKeepsContract ==
    ASSUME "disk" \notin Faults, UploadInv, ServerNext, UNCHANGED cellVars
    PROVE  [Contract!Next]_Contract!vars
<1>1. UNCHANGED <<Reports, FinalNotices, handled, alive>> /\ ServerOK
  BY DEF Reports, FinalNotices, cellVars, appVars, UploadInv, TypeInv, TypeOK
<1>2. ASSUME \A s \in Regular : Stored(s)' = Stored(s) /\ mixed'[s] = mixed[s]
      PROVE  [Contract!Next]_Contract!vars
  <2>1. StoredFiles' = StoredFiles /\ Spoils' = Spoils
    BY <1>2 DEF StoredFiles, Spoils
  <2> QED  BY <1>1, <2>1 DEF Contract!vars, StoredFiles, Reports, FinalNotices, Spoils
<1>3. CASE \A c \in Conns : ~StoreUpload(c) /\ ~SplitFrame(c)
  <2>1. ASSUME NEW s \in Regular PROVE Stored(s)' = Stored(s) /\ mixed'[s] = mixed[s]
    <3>1. s \in Conns
      BY DEF Regular
    <3>2. files' = files
      BY <1>1, <1>3, <3>1, ServerMoves
    <3>3. mixed'[s] = mixed[s]
      BY <1>1, <1>3, <3>1, ReaderMoves DEF Reads
    <3> QED  BY <3>2, <3>3 DEF Stored
  <2> QED  BY <1>2, <2>1
<1>4. ASSUME NEW c \in Conns, SplitFrame(c)
      PROVE  [Contract!Next]_Contract!vars
  <2>1. CASE c \in Regular
    BY <1>4, <2>1, ContractSpoils
  <2>2. CASE c \notin Regular
    <3>1. ASSUME NEW s \in Regular PROVE Stored(s)' = Stored(s) /\ mixed'[s] = mixed[s]
      BY <1>1, <1>4, <2>2, SplitFacts DEF Regular, Stored
    <3> QED  BY <1>2, <3>1
  <2> QED  BY <2>1, <2>2
<1>5. ASSUME NEW c \in Regular, StoreUpload(c)
      PROVE  [Contract!Next]_Contract!vars
  BY <1>5, ContractStores
<1>6. ASSUME NEW c \in Conns, c \notin Regular, StoreUpload(c)
      PROVE  [Contract!Next]_Contract!vars
  <2>1. Target(c) = Stem[Path[c]] /\ mixed' = mixed
    BY <1>6
    DEF UploadInv, StoreUpload, Reads, Sent, SentByStream, OfStream, Target, FrameIsThere
  <2>2. ASSUME NEW s \in Regular PROVE Stored(s)' = Stored(s)
    <3>1. s \in Conns /\ Stem[Path[c]] # Stem[Path[s]]
      BY <1>6 DEF Regular, Alone
    <3> QED  BY <1>1, <1>6, <2>1, <3>1, StemAssumption, StreamsAssumption
             DEF StoreUpload, Stored, ServerOK
  <2> QED  BY <1>2, <2>1, <2>2
<1> QED  BY <1>3, <1>4, <1>5, <1>6

LEMMA ClientKeepsContract ==
    ASSUME "disk" \notin Faults, UploadInv, NEW s \in Conns, ClientStep(s)
    PROVE  [Contract!Next]_Contract!vars
<1>1. StoredFiles' = StoredFiles /\ TypeInv /\ CellsOK /\ SyncOK(s) /\ Spoils' = Spoils
  BY ClientFiles DEF StoredFiles, Stored, UploadInv, TypeInv, TypeOK, Sync, Spoils
<1>0. UNCHANGED <<handled, alive>>
  BY DEF ClientStep, Scheduler, Upload, Pick, Launch, ConnectOk, ConnectFails, TestLoop,
         MarkUploading, SendPacket, SendFails, ReadReply, ReadFails, Finish, Cancel,
         LocalFileChanges, appVars
<1>2. CASE s \notin Regular
  <2>1. ASSUME NEW t \in Regular PROVE reported'[t] = reported[t] /\ notices'[t] = notices[t]
    <3>1. t \in Conns /\ t # s
      BY <1>2 DEF Regular
    <3> QED  BY <1>1, <3>1, OwnLink DEF ClientStep
  <2>2. UNCHANGED <<Reports, FinalNotices>>
    BY <2>1 DEF Reports, FinalNotices
  <2> QED  BY <1>0, <1>1, <2>2 DEF Contract!vars, StoredFiles, Reports, FinalNotices, Spoils
<1>3. CASE s \in Regular
  <2>1. /\ Size[s] \in Nat /\ Size[s] > 0 /\ (mixed[s] = {} => DataOK(s))
        /\ offset[s] \in Nat /\ reported[s] \in Nat /\ reported[s] <= offset[s]
        /\ Len(Content[s]) \in Nat /\ offset[s] <= Len(Content[s])
        /\ Spoils[s] = SpoiledAt(mixed[s])
    BY <1>1, <1>3, StreamsAssumption, LenProperties
    DEF UploadInv, Data, Regular, SyncOK, TypeInv, CellsOK, InFile, Spoils
  <2>6. /\ Spoils[s] = "no" <=> mixed[s] = {}
        /\ Spoils[s] = "last" <=> mixed[s] = {"last"}
    BY <2>1 DEF SpoiledAt
  <2>2. CASE ReadReply(s)
    <3>1. /\ pc[s] = "reply" /\ s2c[s] # << >> /\ notices' = notices /\ handled /\ alive
          /\ reported' = [reported EXCEPT ![s] = offset[s]]
      BY <2>2 DEF ReadReply, Goto, ClientReceive
    <3>2. /\ notices[s] = {} /\ offset[s] \in reported[s]..Len(Content[s])
          /\ Spoils[s] = "no" => AtOffset(s)
      BY <1>1, <2>1, <2>6, <3>1 DEF SyncOK, DataOK
    <3>3. Reports' = [Reports EXCEPT ![s] = offset[s]] /\ FinalNotices' = FinalNotices
      BY <1>1, <3>1 DEF Reports, FinalNotices, CellsOK, Regular
    <3>4. Contract!Report(s)
      BY <1>0, <1>1, <1>3, <3>1, <3>2, <3>3
      DEF Contract!Report, Contract!IsStored, Contract!Ahead, AtOffset, KeptOf, FirstBytes,
          StoredFiles, Reports, FinalNotices, Spoils
    <3> QED  BY <1>3, <3>4 DEF Contract!Next
  <2>3. CASE SendFails(s) \/ ReadFails(s)
    <3>1. /\ pc[s] \in {"send", "reply"} /\ reported' = reported /\ handled /\ alive
          /\ notices' = [notices EXCEPT ![s] = @ \cup {"failed"}]
      BY <2>3 DEF SendFails, ReadFails, Goto, Tell
    <3>2. notices[s] = {}
      BY <1>1, <3>1 DEF SyncOK, Before
    <3>3. Reports' = Reports /\ FinalNotices' = [FinalNotices EXCEPT ![s] = {"failed"}]
      BY <1>1, <1>3, <3>1, <3>2 DEF Reports, FinalNotices, CellsOK, Regular
    <3>4. Contract!Fail(s)
      BY <1>0, <1>1, <1>3, <3>1, <3>2, <3>3
      DEF Contract!Fail, StoredFiles, Reports, FinalNotices, Spoils
    <3> QED  BY <1>3, <3>4 DEF Contract!Next
  <2>4. CASE Finish(s) /\ offset[s] = Size[s]
    <3>1. /\ pc[s] = "end" /\ reported' = reported /\ handled /\ alive
          /\ notices' = [notices EXCEPT ![s] = @ \cup {"uploaded"}]
      BY <2>4 DEF Finish, Goto, Tell
    <3>2. "uploaded" \notin notices[s]
      BY <1>1, <3>1 DEF SyncOK
    <3>3. \/ "failed" \in notices[s]
          \/ /\ reported[s] = Size[s]
             /\ Stored(s) = FirstBytes(s, Size[s]) \/ Spoils[s] = "last"
      <4>1. "failed" \in notices[s] \/ reported[s] = Size[s]
        BY <1>1, <2>4, <3>1 DEF SyncOK
      <4>2. "failed" \in notices[s] \/ mixed[s] = {"last"} \/ mixed[s] = {}
        BY <1>3, <2>4, <3>1, CleanEndsAreWhole
      <4> QED  BY <2>1, <2>4, <2>6, <4>1, <4>2 DEF DataOK, AtReported, AtOffset, KeptOf
    <3>4. /\ Reports' = Reports
          /\ FinalNotices' = [FinalNotices EXCEPT ![s] = @ \cup {"uploaded"}]
      BY <1>1, <1>3, <3>1 DEF Reports, FinalNotices, CellsOK, Regular
    <3>5. Contract!Succeed(s)
      BY <1>0, <1>1, <1>3, <3>1, <3>2, <3>3, <3>4
      DEF Contract!Succeed, Contract!IsStored, FirstBytes, StoredFiles, Reports, FinalNotices,
          Spoils
    <3> QED  BY <1>3, <3>5 DEF Contract!Next
  <2>5. CASE /\ ~ReadReply(s) /\ ~SendFails(s) /\ ~ReadFails(s)
             /\ ~(Finish(s) /\ offset[s] = Size[s])
    <3>1. reported' = reported /\ notices' = notices
      BY <2>5 DEF ClientStep, Scheduler, Upload, Pick, Launch, ConnectOk, ConnectFails, TestLoop,
           MarkUploading, SendPacket, Finish, Cancel, LocalFileChanges
    <3>2. UNCHANGED <<Reports, FinalNotices>>
      BY <3>1 DEF Reports, FinalNotices
    <3> QED  BY <1>0, <1>1, <3>2 DEF Contract!vars, StoredFiles, Reports, FinalNotices, Spoils
  <2> QED  BY <2>2, <2>3, <2>4, <2>5
<1> QED  BY <1>2, <1>3

\* The application's handler and its end are the contract's.
LEMMA StillKeepsContract ==
    ASSUME AppStep \/ UNCHANGED uploadVars
    PROVE  [Contract!Next]_Contract!vars
<1>1. UNCHANGED <<files, mixed, reported, notices>>
  BY StillSteps DEF Still, serverVars, diskVars, readerVars
<1>2. UNCHANGED <<StoredFiles, Reports, FinalNotices, Spoils>>
  BY <1>1 DEF StoredFiles, Stored, Reports, FinalNotices, Spoils
<1>3. CASE HandleProcessEvent
  BY <1>2, <1>3 DEF HandleProcessEvent, Contract!Next, Contract!Listen, StoredFiles, Reports,
                    FinalNotices, Spoils
<1>4. CASE Unhandled
  BY <1>2, <1>4 DEF Unhandled, Contract!Next, Contract!End, StoredFiles, Reports, FinalNotices,
                    Spoils
<1>5. CASE UNCHANGED uploadVars
  BY <1>2, <1>5 DEF uploadVars, cellVars, appVars, Contract!vars, StoredFiles, Reports,
                    FinalNotices, Spoils
<1> QED  BY <1>3, <1>4, <1>5 DEF AppStep

\* Uploads to the server, with all that may fail but the disk, implement the
\* abstract contract: progress names stored bytes only, a clean "uploaded" means
\* the whole file, and nothing touches that file afterwards.  A frame that is
\* read in part and taken for another packet is in the contract: from then on the
\* file may hold its own bytes in any order, and a failure is told, unless the
\* frame was the last one.  So is an application without a handler for the events.
THEOREM UploadsKeepContract ==
    ASSUME "disk" \notin Faults
    PROVE  Spec => KeepsContract
<1>1. UploadInv /\ [Next]_uploadVars => [Contract!Next]_Contract!vars
  BY ServerKeepsContract, ClientKeepsContract, StillKeepsContract DEF Next, ClientStep, AppStep
<1> QED  BY <1>1, InvariantHolds, ContractStarts, PTL DEF Spec, KeepsContract, Contract!Spec
====
