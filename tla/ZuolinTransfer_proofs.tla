---- MODULE ZuolinTransfer_proofs ----
(***************************************************************************)
(* Proofs about the C file server and its client, for every file, chunk     *)
(* size, modulus and schedule of the processes.                            *)
(***************************************************************************)
EXTENDS ZuolinTransfer, SequenceTheorems, TLAPS

-----------------------------------------------------------------------------
(***************************************************************************)
(* Sizes and sequences.                                                    *)
(***************************************************************************)
LEMMA Remainder ==
    ASSUME NEW n \in Nat
    PROVE  /\ n % Modulus \in Nat
           /\ n < Modulus => n % Modulus = n
BY TransferAssumption

LEMMA SliceFacts ==
    ASSUME NEW S, NEW q \in Seq(S), NEW m \in Nat, NEW n \in Nat, m <= n, n <= Len(q)
    PROVE  /\ SubSeq(q, m + 1, n) \in Seq(S)
           /\ Len(SubSeq(q, m + 1, n)) = n - m
           /\ \A i \in 1..n - m : SubSeq(q, m + 1, n)[i] = q[m + i]
<1>1. Len(q) \in Nat /\ \A i \in 1..Len(q) : q[i] \in S
  BY LenProperties, ElementOfSeq
<1>2. CASE m = n
  BY <1>1, <1>2, SubSeqEmpty, EmptySeq
<1>3. CASE m < n
  <2>1. \A i \in m + 1 .. n : q[i] \in S
    BY <1>1
  <2>2. /\ SubSeq(q, m + 1, n) \in Seq(S)
        /\ Len(SubSeq(q, m + 1, n)) = n - (m + 1) + 1
        /\ \A i \in 1..n - (m + 1) + 1 : SubSeq(q, m + 1, n)[i] = q[m + 1 + i - 1]
    BY <1>3, <2>1, SubSeqProperties
  <2> QED  BY <1>3, <2>2
<1> QED  BY <1>2, <1>3

\* pwrite-like: the bytes lie at their place, the rest of the file stays.
LEMMA OverlayFacts ==
    ASSUME NEW S, NEW old \in Seq(S), NEW at \in 0..Len(old), NEW bytes \in Seq(S)
    PROVE  LET new == Overlay(old, at, bytes)
               end == at + Len(bytes)
           IN  /\ new \in Seq(S)
               /\ Len(new) = IF end > Len(old) THEN end ELSE Len(old)
               /\ \A i \in 1..at : new[i] = old[i]
               /\ \A i \in 1..Len(bytes) : new[at + i] = bytes[i]
               /\ \A i \in end + 1 .. Len(old) : new[i] = old[i]
<1> DEFINE end == at + Len(bytes)
           front == SubSeq(old, 1, at)
           back == SubSeq(old, end + 1, Len(old))
           rest == IF end > Len(old) THEN 0 ELSE Len(old) - end
<1>0. Len(old) \in Nat /\ Len(bytes) \in Nat /\ at \in Nat /\ at <= Len(old)
  BY LenProperties
<1>1. /\ Len(old) \in Nat /\ Len(bytes) \in Nat /\ at \in Nat /\ at <= Len(old)
      /\ end \in Nat /\ end = at + Len(bytes) /\ rest \in Nat
      /\ end + rest = IF end > Len(old) THEN end ELSE Len(old)
  <2> DEFINE o == Len(old)
             b == Len(bytes)
  <2>1. o \in Nat /\ b \in Nat /\ at \in Nat /\ at <= o
    BY <1>0
  <2> HIDE DEF o, b
  <2>2. LET r == IF at + b > o THEN 0 ELSE o - (at + b) IN
        r \in Nat /\ at + b \in Nat /\ at + b + r = IF at + b > o THEN at + b ELSE o
    BY <2>1
  <2> QED  BY <1>0, <2>2 DEF o, b
<1> HIDE DEF end, rest
<1>2. front \in Seq(S) /\ Len(front) = at /\ \A i \in 1..at : front[i] = old[i]
  <2>1. SubSeq(old, 0 + 1, at) = front
    OBVIOUS
  <2> QED  BY <1>1, <2>1, SliceFacts
<1>3. back \in Seq(S) /\ Len(back) = rest /\ \A i \in 1..rest : back[i] = old[end + i]
  <2>1. CASE end > Len(old)
    <3>1. rest = 0
      BY <2>1 DEF rest
    <3>2. back = << >>
      BY <1>1, <2>1, SubSeqEmpty
    <3>3. << >> \in Seq(S) /\ Len(<< >>) = 0
      BY EmptySeq
    <3>4. \A i \in 1..rest : FALSE
      BY <3>1
    <3> QED  BY <3>1, <3>2, <3>3, <3>4, Zenon
  <2>2. CASE end <= Len(old)
    <3>1. rest = Len(old) - end
      BY <1>1, <2>2 DEF rest
    <3>2. /\ SubSeq(old, end + 1, Len(old)) \in Seq(S)
          /\ Len(SubSeq(old, end + 1, Len(old))) = Len(old) - end
          /\ \A i \in 1..Len(old) - end : SubSeq(old, end + 1, Len(old))[i] = old[end + i]
      BY <1>1, <2>2, SliceFacts
    <3> QED  BY <3>1, <3>2
  <2> QED  BY <1>1, <2>1, <2>2 DEF rest
<1> HIDE DEF front, back
<1> DEFINE fb == front \o bytes
<1>4. /\ fb \in Seq(S) /\ Len(fb) = end
      /\ \A i \in 1..at : fb[i] = old[i]
      /\ \A i \in 1..Len(bytes) : fb[at + i] = bytes[i]
  <2>1. /\ fb \in Seq(S) /\ Len(fb) = at + Len(bytes)
        /\ \A i \in 1..at + Len(bytes) : fb[i] = IF i <= at THEN front[i] ELSE bytes[i - at]
    BY <1>2, ConcatProperties
  <2>2. \A i \in 1..Len(bytes) : at + i \in 1..at + Len(bytes) /\ ~(at + i <= at) /\ at + i - at = i
    BY <1>1
  <2> QED  BY <1>1, <1>2, <2>1, <2>2
<1> HIDE DEF fb
<1> DEFINE new == fb \o back
<1>5. /\ new \in Seq(S) /\ Len(new) = end + rest
      /\ \A i \in 1..end + rest : new[i] = IF i <= end THEN fb[i] ELSE back[i - end]
  <2>1. fb \in Seq(S) /\ back \in Seq(S) /\ Len(fb) = end /\ Len(back) = rest
    BY <1>3, <1>4
  <2> QED  BY <2>1, ConcatProperties
<1> HIDE DEF new
<1>6. \A i \in 1..at : new[i] = old[i]
  BY <1>1, <1>4, <1>5
<1>7. \A i \in 1..Len(bytes) : new[at + i] = bytes[i]
  <2> SUFFICES ASSUME NEW i \in 1..Len(bytes) PROVE new[at + i] = bytes[i]
    OBVIOUS
  <2>1. at + i \in 1..end + rest /\ at + i <= end
    BY <1>1
  <2> QED  BY <1>4, <1>5, <2>1
<1>8. \A i \in end + 1 .. Len(old) : new[i] = old[i]
  <2> SUFFICES ASSUME NEW i \in end + 1 .. Len(old) PROVE new[i] = old[i]
    OBVIOUS
  <2>1. i \in 1..end + rest /\ ~(i <= end) /\ i - end \in 1..rest /\ end + (i - end) = i
    BY <1>1
  <2> QED  BY <1>3, <1>5, <2>1
<1>9. new = Overlay(old, at, bytes)
  BY DEF new, fb, front, back, end, Overlay
<1>10. Len(new) = IF end > Len(old) THEN end ELSE Len(old)
  BY <1>1, <1>5
<1> QED  BY <1>5, <1>6, <1>7, <1>8, <1>9, <1>10 DEF end

-----------------------------------------------------------------------------
(***************************************************************************)
(* Types.  The receiver never writes behind the end of its file.            *)
(***************************************************************************)
Polling == parent \in {"begin", "poll"} => polls >= 1
Fits == total <= Len(target)

TypeInv == TypeOK /\ Polling /\ Fits

LEMMA RecordTypes ==
    /\ \A kind \in {"U", "D", "Q", "token", "name", "size", "count", "entry"}, n \in Nat :
         Record(kind, n) \in Records
    /\ \A bytes \in Seq(Bytes \cup {Junk}) : Data(bytes) \in Records
BY EmptySeq DEF Record, Data, Records

LEMMA JunkType == <<Junk>> \in Seq(Bytes \cup {Junk})
OBVIOUS

LEMMA InitType == Init => TypeInv
<1> SUFFICES ASSUME Init PROVE TypeInv
  OBVIOUS
<1>1. LaunchOK /\ Polling
  <2>1. polls \in 0..Polls /\ polls >= 1
    BY LaunchAssumption DEF Init, LaunchInit
  <2> QED  BY <2>1 DEF Init, LaunchInit, LaunchOK, Polling
<1>2. source \in Seq(Bytes) /\ target \in Seq(Bytes)
  BY TransferAssumption DEF Init
<1>3. target \in Seq(Bytes \cup {Junk}) /\ Fits
  <2>1. \A i \in 1..Len(target) : target[i] \in Bytes
    BY <1>2, ElementOfSeq
  <2>2. Len(target) \in Nat
    BY <1>2, LenProperties
  <2> QED  BY <1>2, <2>1, <2>2 DEF Init, Fits
<1>4. << >> \in Seq(Records)
  BY EmptySeq
<1> QED  BY <1>1, <1>2, <1>3, <1>4, TransferAssumption DEF Init, LaunchInit, TypeInv, TypeOK

LEMMA LaunchType ==
    ASSUME TypeInv, Launch, UNCHANGED transferVars
    PROVE  TypeInv'
<1>1. LaunchOK' /\ Polling'
  <2> USE DEF TypeInv, TypeOK, LaunchOK, Polling
  <2> USE LaunchAssumption
  <2>1. CASE PollFifo
    <3>1. /\ parent = "poll" /\ polls \in 0..Polls /\ polls >= 1
          /\ UNCHANGED <<waits, inPipe, fifo, child, wire>>
      BY <2>1 DEF PollFifo, ParentGoes
    <3>2. CASE fifo
      BY <2>1, <3>1, <3>2 DEF PollFifo, ParentGoes
    <3>3. CASE ~fifo
      <4>1. polls' = polls - 1 /\ parent' = IF polls = 1 THEN "open" ELSE "poll"
        BY <2>1, <3>3 DEF PollFifo, ParentGoes
      <4> QED  BY <3>1, <4>1
    <3> QED  BY <3>2, <3>3
  <2>2. CASE MakeFifos \/ OpenFifo \/ ReadPort \/ ReturnPort \/ WaitForServer \/ Rendezvous
    BY <2>2 DEF MakeFifos, OpenFifo, ReadPort, ReturnPort, WaitForServer, Rendezvous, ParentGoes,
                ChildGoes
  <2>3. CASE Child
    BY <2>3 DEF Child, Listen, MakeFifo, WritePort, ChildGoes
  <2> QED  BY <2>1, <2>2, <2>3 DEF Launch, Parent
<1>2. child' \in {"serve", "exited"} => child \in {"serve", "exited"}
  BY DEF Launch, Parent, Child, MakeFifos, PollFifo, OpenFifo, ReadPort, ReturnPort, WaitForServer,
         Rendezvous, Listen, MakeFifo, WritePort, ParentGoes, ChildGoes
<1> QED  BY <1>1, <1>2 DEF TypeInv, TypeOK, Fits, transferVars, fixedVars, fileVars, listVars

\* A read of at most a chunk from the offset on.
LEMMA NextBytesFacts ==
    ASSUME TypeInv, ~AtSourceEnd
    PROVE  /\ NextBytes \in Seq(Bytes)
           /\ Len(NextBytes) \in Nat
           /\ position + Len(NextBytes) <= Len(source)
           /\ NextBytes = SubSeq(source, position + 1, position + Len(NextBytes))
<1> DEFINE end == Smaller(position + Chunk, Len(source))
<1>1. source \in Seq(Bytes) /\ position \in Nat /\ Len(source) \in Nat /\ Chunk \in Nat \ {0}
  BY LenProperties, TransferAssumption DEF TypeInv, TypeOK
<1>2. end \in Nat /\ position <= end /\ end <= Len(source)
  BY <1>1 DEF AtSourceEnd, Smaller
<1> HIDE DEF end
<1>3. /\ SubSeq(source, position + 1, end) \in Seq(Bytes)
      /\ Len(SubSeq(source, position + 1, end)) = end - position
  BY <1>1, <1>2, SliceFacts
<1>4. NextBytes = SubSeq(source, position + 1, end)
  BY DEF NextBytes, end
<1> HIDE DEF NextBytes
<1>5. Len(NextBytes) \in Nat /\ position + Len(NextBytes) = end
  BY <1>1, <1>2, <1>3, <1>4
<1> QED  BY <1>2, <1>3, <1>4, <1>5

LEMMA ReceiveType ==
    ASSUME TypeInv, NEW bytes \in Seq(Bytes \cup {Junk}), Receive(bytes)
    PROVE  /\ target' \in Seq(Bytes \cup {Junk}) /\ total' \in Nat /\ Fits'
           /\ UNCHANGED <<source, position, expected>>
<1>1. /\ target \in Seq(Bytes \cup {Junk}) /\ total \in 0..Len(target)
      /\ Len(bytes) \in Nat /\ Len(target) \in Nat /\ total \in Nat
  BY LenProperties DEF TypeInv, TypeOK, Fits
<1>2. /\ Overlay(target, total, bytes) \in Seq(Bytes \cup {Junk})
      /\ Len(Overlay(target, total, bytes))
           = IF total + Len(bytes) > Len(target) THEN total + Len(bytes) ELSE Len(target)
  BY <1>1, OverlayFacts
<1>3. target' = Overlay(target, total, bytes) /\ total' = total + Len(bytes)
  BY DEF Receive
<1> HIDE DEF Overlay
<1>4. total' <= Len(target')
  BY <1>1, <1>2, <1>3
<1> QED  BY <1>1, <1>2, <1>3, <1>4 DEF Receive, Fits

\* What is read is a record, and the rest are records.
LEMMA ReadTypes ==
    ASSUME NEW q \in Seq(Records), q # << >>
    PROVE  /\ Tail(q) \in Seq(Records)
           /\ Head(q) \in Records /\ Head(q).n \in Nat
           /\ Head(q).data \in Seq(Bytes \cup {Junk})
<1>1. Head(q) \in Records /\ Tail(q) \in Seq(Records)
  BY HeadTailProperties
<1> QED  BY <1>1 DEF Records

LEMMA ClientReadTypes ==
    ASSUME TypeInv, ClientReads \/ ClientAtEnd
    PROVE  s2c' \in Seq(Records) /\ (ClientReads => Head(s2c).n \in Nat /\ Head(s2c) \in Records)
BY ReadTypes DEF TypeInv, TypeOK, ClientReads, ClientAtEnd

LEMMA ServerReadTypes ==
    ASSUME TypeInv, ServerReads \/ ServerAtEnd
    PROVE  /\ c2s' \in Seq(Records)
           /\ ServerReads => /\ Head(c2s).n \in Nat
                             /\ Head(c2s).data \in Seq(Bytes \cup {Junk})
BY ReadTypes DEF TypeInv, TypeOK, ServerReads, ServerAtEnd

LEMMA SendTypes ==
    ASSUME TypeInv, NEW records \in Seq(Records)
    PROVE  /\ ClientSends(records) => c2s' \in Seq(Records)
           /\ ServerSends(records) => s2c' \in Seq(Records)
BY ConcatProperties DEF TypeInv, TypeOK, ClientSends, ServerSends

LEMMA ClientType ==
    ASSUME TypeInv, Client
    PROVE  TypeInv'
<1> USE DEF TypeInv, TypeOK, Polling, Fits, launchVars, LaunchOK, fixedVars, listVars, ClientGoes
<1>1. CASE LinkS
  <2>1. order.mode \in {"none", "upload", "download", "quit"}
    BY TransferAssumption DEF Orders
  <2>2. cpc' \in {"closed", "upload", "download", "quit"}
    BY <1>1, <2>1 DEF LinkS
  <2> QED  BY <1>1, <2>2 DEF LinkS, fileVars
<1>2. CASE SendHeader
  <2>1. <<Record("U", 0), Record("token", IF order.trusted THEN 1 ELSE 0), Record("name", 0)>>
          \in Seq(Records)
    BY RecordTypes
  <2>2. c2s' \in Seq(Records)
    BY <1>2, <2>1, SendTypes DEF SendHeader
  <2> QED  BY <1>2, <2>2 DEF SendHeader, fileVars
<1>3. CASE StatFile
  <2>1. SourceSize \in Nat
    BY Remainder, LenProperties DEF SourceSize
  <2>2. <<Record("size", SourceSize)>> \in Seq(Records) /\ << >> \in Seq(Records)
    BY <2>1, RecordTypes, EmptySeq
  <2>3. c2s' \in Seq(Records)
    BY <1>3, <2>2, SendTypes DEF StatFile
  <2> QED  BY <1>3, <2>3 DEF StatFile, fileVars
<1>4. CASE SendChunk
  <2>1. NextBytes \in Seq(Bytes) /\ Len(NextBytes) \in Nat
    BY <1>4, NextBytesFacts DEF SendChunk
  <2>2. NextBytes \in Seq(Bytes \cup {Junk})
    <3>1. \A i \in 1..Len(NextBytes) : NextBytes[i] \in Bytes
      BY <2>1, ElementOfSeq
    <3> QED  BY <2>1, <3>1
  <2>3. <<Data(NextBytes)>> \in Seq(Records)
    BY <2>2, RecordTypes
  <2>4. c2s' \in Seq(Records) /\ position' \in Nat
    <3>1. ClientSends(<<Data(NextBytes)>>) /\ position' = position + Len(NextBytes)
      BY <1>4 DEF SendChunk, AdvanceSource
    <3> HIDE DEF NextBytes
    <3>2. c2s' \in Seq(Records)
      BY <2>3, <3>1, SendTypes
    <3> QED  BY <2>1, <3>1, <3>2
  <2> QED  BY <1>4, <2>4 DEF SendChunk
<1>5. CASE CloseFile \/ BrokenPipe
  BY <1>5 DEF CloseFile, BrokenPipe, fileVars
<1>6. CASE SendDownload \/ PickName \/ Quit
  <2>1. <<Record("D", 0)>> \in Seq(Records) /\ <<Record("name", 0)>> \in Seq(Records)
        /\ <<Record("Q", 0)>> \in Seq(Records)
    BY RecordTypes
  <2>2. c2s' \in Seq(Records)
    BY <1>6, <2>1, SendTypes DEF SendDownload, PickName, Quit
  <2>3. /\ UNCHANGED <<launchVars, fixedVars, fileVars, listVars, spc, cmd, s2c, disturbed>>
        /\ cpc' \in {"count", "size", "closed"}
    BY <1>6 DEF SendDownload, PickName, Quit
  <2> QED  BY <2>2, <2>3 DEF fileVars
<1>7. CASE ReadCount \/ ReadEntry
  <2>1. s2c' \in Seq(Records) /\ left' \in Nat
    BY <1>7, ClientReadTypes DEF ReadCount, ReadEntry
  <2>2. /\ UNCHANGED <<launchVars, fixedVars, fileVars, entries, spc, cmd, c2s, disturbed>>
        /\ cpc' = "entries"
    BY <1>7 DEF ReadCount, ReadEntry
  <2> QED  BY <2>1, <2>2 DEF fileVars
<1>8. CASE ReadFileSize
  <2>1. s2c' \in Seq(Records) /\ expected' \in Nat \cup {Junk}
    <3>1. CASE ClientReads \/ ClientAtEnd
      BY <1>8, <3>1, ClientReadTypes DEF ReadFileSize, Expect
    <3>2. CASE ~ClientReads /\ ~ClientAtEnd
      <4>1. s2c # << >> /\ s2c' = <<Data(<<Junk>>)>> \o Tail(s2c) /\ expected' = Junk
        BY <1>8, <3>2 DEF ReadFileSize, Expect
      <4>2. <<Data(<<Junk>>)>> \in Seq(Records)
        <5>1. Data(<<Junk>>) \in Records
          BY JunkType, RecordTypes
        <5> QED  BY <5>1
      <4>3. Tail(s2c) \in Seq(Records)
        BY <4>1, ReadTypes
      <4> QED  BY <4>1, <4>2, <4>3, ConcatProperties
    <3> QED  BY <3>1, <3>2
  <2> QED  BY <1>8, <2>1 DEF ReadFileSize, Expect
<1>9. CASE ReceiveData
  <2>1. s2c' \in Seq(Records) /\ FileBytes(Head(s2c)) \in Seq(Bytes \cup {Junk})
    <3>1. Head(s2c) \in Records /\ s2c' \in Seq(Records)
      BY <1>9, ClientReadTypes DEF ReceiveData
    <3>2. Head(s2c).data \in Seq(Bytes \cup {Junk})
      BY <3>1 DEF Records
    <3> QED  BY <3>1, <3>2, JunkType DEF FileBytes
  <2>2. /\ target' \in Seq(Bytes \cup {Junk}) /\ total' \in Nat /\ total' <= Len(target')
        /\ UNCHANGED <<source, position, expected>>
    BY <1>9, <2>1, ReceiveType DEF ReceiveData
  <2> QED  BY <1>9, <2>1, <2>2 DEF ReceiveData
<1>10. CASE ReceiveEnd
  BY <1>10 DEF ReceiveEnd, ClientAtEnd, fileVars
<1> QED  BY <1>1, <1>2, <1>3, <1>4, <1>5, <1>6, <1>7, <1>8, <1>9, <1>10 DEF Client

LEMMA ServerType ==
    ASSUME TypeInv, Server \/ UninitialisedCommand
    PROVE  TypeInv'
<1> USE DEF TypeInv, TypeOK, Polling, Fits, LaunchOK, fixedVars, listVars, serverFrame, ServerGoes,
            ChildGoes, Ends, Continues
<1>1. CASE Accept
  BY <1>1 DEF Accept, fileVars
<1>2. CASE ReadCommand \/ UninitialisedCommand
  <2>1. c2s' \in Seq(Records) /\ cmd' \in BOOLEAN
    BY <1>2, ServerReadTypes DEF ReadCommand, UninitialisedCommand
  <2>2. /\ spc = "command" /\ spc' \in {"token", "list", "closed"}
        /\ child' = child \/ (child = "serve" /\ child' = "exited")
    BY <1>2 DEF ReadCommand, UninitialisedCommand
  <2> QED  BY <1>2, <2>1, <2>2 DEF ReadCommand, UninitialisedCommand, fileVars
<1>3. CASE ReadToken \/ ReadName \/ ReadEnd
  <2>1. c2s' \in Seq(Records)
    BY <1>3, ServerReadTypes DEF ReadToken, ReadName, ReadEnd
  <2>2. /\ UNCHANGED <<serverFrame, fileVars, listVars, cmd, s2c>>
        /\ spc # "idle" /\ spc' \in {"command", "name", "size", "closed"}
        /\ child' = child \/ (child = "serve" /\ child' = "exited")
    BY <1>3 DEF ReadToken, ReadName, ReadEnd
  <2> QED  BY <2>1, <2>2 DEF fileVars
<1>4. CASE ReadSize
  <2>1. c2s' \in Seq(Records) /\ expected' \in Nat
    BY <1>4, ServerReadTypes DEF ReadSize, Expect
  <2> QED  BY <1>4, <2>1 DEF ReadSize, Expect
<1>5. CASE ReadData
  <2>1. c2s' \in Seq(Records) /\ Head(c2s).data \in Seq(Bytes \cup {Junk})
    BY <1>5, ServerReadTypes DEF ReadData
  <2>2. /\ target' \in Seq(Bytes \cup {Junk}) /\ total' \in Nat /\ total' <= Len(target')
        /\ UNCHANGED <<source, position, expected>>
    BY <1>5, <2>1, ReceiveType DEF ReadData
  <2> QED  BY <1>5, <2>1, <2>2 DEF ReadData
<1>6. CASE CountEntries \/ SendEntries
  <2>1. <<Record("count", entries)>> \in Seq(Records)
        /\ [i \in 1..entries |-> Record("entry", 0)] \in Seq(Records)
    BY RecordTypes
  <2>2. s2c' \in Seq(Records)
    BY <1>6, <2>1, SendTypes DEF CountEntries, SendEntries
  <2> QED  BY <1>6, <2>2, SMTT(30) DEF CountEntries, SendEntries, fileVars
<1>7. CASE ReadPick
  <2>1. SourceSize \in Nat
    BY Remainder, LenProperties DEF SourceSize
  <2>2. <<Record("size", SourceSize)>> \in Seq(Records)
    BY <2>1, RecordTypes
  <2>3. c2s' \in Seq(Records) /\ s2c' \in Seq(Records)
    BY <1>7, <2>2, SendTypes, ServerReadTypes DEF ReadPick
  <2> QED  BY <1>7, <2>3 DEF ReadPick, fileVars
<1>8. CASE SendFile
  <2>1. s2c' \in Seq(Records) /\ position' \in Nat
    <3>1. CASE AtSourceEnd
      BY <1>8, <3>1 DEF SendFile
    <3>2. CASE ~AtSourceEnd
      <4>1. NextBytes \in Seq(Bytes) /\ Len(NextBytes) \in Nat
        BY <3>2, NextBytesFacts
      <4>2. NextBytes \in Seq(Bytes \cup {Junk})
        <5>1. \A i \in 1..Len(NextBytes) : NextBytes[i] \in Bytes
          BY <4>1, ElementOfSeq
        <5> QED  BY <4>1, <5>1
      <4>3. <<Data(NextBytes)>> \in Seq(Records)
        BY <4>2, RecordTypes
      <4>4. ServerSends(<<Data(NextBytes)>>) /\ position' = position + Len(NextBytes)
        BY <1>8, <3>2 DEF SendFile, AdvanceSource
      <4>5. s2c' \in Seq(Records)
        BY <4>3, <4>4, SendTypes
      <4> HIDE DEF NextBytes
      <4> QED  BY <4>1, <4>4, <4>5
    <3> QED  BY <3>1, <3>2
  <2>2. /\ spc = "send" /\ spc' \in {"send", "closed"}
        /\ child' = child \/ (child = "serve" /\ child' = "exited")
    BY <1>8 DEF SendFile
  <2> QED  BY <1>8, <2>1, <2>2 DEF SendFile
<1>9. CASE ServerBrokenPipe
  BY <1>9 DEF ServerBrokenPipe, fileVars
<1> QED  BY <1>1, <1>2, <1>3, <1>4, <1>5, <1>6, <1>7, <1>8, <1>9 DEF Server

LEMMA EnvironmentType ==
    ASSUME TypeInv, ClientCrash \/ ServerCrash \/ SourceChanges \/ DirectoryChanges
    PROVE  TypeInv'
<1> USE DEF TypeInv, TypeOK, Polling, Fits, LaunchOK, fixedVars, listVars, launchVars
<1>1. CASE ClientCrash
  <2>1. PICK n \in 0..Len(c2s) : c2s' = SubSeq(c2s, 1, n)
    BY <1>1 DEF ClientCrash
  <2>2. SubSeq(c2s, 0 + 1, n) \in Seq(Records)
    BY LenProperties, SliceFacts
  <2>3. c2s' \in Seq(Records)
    BY <2>1, <2>2
  <2> QED  BY <1>1, <2>3 DEF ClientCrash, fileVars
<1>2. CASE ServerCrash
  BY <1>2 DEF ServerCrash, fileVars
<1>3. CASE SourceChanges
  BY <1>3, TransferAssumption DEF SourceChanges
<1>4. CASE DirectoryChanges
  BY <1>4, TransferAssumption DEF DirectoryChanges, fileVars
<1> QED  BY <1>1, <1>2, <1>3, <1>4

LEMMA StepType ==
    ASSUME TypeInv, [Next]_vars
    PROVE  TypeInv'
<1>1. CASE UNCHANGED vars
  BY <1>1 DEF TypeInv, TypeOK, Polling, Fits, LaunchOK, vars, launchVars, transferVars, fixedVars,
              fileVars, listVars
<1> QED  BY <1>1, LaunchType, ClientType, ServerType, EnvironmentType DEF Next

\* Every variable keeps its type, whoever dies and whatever is read for what:
\* the FIFO is polled at most Polls times, what is taken for a record is one, and
\* a receiver writes at most at the end of its file, never behind it.
THEOREM TransferTypes == Spec => []TypeOK
<1>1. TypeInv => TypeOK
  BY DEF TypeInv
<1> QED  BY <1>1, InitType, StepType, PTL DEF Spec

-----------------------------------------------------------------------------
(***************************************************************************)
(* What an upload has under way: the header records the server has not      *)
(* taken yet, then data records that cut the content into adjacent pieces.  *)
(***************************************************************************)
HeaderKinds == <<"U", "token", "name", "size">>

\* The first h records of q are the header records behind the first taken ones.
Header(content, q, h, taken) ==
    /\ h \in 0..Len(q)
    /\ \A i \in 1..h :
         /\ q[i].kind = HeaderKinds[taken + i]
         /\ q[i].kind = "token" => q[i].n = 1
         /\ q[i].kind = "size" => q[i].n = Len(content) % Modulus

\* The records behind them carry the bytes after from, up to to.
Pieces(content, q, h, from, to) ==
    \E b \in [0..Len(q) - h -> 0..Len(content)] :
        /\ b[0] = from /\ b[Len(q) - h] = to
        /\ \A i \in 1..Len(q) - h :
             /\ b[i - 1] <= b[i]
             /\ q[h + i].data = SubSeq(content, b[i - 1] + 1, b[i])

LEMMA TailFacts ==
    ASSUME NEW q \in Seq(Records), q # << >>
    PROVE  /\ Len(q) \in Nat /\ Len(q) >= 1 /\ Len(Tail(q)) = Len(q) - 1
           /\ Head(q) = q[1] /\ \A i \in 1..Len(q) - 1 : Tail(q)[i] = q[i + 1]
<1>1. Len(q) \in Nat /\ Len(q) # 0
  BY LenProperties, EmptySeq
<1>2. Len(Tail(q)) = Len(q) - 1 /\ \A i \in 1..Len(Tail(q)) : Tail(q)[i] = q[i + 1]
  BY HeadTailProperties
<1>3. Head(q) = q[1]
  OBVIOUS
<1> QED  BY <1>1, <1>2, <1>3

\* The pieces stay as they are when a header record before them is taken.
LEMMA PiecesMoveUp ==
    ASSUME NEW content \in Seq(Bytes), NEW q \in Seq(Records), q # << >>,
           NEW h \in 1..Len(q), NEW from, NEW to, Pieces(content, q, h, from, to)
    PROVE  Pieces(content, Tail(q), h - 1, from, to)
<1>1. /\ Len(q) \in Nat /\ Len(Tail(q)) = Len(q) - 1
      /\ \A i \in 1..Len(q) - 1 : Tail(q)[i] = q[i + 1]
  BY TailFacts
<1>2. Len(Tail(q)) - (h - 1) = Len(q) - h /\ Len(q) - h \in Nat
  BY <1>1
<1>3. ASSUME NEW i \in 1..Len(q) - h
      PROVE  Tail(q)[h - 1 + i] = q[h + i]
  <2>1. h - 1 + i \in 1..Len(q) - 1 /\ h - 1 + i + 1 = h + i
    BY <1>1
  <2> QED  BY <1>1, <2>1
<1> QED  BY <1>2, <1>3 DEF Pieces

LEMMA HeaderTaken ==
    ASSUME NEW content \in Seq(Bytes), NEW q \in Seq(Records), q # << >>,
           NEW h \in Nat, h >= 1, NEW taken \in Nat, Header(content, q, h, taken),
           NEW from, NEW to, Pieces(content, q, h, from, to)
    PROVE  /\ Header(content, Tail(q), h - 1, taken + 1)
           /\ Pieces(content, Tail(q), h - 1, from, to)
<1>1. /\ Len(q) \in Nat /\ Len(q) >= 1 /\ Len(Tail(q)) = Len(q) - 1 /\ h <= Len(q)
      /\ \A i \in 1..Len(q) - 1 : Tail(q)[i] = q[i + 1]
  BY TailFacts DEF Header
<1>2. Header(content, Tail(q), h - 1, taken + 1)
  <2>1. ASSUME NEW i \in 1..h - 1
        PROVE  Tail(q)[i] = q[i + 1] /\ i + 1 \in 1..h /\ taken + 1 + i = taken + (i + 1)
    BY <1>1
  <2> QED  BY <1>1, <2>1 DEF Header
<1>3. h \in 1..Len(q)
  BY <1>1
<1> QED  BY <1>2, <1>3, PiecesMoveUp

LEMMA PieceTaken ==
    ASSUME NEW content \in Seq(Bytes), NEW q \in Seq(Records), q # << >>,
           NEW from, NEW to, Pieces(content, q, 0, from, to)
    PROVE  \E m \in 0..Len(content) :
              /\ from \in 0..m
              /\ Head(q).data = SubSeq(content, from + 1, m)
              /\ Pieces(content, Tail(q), 0, m, to)
<1>1. /\ Len(q) \in Nat /\ Len(q) >= 1 /\ Len(Tail(q)) = Len(q) - 1 /\ Head(q) = q[1]
      /\ \A i \in 1..Len(q) - 1 : Tail(q)[i] = q[i + 1]
  BY TailFacts
<1>2. PICK b \in [0..Len(q) - 0 -> 0..Len(content)] :
        /\ b[0] = from /\ b[Len(q) - 0] = to
        /\ \A i \in 1..Len(q) - 0 :
             /\ b[i - 1] <= b[i]
             /\ q[0 + i].data = SubSeq(content, b[i - 1] + 1, b[i])
  BY DEF Pieces
<1> DEFINE n == Len(q)
           c == [i \in 0..n - 1 |-> b[i + 1]]
<1>3. n \in Nat /\ n >= 1 /\ n - 0 = n /\ Len(content) \in Nat
  BY <1>1, LenProperties
<1>4. b[1] \in 0..Len(content) /\ from \in 0..b[1] /\ Head(q).data = SubSeq(content, from + 1, b[1])
  <2>1. 1 \in 1..n /\ 1 \in 0..n /\ 0 \in 0..n /\ 1 - 1 = 0 /\ 0 + 1 = 1
    BY <1>3
  <2>2. /\ b[0] <= b[1] /\ q[1].data = SubSeq(content, b[0] + 1, b[1])
        /\ b[0] \in 0..Len(content) /\ b[1] \in 0..Len(content)
    BY <1>2, <1>3, <2>1
  <2> QED  BY <1>1, <1>2, <1>3, <2>2
<1>5. c \in [0..n - 1 -> 0..Len(content)]
  BY <1>2, <1>3
<1>6. c[0] = b[1] /\ c[n - 1] = to
  BY <1>2, <1>3
<1>7. ASSUME NEW i \in 1..n - 1
      PROVE  c[i - 1] <= c[i] /\ Tail(q)[0 + i].data = SubSeq(content, c[i - 1] + 1, c[i])
  <2>1. /\ c[i - 1] = b[i] /\ c[i] = b[i + 1]
        /\ i + 1 \in 1..n /\ (i + 1) - 1 = i /\ 0 + i = i /\ 0 + (i + 1) = i + 1
    BY <1>3
  <2>2. b[i] <= b[i + 1] /\ q[i + 1].data = SubSeq(content, b[i] + 1, b[i + 1])
    BY <1>2, <1>3, <2>1
  <2>3. Tail(q)[i] = q[i + 1]
    BY <1>1, <1>3
  <2> HIDE DEF c
  <2> QED  BY <2>1, <2>2, <2>3
<1>8. Pieces(content, Tail(q), 0, b[1], to)
  <2>1. Len(Tail(q)) - 0 = n - 1
    BY <1>1, <1>3
  <2> HIDE DEF c
  <2> QED  BY <1>5, <1>6, <1>7, <2>1 DEF Pieces
<1> QED  BY <1>4, <1>8

LEMMA NoPieces ==
    ASSUME NEW content \in Seq(Bytes), NEW q \in Seq(Records), NEW h \in Nat, Len(q) = h
    PROVE  /\ \A at \in 0..Len(content) : Pieces(content, q, h, at, at)
           /\ \A from, to : Pieces(content, q, h, from, to) => from = to
<1>1. Len(q) - h = 0
  OBVIOUS
<1>2. ASSUME NEW at \in 0..Len(content)
      PROVE  Pieces(content, q, h, at, at)
  <2> DEFINE b == [i \in 0..0 |-> at]
  <2>1. b \in [0..Len(q) - h -> 0..Len(content)] /\ b[0] = at /\ b[Len(q) - h] = at
    BY <1>1
  <2>2. \A i \in 1..Len(q) - h : FALSE
    BY <1>1
  <2> HIDE DEF b
  <2> QED  BY <2>1, <2>2 DEF Pieces
<1>3. ASSUME NEW from, NEW to, Pieces(content, q, h, from, to)
      PROVE  from = to
  BY <1>1, <1>3 DEF Pieces
<1> QED  BY <1>2, <1>3

LEMMA PieceSent ==
    ASSUME NEW content \in Seq(Bytes), NEW q \in Seq(Records), NEW r \in Records,
           NEW h \in 0..Len(q), NEW from, NEW to \in Nat, Pieces(content, q, h, from, to),
           NEW end \in 0..Len(content), to <= end, r.data = SubSeq(content, to + 1, end)
    PROVE  /\ q \o <<r>> \in Seq(Records)
           /\ Len(q \o <<r>>) = Len(q) + 1 /\ (q \o <<r>>)[Len(q) + 1] = r
           /\ \A i \in 1..Len(q) : (q \o <<r>>)[i] = q[i]
           /\ Pieces(content, q \o <<r>>, h, from, end)
<1> DEFINE n == Len(q) - h
           s == q \o <<r>>
<1>1. Len(q) \in Nat /\ n \in Nat /\ h \in Nat /\ h + n = Len(q)
  BY LenProperties
<1>2. /\ s \in Seq(Records) /\ Len(s) = Len(q) + 1 /\ s[Len(q) + 1] = r
      /\ \A i \in 1..Len(q) : s[i] = q[i]
  BY AppendProperties, AppendIsConcat
<1> HIDE DEF s
<1>3. h + (n + 1) = Len(q) + 1
  OBVIOUS
<1>4. PICK b \in [0..n -> 0..Len(content)] :
        /\ b[0] = from /\ b[n] = to
        /\ \A i \in 1..n :
             /\ b[i - 1] <= b[i]
             /\ q[h + i].data = SubSeq(content, b[i - 1] + 1, b[i])
  BY DEF Pieces
<1> DEFINE c == [i \in 0..n + 1 |-> IF i = n + 1 THEN end ELSE b[i]]
<1> HIDE DEF n
<1>5. c \in [0..n + 1 -> 0..Len(content)]
  BY <1>1, <1>4
<1>6. c[0] = from /\ c[n + 1] = end
  BY <1>1, <1>4
<1>7. ASSUME NEW i \in 1..n + 1
      PROVE  c[i - 1] <= c[i] /\ s[h + i].data = SubSeq(content, c[i - 1] + 1, c[i])
  <2>1. CASE i = n + 1
    <3>0. i \in 0..n + 1 /\ n \in 0..n + 1 /\ n # n + 1 /\ i - 1 = n /\ h + i = Len(q) + 1
      BY <1>1, <1>3, <2>1
    <3>1. c[i] = end /\ i - 1 = n /\ c[i - 1] = b[n] /\ h + i = Len(q) + 1
      BY <2>1, <3>0
    <3> HIDE DEF c
    <3> QED  BY <1>2, <1>4, <3>1
  <2>2. CASE i # n + 1
    <3>1. i \in 1..n /\ c[i] = b[i] /\ c[i - 1] = b[i - 1] /\ h + i \in 1..Len(q)
      BY <1>1, <2>2
    <3> HIDE DEF c
    <3> QED  BY <1>2, <1>4, <3>1
  <2> QED  BY <2>1, <2>2
<1>8. Pieces(content, s, h, from, end)
  <2>1. Len(s) - h = n + 1
    BY <1>1, <1>2
  <2> HIDE DEF c
  <2> QED  BY <1>5, <1>6, <1>7, <2>1 DEF Pieces
<1> QED  BY <1>2, <1>8 DEF s

\* What is left of it when the records from some point on are lost.
LEMMA FlowCut ==
    ASSUME NEW content \in Seq(Bytes), NEW q \in Seq(Records), NEW n \in 0..Len(q),
           NEW h \in Nat, NEW taken \in Nat, Header(content, q, h, taken),
           NEW from \in 0..Len(content), NEW to, Pieces(content, q, h, from, to)
    PROVE  LET s == SubSeq(q, 1, n) IN
           /\ s \in Seq(Records)
           /\ \E k \in 0..h, m \in 0..Len(content) :
                /\ Header(content, s, k, taken) /\ Pieces(content, s, k, from, m)
                /\ (Len(s) = k /\ m = from) \/ (k = h /\ Len(q) > h)
<1> DEFINE s == SubSeq(q, 1, n)
<1>1. Len(q) \in Nat /\ n \in Nat /\ n <= Len(q) /\ h <= Len(q)
  BY LenProperties DEF Header
<1>2. s \in Seq(Records) /\ Len(s) = n /\ \A i \in 1..n : s[i] = q[i]
  <2>1. SubSeq(q, 0 + 1, n) = s /\ n - 0 = n
    BY <1>1
  <2>2. \A i \in 1..n : 0 + i = i
    OBVIOUS
  <2> QED  BY <1>1, <2>1, <2>2, SliceFacts
<1> HIDE DEF s
<1>3. CASE n <= h
  <2>1. Header(content, s, n, taken)
    BY <1>1, <1>2, <1>3 DEF Header
  <2>2. Pieces(content, s, n, from, from)
    BY <1>1, <1>2, NoPieces
  <2>3. n \in 0..h
    BY <1>1, <1>3
  <2>4. \E k \in 0..h, m \in 0..Len(content) :
          /\ Header(content, s, k, taken) /\ Pieces(content, s, k, from, m)
          /\ (Len(s) = k /\ m = from) \/ (k = h /\ Len(q) > h)
    BY <1>2, <2>1, <2>2, <2>3
  <2> QED  BY <1>2, <2>4 DEF s
<1>4. CASE n > h
  <2>1. Header(content, s, h, taken)
    BY <1>1, <1>2, <1>4 DEF Header
  <2>2. PICK b \in [0..Len(q) - h -> 0..Len(content)] :
          /\ b[0] = from /\ b[Len(q) - h] = to
          /\ \A i \in 1..Len(q) - h :
               /\ b[i - 1] <= b[i]
               /\ q[h + i].data = SubSeq(content, b[i - 1] + 1, b[i])
    BY DEF Pieces
  <2> DEFINE c == [i \in 0..n - h |-> b[i]]
  <2>3. \A i \in 0..n - h : i \in 0..Len(q) - h
    BY <1>1, <1>4
  <2>4. c \in [0..n - h -> 0..Len(content)] /\ c[0] = from
    <3>1. 0 \in 0..n - h
      BY <1>1, <1>4
    <3>2. \A i \in 0..n - h : b[i] \in 0..Len(content)
      BY <2>2, <2>3
    <3> QED  BY <2>2, <3>1, <3>2
  <2>5. ASSUME NEW i \in 1..n - h
        PROVE  c[i - 1] <= c[i] /\ s[h + i].data = SubSeq(content, c[i - 1] + 1, c[i])
    <3>1. i \in 1..Len(q) - h /\ i \in 0..n - h /\ i - 1 \in 0..n - h /\ h + i \in 1..n
      BY <1>1, <1>4
    <3>2. c[i] = b[i] /\ c[i - 1] = b[i - 1] /\ s[h + i] = q[h + i]
      BY <1>2, <3>1
    <3> HIDE DEF c
    <3> QED  BY <2>2, <3>1, <3>2
  <2>6. n - h \in 0..n - h
    BY <1>1, <1>4
  <2>7. c[n - h] \in 0..Len(content)
    BY <2>4, <2>6
  <2>8. Pieces(content, s, h, from, c[n - h])
    <3> HIDE DEF c
    <3> QED  BY <1>2, <2>4, <2>5 DEF Pieces
  <2> HIDE DEF c
  <2>9. h \in 0..h /\ Len(q) > h
    BY <1>1, <1>4
  <2>10. \E k \in 0..h, m \in 0..Len(content) :
          /\ Header(content, s, k, taken) /\ Pieces(content, s, k, from, m)
          /\ (Len(s) = k /\ m = from) \/ (k = h /\ Len(q) > h)
    BY <2>1, <2>7, <2>8, <2>9
  <2> QED  BY <1>2, <2>10 DEF s
<1> QED  BY <1>1, <1>3, <1>4

LEMMA HeaderStays ==
    ASSUME NEW content \in Seq(Bytes), NEW q \in Seq(Records), NEW s \in Seq(Records),
           NEW h \in Nat, NEW taken \in Nat, Header(content, q, h, taken),
           Len(s) = Len(q) + 1, \A i \in 1..Len(q) : s[i] = q[i]
    PROVE  Header(content, s, h, taken)
<1>1. h \in 0..Len(s) /\ \A i \in 1..h : s[i] = q[i]
  BY LenProperties DEF Header
<1> QED  BY <1>1 DEF Header

-----------------------------------------------------------------------------
(***************************************************************************)
(* An upload of a file that stays as it is.  Until the server is through,   *)
(* the file it stores and the records under way together are what the       *)
(* client has read, or a front of it when the client died.                  *)
(***************************************************************************)
Uploading ==
    /\ order.mode = "upload" /\ order.trusted /\ order.writable
    /\ source = before.source

Downloading ==
    /\ order.mode = "download"
    /\ source = before.source /\ entries = MaxEntries

\* The header records the client has sent, and the server has taken.
Put == CASE cpc \in {"idle", "upload"} -> 0
         [] cpc = "stat"               -> 3
         [] OTHER                      -> 4
Taken == CASE spc \in {"idle", "command"} -> 0
           [] spc = "token"               -> 1
           [] spc = "name"                -> 2
           [] spc = "size"                -> 3
           [] OTHER                       -> 4

\* The receiver's file: the source so far over the old content.
Laid ==
    /\ Len(target) = IF total > Len(before.target) THEN total ELSE Len(before.target)
    /\ \A i \in 1..total : target[i] = before.source[i]
    /\ \A i \in total + 1 .. Len(before.target) : target[i] = before.target[i]

\* h header records, then data up to the offset to: all that the client has sent,
\* or a front of it when it died.
Flowing(h, to) ==
    /\ Header(before.source, c2s, h, Taken)
    /\ Pieces(before.source, c2s, h, total, to)
    /\ Taken + h < 4 => to = 0 /\ Len(c2s) = h
    /\ (cpc # "closed" \/ Undisturbed("upload")) => Taken + h = Put /\ to = position

UnderWay ==
    /\ \E h \in 0..4 - Taken, to \in 0..Len(before.source) : Flowing(h, to)
    /\ Put < 4 => position = 0
    /\ Taken < 4 => total = 0
    /\ Undisturbed("upload") =>
         /\ Taken = 4 => expected = Len(before.source)
         /\ cpc = "closed" => position = Len(before.source)

UploadOK ==
    /\ cpc \in {"idle", "upload", "stat", "send", "closed"}
    /\ spc \in {"idle", "command", "token", "name", "size", "data", "closed"}
    /\ position <= Len(before.source) /\ total <= Len(before.source)
    /\ Laid
    /\ IF spc = "closed" THEN Undisturbed("upload") => total = Len(before.source) ELSE UnderWay

Histories ==
    /\ before.source \in Seq(Bytes) /\ before.target \in Seq(Bytes)
    /\ ~disturbed => source = before.source /\ entries = MaxEntries

UploadInv == TypeInv /\ Histories /\ (Uploading => UploadOK)

LEMMA InitUpload == Init => UploadInv
<1> SUFFICES ASSUME Init PROVE UploadInv
  OBVIOUS
<1>1. TypeInv /\ Histories
  BY InitType, TransferAssumption DEF Init, Histories
<1>2. UploadOK
  <2>1. Len(before.source) \in Nat /\ Len(before.target) \in Nat
    BY <1>1, LenProperties DEF Histories
  <2>2. Laid
    BY <2>1 DEF Init, Laid
  <2>3. Put = 0 /\ Taken = 0 /\ c2s = << >> /\ Len(c2s) = 0 /\ c2s \in Seq(Records)
    BY EmptySeq DEF Init, Put, Taken
  <2>4. Header(before.source, c2s, 0, 0)
    BY <2>3 DEF Header
  <2>5. 0 \in 0..Len(before.source) /\ before.source \in Seq(Bytes) /\ 0 \in Nat
    BY <1>1, <2>1 DEF Histories
  <2>6. Pieces(before.source, c2s, 0, 0, 0)
    <3>1. \A at \in 0..Len(before.source) : Pieces(before.source, c2s, 0, at, at)
      BY <2>3, <2>5, NoPieces
    <3> QED  BY <2>5, <3>1
  <2>7. Flowing(0, 0)
    BY <2>3, <2>4, <2>6 DEF Flowing, Init
  <2>8. UnderWay
    <3>1. 0 \in 0..4 - Taken
      BY <2>3
    <3>2. cpc # "closed" /\ position = 0 /\ total = 0 /\ Taken # 4
      BY <2>3 DEF Init
    <3> QED  BY <2>5, <2>7, <3>1, <3>2 DEF UnderWay
  <2> QED  BY <2>1, <2>2, <2>8 DEF Init, UploadOK
<1> QED  BY <1>1, <1>2 DEF UploadInv

\* Only the environment disturbs, nothing undoes it, and it changes a file or the
\* directory once.
LEMMA StillAsItWas ==
    ASSUME Histories, [Next]_vars
    PROVE  /\ UNCHANGED fixedVars /\ Histories'
           /\ ~disturbed' => ~disturbed /\ source' = source /\ entries' = entries
           /\ Uploading' => Uploading
           /\ Downloading' => Downloading
<1>1. CASE SourceChanges \/ DirectoryChanges
  <2>1. /\ UNCHANGED fixedVars /\ disturbed' /\ ~disturbed
        /\ source = before.source /\ entries = MaxEntries
    BY <1>1 DEF SourceChanges, DirectoryChanges, Histories
  <2> QED  BY <2>1 DEF Histories, Uploading, Downloading, fixedVars
<1>2. CASE ~(SourceChanges \/ DirectoryChanges)
  <2>1. UNCHANGED <<fixedVars, source, entries>> /\ (~disturbed' => ~disturbed)
    <3>1. CASE (Launch /\ UNCHANGED transferVars) \/ UNCHANGED vars
      BY <3>1 DEF vars, transferVars, fileVars, listVars
    <3>2. CASE Client
      BY <3>2 DEF listVars, Client, LinkS, SendHeader, StatFile, SendChunk, CloseFile, BrokenPipe,
           SendDownload, ReadCount, ReadEntry, PickName, ReadFileSize, ReceiveData, ReceiveEnd, Quit,
           fileVars, Expect, Receive
    <3>3. CASE Server \/ UninitialisedCommand
      BY <3>3 DEF Server, UninitialisedCommand, Accept, ReadCommand, ReadToken, ReadName, ReadSize,
           ReadData, ReadEnd, CountEntries, SendEntries, ReadPick, SendFile, ServerBrokenPipe,
           serverFrame, fileVars, listVars, Expect, Receive, fixedVars
    <3>4. CASE ClientCrash \/ ServerCrash
      BY <3>4 DEF ClientCrash, ServerCrash, fileVars, listVars
    <3> QED  BY <1>2, <3>1, <3>2, <3>3, <3>4 DEF Next
  <2> QED  BY <2>1 DEF Histories, Uploading, Downloading, fixedVars
<1> QED  BY <1>1, <1>2

\* The processes change neither what was ordered nor the history.
LEMMA ProcessesDoNotDisturb ==
    ASSUME Client \/ Server \/ UninitialisedCommand
    PROVE  /\ UNCHANGED <<order, before, disturbed, source, entries>>
           /\ \A mode : Undisturbed(mode)' <=> Undisturbed(mode)
<1>1. UNCHANGED <<order, before, disturbed, source, entries>>
  <2>1. CASE Client
    BY <2>1 DEF listVars, Client, LinkS, SendHeader, StatFile, SendChunk, CloseFile, BrokenPipe,
         SendDownload, ReadCount, ReadEntry, PickName, ReadFileSize, ReceiveData, ReceiveEnd, Quit,
         fileVars, fixedVars, Expect, Receive
  <2>2. CASE Server \/ UninitialisedCommand
    BY <2>2 DEF Server, UninitialisedCommand, Accept, ReadCommand, ReadToken, ReadName, ReadSize,
         ReadData, ReadEnd, CountEntries, SendEntries, ReadPick, SendFile, ServerBrokenPipe,
         serverFrame, fileVars, listVars, Expect, Receive, fixedVars
  <2> QED  BY <2>1, <2>2
<1> QED  BY <1>1 DEF Undisturbed

\* What holds of the content in every step below.
LEMMA UploadFacts ==
    ASSUME UploadInv, Uploading
    PROVE  /\ UploadOK /\ TypeInv /\ Laid /\ source = before.source
           /\ before.source \in Seq(Bytes) /\ before.target \in Seq(Bytes)
           /\ Len(before.source) \in Nat /\ Len(before.target) \in Nat
           /\ c2s \in Seq(Records) /\ Len(c2s) \in Nat
           /\ position \in 0..Len(before.source) /\ total \in 0..Len(before.source)
           /\ order.mode = "upload" /\ order.trusted /\ order.writable
           /\ Put \in {0, 3, 4} /\ Taken \in {0, 1, 2, 3, 4}
           /\ spc # "closed" => UnderWay
<1>1. before.source \in Seq(Bytes) /\ before.target \in Seq(Bytes)
  BY DEF UploadInv, Histories
<1>2. Len(before.source) \in Nat /\ Len(before.target) \in Nat
  BY <1>1, LenProperties
<1>3. c2s \in Seq(Records) /\ Len(c2s) \in Nat
  BY LenProperties DEF UploadInv, TypeInv, TypeOK
<1>4. position \in 0..Len(before.source) /\ total \in 0..Len(before.source)
  BY <1>2 DEF UploadInv, UploadOK, TypeInv, TypeOK
<1> QED  BY <1>1, <1>2, <1>3, <1>4 DEF UploadInv, UploadOK, Uploading, Put, Taken

\* Nothing is missing of an undisturbed header.
LEMMA HeaderComes ==
    ASSUME UploadInv, Uploading, spc \in {"command", "token", "name", "size"}, ServerAtEnd
    PROVE  ~Undisturbed("upload")
<1> SUFFICES ASSUME Undisturbed("upload") PROVE FALSE
  OBVIOUS
<1>1. PICK h \in 0..4 - Taken, to \in 0..Len(before.source) : Flowing(h, to)
  BY UploadFacts DEF UnderWay
<1>2. Put = 4 /\ Taken < 4 /\ Len(c2s) = 0 /\ Taken \in Nat
  BY EmptySeq DEF ServerAtEnd, Put, Taken
<1>3. h \in 0..Len(c2s) /\ Taken + h = Put
  BY <1>1 DEF Flowing, Header
<1> QED  BY <1>2, <1>3

\* A header record is taken.
LEMMA HeaderReady ==
    ASSUME UploadInv, Uploading, spc \in {"command", "token", "name", "size"}, ServerReads,
           NEW h \in 0..4 - Taken, NEW to \in 0..Len(before.source), Flowing(h, to)
    PROVE  /\ h >= 1 /\ c2s # << >> /\ c2s' = Tail(c2s)
           /\ Head(c2s).kind = HeaderKinds[Taken + 1]
           /\ Head(c2s).kind = "token" => Head(c2s).n = 1
           /\ Head(c2s).kind = "size" => Head(c2s).n = Len(before.source) % Modulus
<1> USE UploadFacts
<1>1. c2s # << >> /\ c2s' = Tail(c2s) /\ Taken < 4
  BY DEF ServerReads, Taken
<1>2. Len(c2s) >= 1 /\ Head(c2s) = c2s[1]
  BY <1>1, TailFacts
<1>3. h >= 1
  BY <1>1, <1>2 DEF Flowing
<1>4. 1 \in 1..h
  BY <1>3
<1> QED  BY <1>1, <1>2, <1>3, <1>4 DEF Flowing, Header

LEMMA HeaderStep ==
    ASSUME UploadInv, Uploading, spc \in {"command", "token", "name", "size"},
           ServerReads, Taken' = Taken + 1, UNCHANGED <<cpc, order, before, disturbed, total, position>>,
           Undisturbed("upload") /\ Taken' = 4 => expected' = Len(before.source)
    PROVE  UnderWay'
<1> USE UploadFacts
<1>1. UnderWay /\ Put' = Put /\ Taken < 4 /\ (Undisturbed("upload")' <=> Undisturbed("upload"))
  BY DEF Put, Taken, Undisturbed
<1>2. PICK h \in 0..4 - Taken, to \in 0..Len(before.source) : Flowing(h, to)
  BY <1>1 DEF UnderWay
<1>3. c2s # << >> /\ c2s' = Tail(c2s) /\ h >= 1 /\ h \in Nat
  BY <1>2, HeaderReady, SMTT(30)
<1>4. /\ Header(before.source, Tail(c2s), h - 1, Taken + 1)
      /\ Pieces(before.source, Tail(c2s), h - 1, total, to)
  BY <1>2, <1>3, HeaderTaken DEF Flowing
<1>5. h - 1 \in 0..4 - Taken' /\ Taken' + (h - 1) = Taken + h /\ Len(Tail(c2s)) = Len(c2s) - 1
  BY <1>3, TailFacts, SMTT(30)
<1>6. Flowing(h - 1, to)'
  BY <1>1, <1>2, <1>3, <1>4, <1>5 DEF Flowing
<1> QED  BY <1>1, <1>5, <1>6 DEF UnderWay

\* The stream ends within the header.
LEMMA HeaderEnd ==
    ASSUME UploadInv, Uploading, spc \in {"command", "token", "name", "size"}, ServerAtEnd,
           UNCHANGED <<cpc, order, before, disturbed, total, position>>, Taken' \in 0..4
    PROVE  UnderWay'
<1> USE UploadFacts
<1>1. /\ UnderWay /\ Taken < 4 /\ total = 0 /\ cpc = "closed" /\ Put' = 4
      /\ ~Undisturbed("upload")'
  BY HeaderComes DEF UnderWay, Taken, Put, ServerAtEnd, Undisturbed
<1>2. c2s' = << >> /\ c2s' \in Seq(Records) /\ Len(c2s') = 0 /\ 0 \in 0..Len(before.source)
  BY EmptySeq DEF ServerAtEnd
<1>3. Header(before.source, c2s', 0, Taken')
  BY <1>2 DEF Header
<1>4. Pieces(before.source, c2s', 0, 0, 0)
  <2>1. \A at \in 0..Len(before.source) : Pieces(before.source, c2s', 0, at, at)
    BY <1>2, NoPieces
  <2> QED  BY <1>2, <2>1
<1>5. Flowing(0, 0)'
  BY <1>1, <1>2, <1>3, <1>4 DEF Flowing
<1>6. 0 \in 0..4 - Taken' /\ 0 \in 0..Len(before'.source) /\ before' = before
  <2>1. before' = before
    OBVIOUS
  <2>2. PICK taken \in 0..4 : Taken' = taken
    OBVIOUS
  <2>3. 0 \in 0..4 - taken
    OBVIOUS
  <2> QED  BY <1>2, <2>1, <2>2, <2>3
<1>7. \E h \in 0..4 - Taken', to \in 0..Len(before'.source) : Flowing(h, to)'
  BY <1>5, <1>6
<1>8. total' = 0 /\ (cpc' = "closed") /\ (Put' < 4 => position' = 0)
  BY <1>1
<1> QED  BY <1>1, <1>7, <1>8 DEF UnderWay

\* A data record is written behind the last one.
LEMMA LaidOn ==
    ASSUME TypeInv, Laid, before.source \in Seq(Bytes), before.target \in Seq(Bytes),
           NEW m \in 0..Len(before.source), total <= m,
           Receive(SubSeq(before.source, total + 1, m)), UNCHANGED before
    PROVE  Laid' /\ total' = m
<1> DEFINE bytes == SubSeq(before.source, total + 1, m)
           n == total
<1>0. total \in Nat /\ Len(before.source) \in Nat /\ Len(before.target) \in Nat
  BY LenProperties DEF TypeInv, TypeOK
<1> USE <1>0
<1>1. /\ bytes \in Seq(Bytes) /\ Len(bytes) = m - n /\ n \in Nat /\ m \in Nat
      /\ \A i \in 1..m - n : bytes[i] = before.source[n + i]
  BY SliceFacts
<1>2. bytes \in Seq(Bytes \cup {Junk})
  <2>1. \A i \in 1..Len(bytes) : bytes[i] \in Bytes
    BY <1>1, ElementOfSeq
  <2> QED  BY <1>1, <2>1
<1>3. /\ target \in Seq(Bytes \cup {Junk}) /\ n \in 0..Len(target) /\ Len(target) \in Nat /\ Laid
  BY LenProperties DEF TypeInv, TypeOK, Fits
<1> DEFINE new == Overlay(target, n, bytes)
<1> HIDE DEF bytes, n, new
<1>4. /\ Len(new) = IF n + Len(bytes) > Len(target) THEN n + Len(bytes) ELSE Len(target)
      /\ \A i \in 1..n : new[i] = target[i]
      /\ \A i \in 1..Len(bytes) : new[n + i] = bytes[i]
      /\ \A i \in n + Len(bytes) + 1 .. Len(target) : new[i] = target[i]
  BY <1>2, <1>3, OverlayFacts DEF new
<1>5. target' = new /\ total' = m
  <2>1. target' = Overlay(target, n, bytes) /\ total' = n + Len(bytes)
    BY DEF Receive, bytes, n
  <2> QED  BY <1>1, <2>1 DEF new
<1>6. Len(new) = IF m > Len(before.target) THEN m ELSE Len(before.target)
  <2>1. Len(target) = IF n > Len(before.target) THEN n ELSE Len(before.target)
    BY <1>3 DEF Laid, n
  <2>2. n <= m
    BY DEF n
  <2> QED  BY <1>1, <1>4, <2>1, <2>2
<1>7. \A i \in 1..m : new[i] = before.source[i]
  <2> SUFFICES ASSUME NEW i \in 1..m PROVE new[i] = before.source[i]
    OBVIOUS
  <2>1. CASE i <= n
    <3>1. i \in 1..n
      BY <1>1, <2>1
    <3>2. \A j \in 1..n : target[j] = before.source[j]
      BY <1>3 DEF Laid, n
    <3>3. \A j \in 1..n : new[j] = target[j]
      BY <1>4
    <3> QED  BY <3>1, <3>2, <3>3, Zenon
  <2>2. CASE i > n
    <3>1. i - n \in 1..m - n /\ n + (i - n) = i
      BY <1>1, <2>2
    <3> QED  BY <1>1, <1>4, <3>1
  <2> QED  BY <1>1, <2>1, <2>2
<1>8. \A i \in m + 1 .. Len(before.target) : new[i] = before.target[i]
  <2> SUFFICES ASSUME NEW i \in m + 1 .. Len(before.target) PROVE new[i] = before.target[i]
    OBVIOUS
  <2>1. n <= m
    BY DEF n
  <2>2. /\ i \in n + Len(bytes) + 1 .. Len(target) /\ i \in n + 1 .. Len(before.target)
    BY <1>1, <1>3, <2>1 DEF Laid, n
  <2> QED  BY <1>3, <1>4, <2>2 DEF Laid, n
<1> QED  BY <1>5, <1>6, <1>7, <1>8 DEF Laid

LEMMA UploadStutter ==
    ASSUME UploadOK,
           UNCHANGED <<order, before, disturbed, target, position, total, expected, cpc, spc, c2s>>
    PROVE  UploadOK'
BY DEF UploadOK, Laid, UnderWay, Flowing, Put, Taken, Undisturbed

\* The header is sent in two steps, then the content chunk by chunk.
LEMMA ClientUpload ==
    ASSUME UploadInv, Uploading, Client
    PROVE  UploadOK'
<1> USE UploadFacts
<1> USE DEF ClientGoes, fileVars, fixedVars
<1>1. /\ UploadOK /\ UNCHANGED <<order, before, disturbed, target, total, expected, spc>>
      /\ Taken' = Taken /\ Laid' /\ (Undisturbed("upload")' <=> Undisturbed("upload"))
  <2>1. UploadOK /\ cpc \in {"idle", "upload", "stat", "send", "closed"}
    BY DEF UploadOK
  <2>2. UNCHANGED <<order, before, disturbed, target, total, expected, spc>>
    BY <2>1 DEF Client, LinkS, SendHeader, StatFile, SendChunk, CloseFile, BrokenPipe, SendDownload,
         ReadCount, ReadEntry, PickName, ReadFileSize, ReceiveData, ReceiveEnd, Quit
  <2> QED  BY <2>1, <2>2 DEF UploadOK, Laid, Taken, Undisturbed
<1>2. CASE LinkS
  <2>1. cpc = "idle" /\ cpc' = "upload" /\ UNCHANGED <<position, c2s>>
    BY <1>2 DEF LinkS
  <2>2. Put' = Put
    BY <2>1 DEF Put
  <2> QED  BY <1>1, <2>1, <2>2 DEF UploadOK, UnderWay, Flowing
<1>3. CASE SendHeader
  <2> DEFINE header == <<Record("U", 0), Record("token", 1), Record("name", 0)>>
  <2>1. /\ cpc = "upload" /\ cpc' = "stat" /\ position' = position
        /\ ClientSends(header)
    BY <1>3 DEF SendHeader
  <2>2. CASE spc = "closed"
    BY <1>1, <2>1, <2>2 DEF UploadOK
  <2>3. CASE spc # "closed"
    <3>1. Put = 0 /\ Put' = 3 /\ UnderWay
      BY <1>1, <2>1, <2>3 DEF Put
    <3>2. PICK h \in 0..4 - Taken, to \in 0..Len(before.source) : Flowing(h, to)
      BY <3>1 DEF UnderWay
    <3>3. Taken = 0 /\ h = 0 /\ Len(c2s) = 0 /\ position = 0 /\ total = 0
      BY <2>1, <3>1, <3>2 DEF UnderWay, Flowing
    <3>4. c2s' = header
      <4>1. c2s = << >>
        BY <3>3, EmptySeq
      <4>2. c2s' = << >> \o header
        BY <2>1, <2>3, <4>1 DEF ClientSends
      <4> QED  BY <4>2
    <3>5. header \in Seq(Records) /\ Len(header) = 3
      BY RecordTypes
    <3>6. Header(before.source, header, 3, 0)
      <4>1. \A i \in 1..3 : i = 1 \/ i = 2 \/ i = 3
        OBVIOUS
      <4> QED  BY <3>5, <4>1 DEF Header, HeaderKinds, Record
    <3>7. Pieces(before.source, header, 3, 0, 0)
      <4>1. /\ header \in Seq(Records) /\ Len(header) = 3 /\ before.source \in Seq(Bytes)
            /\ 3 \in Nat /\ 0 \in 0..Len(before.source)
        BY <3>5
      <4> HIDE DEF header
      <4>2. \A at \in 0..Len(before.source) : Pieces(before.source, header, 3, at, at)
        BY <4>1, NoPieces
      <4> QED  BY <4>1, <4>2
    <3> HIDE DEF header
    <3>8. Flowing(3, 0)'
      BY <1>1, <2>1, <3>1, <3>3, <3>4, <3>5, <3>6, <3>7 DEF Flowing
    <3>9. \E k \in 0..4 - Taken', at \in 0..Len(before'.source) : Flowing(k, at)'
      <4>1. 3 \in 0..4 - Taken' /\ 0 \in 0..Len(before'.source)
        BY <1>1, <3>3
      <4> QED  BY <3>8, <4>1
    <3>10. UnderWay'
      BY <1>1, <2>1, <3>1, <3>3, <3>9 DEF UnderWay
    <3> QED  BY <1>1, <2>1, <2>3, <3>10 DEF UploadOK
  <2> QED  BY <2>2, <2>3
<1>4. CASE StatFile
  <2> DEFINE size == Record("size", SourceSize)
  <2>1. cpc = "stat" /\ cpc' \in {"send", "closed"} /\ position' = position
    BY <1>4 DEF StatFile
  <2>2. CASE spc = "closed"
    BY <1>1, <2>1, <2>2 DEF UploadOK
  <2>3. CASE spc # "closed"
    <3>1. Put = 3 /\ Put' = 4 /\ UnderWay
      BY <1>1, <2>1, <2>3 DEF Put
    <3>2. PICK h \in 0..4 - Taken, to \in 0..Len(before.source) : Flowing(h, to)
      BY <3>1 DEF UnderWay
    <3>3. Taken + h = 3 /\ Len(c2s) = h /\ to = 0 /\ h \in Nat /\ position = 0 /\ total = 0
      BY <2>1, <3>1, <3>2 DEF UnderWay, Flowing
    <3>4. CASE order.there
      <4> DEFINE q == c2s \o <<size>>
      <4>1. cpc' = "send" /\ ClientSends(<<size>>)
        BY <1>4, <3>4 DEF StatFile
      <4>2. size \in Records /\ size.kind = "size" /\ size.n = Len(before.source) % Modulus
        BY Remainder, RecordTypes DEF SourceSize, Record
      <4> HIDE DEF size
      <4>3. /\ q \in Seq(Records) /\ Len(q) = h + 1 /\ q[h + 1] = size
            /\ \A i \in 1..h : q[i] = c2s[i]
        BY <3>3, <4>2, AppendProperties, AppendIsConcat
      <4>4. c2s' = q
        BY <2>3, <4>1 DEF ClientSends
      <4> HIDE DEF q
      <4>5. Header(before.source, q, h + 1, Taken)
        <5>1. Header(before.source, c2s, h, Taken)
          BY <3>2 DEF Flowing
        <5>2. HeaderKinds[Taken + (h + 1)] = "size"
          BY <3>3 DEF HeaderKinds
        <5>3. \A i \in 1..h :
                /\ q[i].kind = HeaderKinds[Taken + i]
                /\ q[i].kind = "token" => q[i].n = 1
                /\ q[i].kind = "size" => q[i].n = Len(before.source) % Modulus
          BY <4>3, <5>1 DEF Header
        <5>4. /\ q[h + 1].kind = HeaderKinds[Taken + (h + 1)]
              /\ q[h + 1].kind # "token" /\ q[h + 1].n = Len(before.source) % Modulus
          BY <4>2, <4>3, <5>2
        <5>5. \A i \in 1..h + 1 : i \in 1..h \/ i = h + 1
          BY <3>3
        <5>6. h + 1 \in 0..Len(q)
          BY <3>3, <4>3
        <5> QED  BY <5>3, <5>4, <5>5, <5>6 DEF Header
      <4>6. Pieces(before.source, q, h + 1, 0, 0)
        <5>1. h + 1 \in Nat /\ 0 \in 0..Len(before.source)
          BY <3>3
        <5>2. \A at \in 0..Len(before.source) : Pieces(before.source, q, h + 1, at, at)
          BY <4>3, <5>1, NoPieces
        <5> QED  BY <5>1, <5>2
      <4>7. Flowing(h + 1, 0)'
        BY <1>1, <2>1, <3>1, <3>3, <4>1, <4>3, <4>4, <4>5, <4>6 DEF Flowing
      <4>8. \E k \in 0..4 - Taken', at \in 0..Len(before'.source) : Flowing(k, at)'
        <5>1. h + 1 \in 0..4 - Taken' /\ 0 \in 0..Len(before'.source)
          BY <1>1, <3>3
        <5> QED  BY <4>7, <5>1
      <4>9. UnderWay'
        BY <1>1, <3>1, <2>1, <3>3, <4>1, <4>8 DEF UnderWay
      <4> QED  BY <1>1, <2>1, <2>3, <4>9 DEF UploadOK
    <3>5. CASE ~order.there
      <4>1. ClientSends(<< >>) /\ cpc' = "closed" /\ ~Undisturbed("upload")'
        BY <1>1, <1>4, <3>5 DEF StatFile, Undisturbed
      <4>2. c2s' = c2s
        <5>1. c2s' = c2s \/ c2s' = c2s \o << >>
          BY <4>1 DEF ClientSends
        <5> QED  BY <5>1, ConcatEmptySeq
      <4>3. Flowing(h, to)'
        BY <1>1, <3>2, <3>3, <4>1, <4>2 DEF Flowing
      <4>4. UnderWay'
        BY <1>1, <3>1, <3>3, <4>1, <4>3 DEF UnderWay
      <4> QED  BY <1>1, <2>1, <2>3, <4>4 DEF UploadOK
    <3> QED  BY <3>4, <3>5
  <2> QED  BY <2>2, <2>3
<1>5. CASE SendChunk
  <2> DEFINE chunk == Data(NextBytes)
             end == position + Len(NextBytes)
  <2>1. /\ cpc = "send" /\ cpc' = cpc /\ ~AtSourceEnd /\ position' = end
        /\ ClientSends(<<chunk>>)
    BY <1>5 DEF SendChunk, AdvanceSource
  <2>2. /\ NextBytes \in Seq(Bytes) /\ Len(NextBytes) \in Nat /\ end <= Len(before.source)
        /\ NextBytes = SubSeq(before.source, position + 1, end)
    BY <2>1, NextBytesFacts
  <2>3. chunk \in Records /\ chunk.data = NextBytes
    <3>1. NextBytes \in Seq(Bytes \cup {Junk})
      <4>1. \A i \in 1..Len(NextBytes) : NextBytes[i] \in Bytes
        BY <2>2, ElementOfSeq
      <4> QED  BY <2>2, <4>1
    <3> QED  BY <3>1, RecordTypes DEF Data
  <2>4. end \in 0..Len(before.source) /\ position <= end /\ position \in Nat
    BY <2>2
  <2> HIDE DEF chunk, end
  <2>7. PICK at \in 0..Len(before.source) : at = end
    BY <2>4
  <2>5. CASE spc = "closed"
    BY <1>1, <2>1, <2>4, <2>5 DEF UploadOK
  <2>6. CASE spc # "closed"
    <3>1. Put = 4 /\ Put' = 4 /\ UnderWay
      BY <1>1, <2>1, <2>6 DEF Put
    <3>2. PICK h \in 0..4 - Taken, to \in 0..Len(before.source) : Flowing(h, to)
      BY <3>1 DEF UnderWay
    <3>3. Taken + h = 4 /\ to = position /\ h \in 0..Len(c2s)
      BY <2>1, <3>1, <3>2 DEF Flowing, Header
    <3>4. /\ Header(before.source, c2s \o <<chunk>>, h, Taken)
          /\ Pieces(before.source, c2s \o <<chunk>>, h, total, end)
      <4>1. /\ Header(before.source, c2s, h, Taken)
            /\ Pieces(before.source, c2s, h, total, position)
        BY <3>2, <3>3 DEF Flowing
      <4>2. /\ before.source \in Seq(Bytes) /\ c2s \in Seq(Records) /\ Taken \in Nat /\ h \in Nat
            /\ chunk.data = SubSeq(before.source, position + 1, end)
        BY <2>2, <2>3, SMTT(30)
      <4> DEFINE q == c2s \o <<chunk>>
      <4>3. Pieces(before.source, q, h, total, end)
        BY <2>3, <2>4, <3>3, <4>1, <4>2, PieceSent
      <4>4. q \in Seq(Records) /\ Len(q) = Len(c2s) + 1 /\ \A i \in 1..Len(c2s) : q[i] = c2s[i]
        BY <2>3, <4>2, AppendProperties, AppendIsConcat
      <4> HIDE DEF q
      <4>5. Header(before.source, q, h, Taken)
        BY <4>1, <4>2, <4>4, HeaderStays
      <4> QED  BY <4>3, <4>5 DEF q
    <3>5. c2s' = c2s \o <<chunk>>
      BY <2>1, <2>6 DEF ClientSends
    <3>6. Flowing(h, at)'
      BY <1>1, <2>1, <2>7, <3>1, <3>3, <3>4, <3>5 DEF Flowing
    <3>7. \E k \in 0..4 - Taken', n \in 0..Len(before'.source) : Flowing(k, n)'
      BY <1>1, <3>6
    <3>8. UnderWay'
      BY <1>1, <2>1, <3>1, <3>7 DEF UnderWay
    <3> QED  BY <1>1, <2>1, <2>4, <2>6, <3>8 DEF UploadOK
  <2> QED  BY <2>5, <2>6
<1>6. CASE CloseFile
  <2>1. /\ cpc = "send" /\ cpc' = "closed" /\ position = Len(before.source)
        /\ UNCHANGED <<position, c2s>>
    BY <1>6 DEF CloseFile, AtSourceEnd
  <2>2. Put = 4 /\ Put' = 4
    BY <2>1 DEF Put
  <2> QED  BY <1>1, <2>1, <2>2 DEF UploadOK, UnderWay, Flowing
<1>7. CASE BrokenPipe
  BY <1>1, <1>7 DEF BrokenPipe, UploadOK
<1>8. LinkS \/ SendHeader \/ StatFile \/ SendChunk \/ CloseFile \/ BrokenPipe
  BY <1>1 DEF UploadOK, Client, SendDownload, ReadCount, ReadEntry, PickName, ReadFileSize,
       ReceiveData, ReceiveEnd, Quit
<1> QED  BY <1>2, <1>3, <1>4, <1>5, <1>6, <1>7, <1>8

\* Header records are taken in their order and data records are written in theirs;
\* the server of an undisturbed upload stops only when all of the content is written.
LEMMA ServerUpload ==
    ASSUME UploadInv, Uploading, Server \/ UninitialisedCommand
    PROVE  UploadOK'
<1> USE UploadFacts
<1> USE DEF ServerGoes, Ends, Continues, serverFrame, fixedVars, fileVars
<1>1. /\ UploadOK /\ spc # "closed" /\ UnderWay
      /\ UNCHANGED <<order, before, disturbed, position, cpc>> /\ Put' = Put
      /\ spc \in {"idle", "command", "token", "name", "size", "data"}
      /\ (Undisturbed("upload")' <=> Undisturbed("upload"))
  <2>1. spc \in {"idle", "command", "token", "name", "size", "data", "closed"}
    BY DEF UploadOK
  <2>2. spc # "closed" /\ UNCHANGED <<order, before, disturbed, position, cpc>>
    BY <2>1 DEF Server, UninitialisedCommand, Accept, ReadCommand, ReadToken, ReadName, ReadSize,
         ReadData, ReadEnd, CountEntries, SendEntries, ReadPick, SendFile, ServerBrokenPipe, Expect,
         Receive
  <2> QED  BY <2>1, <2>2 DEF UploadOK, Put, Undisturbed
<1>2. CASE Accept
  <2>1. /\ spc = "idle" /\ spc' = "command"
        /\ UNCHANGED <<target, total, expected, c2s>>
    BY <1>2 DEF Accept
  <2>2. Taken' = Taken
    BY <2>1 DEF Taken
  <2> QED  BY <1>1, <2>1, <2>2 DEF UploadOK, UnderWay, Flowing, Laid
<1>3. CASE (ReadCommand \/ ReadToken \/ ReadName \/ ReadSize) /\ ServerReads
  <2>1. spc \in {"command", "token", "name", "size"} /\ ServerReads /\ UNCHANGED <<target, total>>
    BY <1>3 DEF ReadCommand, ReadToken, ReadName, ReadSize, Expect
  <2>2. PICK h \in 0..4 - Taken, to \in 0..Len(before.source) : Flowing(h, to)
    BY <1>1 DEF UnderWay
  <2>3. /\ c2s # << >> /\ Head(c2s).kind = HeaderKinds[Taken + 1]
        /\ Head(c2s).kind = "token" => Head(c2s).n = 1
        /\ Head(c2s).kind = "size" => Head(c2s).n = Len(before.source) % Modulus
    BY <2>1, <2>2, HeaderReady
  <2>4. /\ spc' \in {"token", "name", "size", "data"} /\ Taken' = Taken + 1
        /\ Taken' = 4 => expected' = Len(before.source) % Modulus
    <3>1. CASE ReadCommand
      <4>1. spc = "command" /\ Taken = 0
        BY <3>1 DEF ReadCommand, Taken
      <4>2. Head(c2s).kind = "U"
        BY <2>3, <4>1 DEF HeaderKinds
      <4> QED  BY <3>1, <4>1, <4>2 DEF ReadCommand, Taken
    <3>2. CASE ReadToken
      <4>1. spc = "token" /\ Taken = 1
        BY <3>2 DEF ReadToken, Taken
      <4>2. Head(c2s).kind = "token"
        BY <2>3, <4>1 DEF HeaderKinds
      <4>3. spc' = "name"
        BY <2>3, <3>2, <4>2 DEF ReadToken, ServerAtEnd
      <4> QED  BY <4>1, <4>3 DEF Taken
    <3>3. CASE ReadName
      <4>1. spc = "name" /\ spc' = "size"
        BY <2>3, <3>3 DEF ReadName, ServerAtEnd
      <4> QED  BY <4>1 DEF Taken
    <3>4. CASE ReadSize
      <4>1. spc = "size" /\ Taken = 3
        BY <3>4 DEF ReadSize, Taken
      <4>2. Head(c2s).kind = "size"
        BY <2>3, <4>1 DEF HeaderKinds
      <4>3. spc' = "data" /\ expected' = Len(before.source) % Modulus
        BY <2>3, <3>4, <4>2 DEF ReadSize, ServerAtEnd, Expect
      <4> QED  BY <4>1, <4>3 DEF Taken
    <3> QED  BY <1>3, <3>1, <3>2, <3>3, <3>4
  <2>5. UnderWay'
    <3>1. Undisturbed("upload") /\ Taken' = 4 => expected' = Len(before.source)
      BY <2>4, Remainder DEF Undisturbed
    <3> QED  BY <1>1, <2>1, <2>4, <3>1, HeaderStep
  <2> QED  BY <1>1, <2>1, <2>4, <2>5 DEF UploadOK, Laid
<1>4. CASE (ReadToken \/ ReadName \/ ReadSize) /\ ServerAtEnd
  <2>1. /\ spc \in {"token", "name", "size"} /\ UNCHANGED <<target, total>>
        /\ spc' \in {"command", "data"}
    BY <1>4 DEF ReadToken, ReadName, ReadSize, ServerReads, ServerAtEnd, Expect
  <2>2. Taken' \in 0..4
    BY <2>1 DEF Taken
  <2>3. UnderWay'
    BY <1>1, <1>4, <2>1, <2>2, HeaderEnd
  <2> QED  BY <1>1, <2>1, <2>3 DEF UploadOK, Laid
<1>5. CASE ReadData
  <2>1. spc = "data" /\ ServerReads /\ Receive(Head(c2s).data) /\ c2s # << >> /\ c2s' = Tail(c2s)
    BY <1>5 DEF ReadData, ServerReads
  <2>2. PICK h \in 0..4 - Taken, to \in 0..Len(before.source) : Flowing(h, to)
    BY <1>1 DEF UnderWay
  <2>3. /\ Taken = 4 /\ h = 0 /\ (Undisturbed("upload") => expected = Len(before.source))
        /\ (cpc # "closed" \/ Undisturbed("upload")) => Put = 4 /\ to = position
    <3>1. Taken = 4
      BY <2>1 DEF Taken
    <3> QED  BY <1>1, <2>2, <3>1 DEF UnderWay, Flowing
  <2>4. Pieces(before.source, c2s, 0, total, to)
    BY <2>2, <2>3 DEF Flowing
  <2>5. before.source \in Seq(Bytes) /\ c2s \in Seq(Records)
    OBVIOUS
  <2>6. PICK m \in 0..Len(before.source) :
          /\ total \in 0..m
          /\ Head(c2s).data = SubSeq(before.source, total + 1, m)
          /\ Pieces(before.source, Tail(c2s), 0, m, to)
    BY <2>1, <2>4, <2>5, PieceTaken
  <2>7. Laid' /\ total' = m /\ m \in Nat
    <3>1. Receive(SubSeq(before.source, total + 1, m)) /\ UNCHANGED before /\ total <= m
      <4>1. Receive(SubSeq(before.source, total + 1, m))
        <5>1. Head(c2s).data = SubSeq(before.source, total + 1, m)
          BY <2>6
        <5> QED  BY <2>1, <5>1, Zenon
      <4>2. UNCHANGED before
        BY <1>1
      <4>3. total <= m
        BY <2>6
      <4> QED  BY <4>1, <4>2, <4>3
    <3>2. Laid' /\ total' = m
      BY <1>1, <3>1, LaidOn DEF UploadOK
    <3> QED  BY <3>2
  <2>8. CASE Complete(total')
    <3>1. spc' = "closed"
      BY <1>5, <2>8 DEF ReadData
    <3>2. ASSUME Undisturbed("upload")
          PROVE  m = Len(before.source)
      <4>1. m \in Nat /\ m < Modulus
        BY <3>2, TransferAssumption DEF Undisturbed
      <4>2. total' % Modulus = expected
        BY <2>8 DEF Complete
      <4> QED  BY <2>3, <2>7, <3>2, <4>1, <4>2, Remainder
    <3> QED  BY <1>1, <2>7, <3>1, <3>2 DEF UploadOK
  <2>9. CASE ~Complete(total')
    <3>1. spc' = "data" /\ Taken' = 4 /\ expected' = expected
      BY <1>5, <2>9 DEF ReadData, Taken, Receive
    <3>2. Header(before.source, c2s', 0, 4)
      <4>1. 0 \in 0..Len(Tail(c2s))
        BY <2>1, TailFacts
      <4> QED  BY <2>1, <4>1 DEF Header
    <3>3. Flowing(0, to)'
      BY <1>1, <2>1, <2>3, <2>6, <2>7, <3>1, <3>2 DEF Flowing
    <3>4. UnderWay'
      BY <1>1, <2>3, <3>1, <3>3 DEF UnderWay
    <3> QED  BY <1>1, <2>7, <3>1, <3>4 DEF UploadOK
  <2> QED  BY <2>8, <2>9
<1>6. CASE ReadEnd
  <2>1. /\ spc = "data" /\ spc' = "closed" /\ c2s = << >> /\ cpc = "closed"
        /\ UNCHANGED <<target, total>>
    BY <1>6 DEF ReadEnd, ServerAtEnd
  <2>2. ASSUME Undisturbed("upload")
        PROVE  total = Len(before.source)
    <3>1. PICK h \in 0..4 - Taken, to \in 0..Len(before.source) : Flowing(h, to)
      BY <1>1 DEF UnderWay
    <3>2. Taken = 4 /\ position = Len(before.source)
      BY <1>1, <2>1, <2>2 DEF Taken, UnderWay
    <3>3. h = 0 /\ to = position
      BY <2>2, <3>1, <3>2 DEF Flowing
    <3>4. Pieces(before.source, c2s, 0, total, to)
      BY <3>1, <3>3 DEF Flowing
    <3>5. before.source \in Seq(Bytes) /\ c2s \in Seq(Records) /\ Len(c2s) = 0 /\ 0 \in Nat
      BY <2>1, EmptySeq
    <3>6. total = to
      BY <3>4, <3>5, NoPieces
    <3> QED  BY <3>2, <3>3, <3>6
  <2> QED  BY <1>1, <2>1, <2>2 DEF UploadOK, Laid
<1>7. CASE UninitialisedCommand
  <2>1. /\ spc = "command" /\ spc' = "closed" /\ ServerAtEnd /\ UNCHANGED <<target, total>>
    BY <1>7 DEF UninitialisedCommand
  <2>2. ~Undisturbed("upload")
    BY <2>1, HeaderComes
  <2> QED  BY <1>1, <2>1, <2>2 DEF UploadOK, Laid
<1>8. \/ Accept \/ ReadCommand \/ ReadToken \/ ReadName \/ ReadSize \/ ReadData \/ ReadEnd
      \/ UninitialisedCommand
  <2>1. ~(CountEntries \/ SendEntries \/ ReadPick \/ SendFile)
    BY <1>1 DEF CountEntries, SendEntries, ReadPick, SendFile
  <2>2. ~ServerBrokenPipe
    BY <1>1 DEF ServerBrokenPipe
  <2> QED  BY <2>1, <2>2 DEF Server
<1>9. /\ ReadCommand => ServerReads
      /\ ReadToken \/ ReadName \/ ReadSize => ServerReads \/ ServerAtEnd
  BY DEF ReadCommand, ReadToken, ReadName, ReadSize
<1> QED  BY <1>2, <1>3, <1>4, <1>5, <1>6, <1>7, <1>8, <1>9

\* What a death or a change of the file under way leaves of the upload.
LEMMA EnvironmentUpload ==
    ASSUME UploadInv, Uploading, Uploading',
           ClientCrash \/ ServerCrash \/ SourceChanges \/ DirectoryChanges
    PROVE  UploadOK'
<1> USE UploadFacts
<1>1. /\ UploadOK /\ UNCHANGED <<order, before, target, position, total, expected>>
      /\ ~Undisturbed("upload")' /\ Laid'
  <2>1. UNCHANGED <<order, before, target, position, total, expected>> /\ disturbed'
    BY DEF ClientCrash, ServerCrash, SourceChanges, DirectoryChanges, fixedVars, fileVars
  <2> QED  BY <2>1 DEF UploadOK, Laid, Undisturbed
<1>2. CASE ClientCrash
  <2>1. /\ cpc' = "closed" /\ spc' = spc /\ Put' = 4 /\ Taken' = Taken
        /\ \E n \in 0..Len(c2s) : c2s' = SubSeq(c2s, 1, n)
    BY <1>2 DEF ClientCrash, Put, Taken
  <2>2. CASE spc = "closed"
    BY <1>1, <2>1, <2>2 DEF UploadOK
  <2>3. CASE spc # "closed"
    <3>1. PICK h \in 0..4 - Taken, to \in 0..Len(before.source) : Flowing(h, to)
      BY <2>3 DEF UnderWay
    <3>2. PICK n \in 0..Len(c2s) : c2s' = SubSeq(c2s, 1, n)
      BY <2>1
    <3>3. h \in Nat /\ Taken \in Nat
      OBVIOUS
    <3>4. /\ Header(before.source, c2s, h, Taken) /\ Pieces(before.source, c2s, h, total, to)
          /\ before.source \in Seq(Bytes) /\ c2s \in Seq(Records)
          /\ total \in 0..Len(before.source)
      BY <3>1 DEF Flowing
    <3>5. PICK k \in 0..h, m \in 0..Len(before.source) :
            /\ Header(before.source, SubSeq(c2s, 1, n), k, Taken)
            /\ Pieces(before.source, SubSeq(c2s, 1, n), k, total, m)
            /\ (Len(SubSeq(c2s, 1, n)) = k /\ m = total) \/ (k = h /\ Len(c2s) > h)
      BY <3>3, <3>4, FlowCut
    <3>6. Taken + k < 4 => m = 0 /\ Len(c2s') = k
      <4>1. Taken + h < 4 => Len(c2s) = h
        BY <3>1 DEF Flowing
      <4>2. Taken < 4 => total = 0
        BY <2>3 DEF UnderWay
      <4>3. k \in Nat
        BY <3>3
      <4> QED  BY <3>2, <3>3, <3>5, <4>1, <4>2, <4>3
    <3>7. Flowing(k, m)'
      BY <1>1, <2>1, <3>2, <3>5, <3>6 DEF Flowing
    <3>8. \E i \in 0..4 - Taken', at \in 0..Len(before'.source) : Flowing(i, at)'
      <4>1. k \in 0..4 - Taken' /\ m \in 0..Len(before'.source)
        BY <1>1, <2>1, <3>3
      <4> QED  BY <3>7, <4>1
    <3>9. UnderWay'
      BY <1>1, <2>1, <2>3, <3>8 DEF UnderWay
    <3> QED  BY <1>1, <2>1, <2>3, <3>9 DEF UploadOK
  <2> QED  BY <2>2, <2>3
<1>3. CASE ServerCrash
  BY <1>1, <1>3 DEF ServerCrash, UploadOK
<1>4. CASE SourceChanges \/ DirectoryChanges
  <2>1. UNCHANGED <<cpc, spc, c2s>> /\ ~disturbed
    BY <1>4 DEF SourceChanges, DirectoryChanges
  <2>2. Put' = Put /\ Taken' = Taken
    BY <2>1 DEF Put, Taken
  <2>3. CASE spc = "closed"
    BY <1>1, <2>1, <2>3 DEF UploadOK
  <2>4. CASE spc # "closed"
    <3>1. PICK h \in 0..4 - Taken, to \in 0..Len(before.source) : Flowing(h, to)
      BY <2>4 DEF UnderWay
    <3>2. Flowing(h, to)'
      BY <1>1, <2>1, <2>2, <3>1 DEF Flowing
    <3>3. UnderWay'
      BY <1>1, <2>2, <2>4, <3>2 DEF UnderWay
    <3> QED  BY <1>1, <2>1, <2>4, <3>3 DEF UploadOK
  <2> QED  BY <2>3, <2>4
<1> QED  BY <1>2, <1>3, <1>4

LEMMA StepUpload ==
    ASSUME UploadInv, [Next]_vars
    PROVE  UploadInv'
<1>1. TypeInv' /\ Histories'
  BY StepType, StillAsItWas DEF UploadInv
<1>2. ASSUME Uploading' PROVE UploadOK'
  <2>1. Uploading /\ UploadOK
    BY <1>2, StillAsItWas DEF UploadInv
  <2>2. CASE (Launch /\ UNCHANGED transferVars) \/ UNCHANGED vars
    BY <2>1, <2>2, UploadStutter DEF vars, transferVars, fixedVars, fileVars
  <2>3. CASE Client
    BY <2>1, <2>3, ClientUpload
  <2>4. CASE Server \/ UninitialisedCommand
    BY <2>1, <2>4, ServerUpload
  <2>5. CASE ClientCrash \/ ServerCrash \/ SourceChanges \/ DirectoryChanges
    BY <1>2, <2>1, <2>5, EnvironmentUpload
  <2> QED  BY <2>2, <2>3, <2>4, <2>5 DEF Next
<1> QED  BY <1>1, <1>2 DEF UploadInv

-----------------------------------------------------------------------------
(***************************************************************************)
(* What stores nothing: no transfer, 'Q', and an upload whose token or name  *)
(* the server refuses.  What it has not taken of a refused upload it takes   *)
(* for commands, and no record but the first is one.                        *)
(***************************************************************************)
Unused ==
    \/ order.mode \in {"none", "quit"}
    \/ order.mode = "upload" /\ ~(order.trusted /\ order.writable)

\* The server has not read a command yet.
Fresh == spc \in {"idle", "command"} /\ ~cmd

Token == IF order.trusted THEN 1 ELSE 0

Commands ==
    /\ cpc \in {"idle", "upload", "quit"} => c2s = << >> /\ Fresh
    /\ cpc \in {"stat", "send"} =>
         (Fresh => Len(c2s) >= 2) /\ (spc = "token" => Len(c2s) >= 1)
    /\ \A i \in 1..Len(c2s) :
         /\ c2s[i].kind # "D"
         /\ c2s[i].kind = "U" => i = 1 /\ Fresh /\ order.mode = "upload"
    /\ Fresh /\ Len(c2s) >= 2 => c2s[2].n = Token
    /\ spc = "token" /\ Len(c2s) >= 1 => c2s[1].n = Token

UnusedOK ==
    /\ total = 0 /\ target = before.target
    /\ cpc \in {"idle", "upload", "stat", "send", "quit", "closed"}
    /\ cpc \in {"upload", "stat", "send"} => order.mode = "upload"
    /\ spc \in {"idle", "command", "token", "name", "closed"}
    /\ spc = "name" => order.trusted
    /\ spc \in {"token", "name"} => order.mode = "upload" /\ cmd
    /\ spc = "idle" => ~cmd
    /\ spc # "closed" => Commands

UnusedInv == TypeInv /\ (Unused => UnusedOK)

LEMMA InitUnused == Init => UnusedInv
<1> SUFFICES ASSUME Init PROVE UnusedInv
  OBVIOUS
<1>1. TypeInv
  BY InitType
<1>2. c2s = << >> /\ Len(c2s) = 0
  BY EmptySeq DEF Init
<1>3. Commands
  BY <1>2 DEF Init, Commands, Fresh
<1> QED  BY <1>1, <1>3 DEF Init, UnusedInv, UnusedOK

\* One more record that is no command.
LEMMA OneMore ==
    ASSUME TypeInv, Commands, UNCHANGED <<order, spc, cmd>>,
           NEW r \in Records, r.kind \notin {"U", "D"}, c2s' = c2s \o <<r>>,
           \/ cpc \in {"stat", "send"} /\ cpc' \in {"send", "closed"}
           \/ cpc = "quit" /\ cpc' = "closed"
    PROVE  Commands'
<1> DEFINE q == c2s \o <<r>>
<1>1. c2s \in Seq(Records) /\ Len(c2s) \in Nat
  BY LenProperties DEF TypeInv, TypeOK
<1>2. /\ q \in Seq(Records) /\ Len(q) = Len(c2s) + 1 /\ q[Len(c2s) + 1] = r
      /\ \A i \in 1..Len(c2s) : q[i] = c2s[i]
  BY <1>1, AppendProperties, AppendIsConcat
<1>3. c2s' = q
  OBVIOUS
<1> HIDE DEF q
<1>4. Fresh' = Fresh /\ Token' = Token
  BY DEF Fresh, Token
<1>5. CASE cpc \in {"stat", "send"}
  <2>1. (Fresh => Len(c2s) >= 2) /\ (spc = "token" => Len(c2s) >= 1)
    BY <1>5 DEF Commands
  <2>2. \A i \in 1..Len(q) :
          /\ q[i].kind # "D"
          /\ q[i].kind = "U" => i = 1 /\ Fresh /\ order.mode = "upload"
    <3>1. \A i \in 1..Len(q) : i \in 1..Len(c2s) \/ i = Len(c2s) + 1
      BY <1>1, <1>2
    <3> QED  BY <1>2, <3>1 DEF Commands
  <2>3. /\ Fresh => q[2].n = Token
        /\ spc = "token" => q[1].n = Token
    <3>1. (Fresh => 2 \in 1..Len(c2s)) /\ (spc = "token" => 1 \in 1..Len(c2s))
      BY <1>1, <2>1
    <3> QED  BY <1>2, <2>1, <3>1 DEF Commands
  <2> QED  BY <1>1, <1>2, <1>3, <1>4, <1>5, <2>1, <2>2, <2>3 DEF Commands
<1>6. CASE cpc = "quit"
  <2>1. c2s = << >> /\ Len(c2s) = 0 /\ spc # "token" /\ cpc' = "closed"
    BY <1>6, EmptySeq DEF Commands, Fresh
  <2>2. Len(q) = 1 /\ \A i \in 1..Len(q) : q[i] = r
    BY <1>2, <2>1
  <2> QED  BY <1>3, <1>4, <2>1, <2>2 DEF Commands
<1> QED  BY <1>5, <1>6

LEMMA ClientUnused ==
    ASSUME UnusedInv, Unused, Client
    PROVE  UnusedOK'
<1> USE DEF ClientGoes, fileVars, fixedVars
<1>1. /\ UnusedOK /\ TypeInv /\ UNCHANGED <<order, before, target, total, spc, cmd>>
      /\ \/ LinkS \/ SendHeader \/ StatFile \/ SendChunk \/ CloseFile \/ BrokenPipe \/ Quit
  <2>1. UnusedOK /\ TypeInv
    BY DEF UnusedInv
  <2>2. LinkS \/ SendHeader \/ StatFile \/ SendChunk \/ CloseFile \/ BrokenPipe \/ Quit
    BY <2>1 DEF UnusedOK, Client, SendDownload, ReadCount, ReadEntry, PickName, ReadFileSize,
         ReceiveData, ReceiveEnd
  <2> QED
    BY <2>1, <2>2 DEF LinkS, SendHeader, StatFile, SendChunk, CloseFile, BrokenPipe, Quit
<1>2. Fresh' = Fresh /\ Token' = Token
  BY <1>1 DEF Fresh, Token
<1>3. /\ cpc' \in {"idle", "upload", "stat", "send", "quit", "closed"}
      /\ cpc' \in {"upload", "stat", "send"} => order.mode = "upload"
  BY <1>1 DEF Unused, UnusedOK, LinkS, SendHeader, StatFile, SendChunk, CloseFile, BrokenPipe, Quit
<1>4. ASSUME spc # "closed" PROVE Commands'
  <2>1. Commands /\ c2s \in Seq(Records) /\ Len(c2s) \in Nat
    BY <1>1, <1>4, LenProperties DEF UnusedOK, TypeInv, TypeOK
  <2>2. CASE LinkS \/ CloseFile
    <3>1. /\ c2s' = c2s /\ (cpc = "idle" \/ cpc' = "closed")
          /\ cpc' \in {"closed", "quit", "upload"}
      BY <2>2 DEF LinkS, CloseFile, Unused
    <3> QED  BY <1>1, <1>2, <2>1, <3>1 DEF Commands
  <2>3. CASE SendHeader
    <3> DEFINE header == <<Record("U", 0), Record("token", Token), Record("name", 0)>>
    <3>1. cpc = "upload" /\ cpc' = "stat" /\ ClientSends(header)
      BY <2>3 DEF SendHeader, Token
    <3>2. c2s = << >> /\ Fresh /\ order.mode = "upload"
      BY <1>1, <2>1, <3>1 DEF Commands, UnusedOK
    <3>3. c2s' = header
      <4>1. c2s' = << >> \o header
        BY <1>4, <3>1, <3>2 DEF ClientSends
      <4> QED  BY <4>1
    <3>4. /\ Len(header) = 3 /\ header[2].n = Token
          /\ header[1].kind = "U" /\ header[2].kind = "token" /\ header[3].kind = "name"
      BY DEF Record
    <3>5. \A i \in 1..3 : i = 1 \/ i = 2 \/ i = 3
      OBVIOUS
    <3> HIDE DEF header
    <3>6. Fresh' /\ spc' # "token" /\ order'.mode = "upload"
      BY <1>1, <1>2, <3>2 DEF Fresh
    <3> QED  BY <1>2, <3>1, <3>3, <3>4, <3>5, <3>6 DEF Commands
  <2>4. CASE StatFile
    <3>1. CASE order.there
      <4>1. PICK r \in Records : r = Record("size", SourceSize)
        <5>1. Len(source) \in Nat
          BY <1>1, LenProperties DEF TypeInv, TypeOK
        <5> QED  BY <5>1, Remainder, RecordTypes DEF SourceSize
      <4>2. r.kind \notin {"U", "D"} /\ c2s' = c2s \o <<r>> /\ cpc = "stat" /\ cpc' = "send"
        BY <1>4, <2>4, <3>1, <4>1 DEF StatFile, ClientSends, Record
      <4> QED  BY <1>1, <2>1, <4>2, OneMore
    <3>2. CASE ~order.there
      <4>1. c2s' = c2s /\ cpc' = "closed"
        <5>1. cpc' = "closed" /\ (c2s' = c2s \/ c2s' = c2s \o << >>)
          BY <2>4, <3>2 DEF StatFile, ClientSends
        <5> QED  BY <2>1, <5>1, ConcatEmptySeq
      <4> QED  BY <1>1, <1>2, <2>1, <4>1 DEF Commands
    <3> QED  BY <3>1, <3>2
  <2>5. CASE SendChunk
    <3>1. ~AtSourceEnd /\ cpc = "send" /\ cpc' = "send"
      BY <2>5 DEF SendChunk
    <3>2. NextBytes \in Seq(Bytes \cup {Junk})
      <4>1. NextBytes \in Seq(Bytes)
        BY <1>1, <3>1, NextBytesFacts
      <4>2. \A i \in 1..Len(NextBytes) : NextBytes[i] \in Bytes
        BY <4>1, ElementOfSeq
      <4> QED  BY <4>1, <4>2
    <3>3. PICK r \in Records : r = Data(NextBytes)
      BY <3>2, RecordTypes
    <3>4. r.kind \notin {"U", "D"} /\ c2s' = c2s \o <<r>>
      BY <1>4, <2>5, <3>3 DEF SendChunk, ClientSends, Data
    <3> QED  BY <1>1, <2>1, <3>1, <3>4, OneMore
  <2>6. CASE Quit
    <3>1. PICK r \in Records : r = Record("Q", 0)
      BY RecordTypes
    <3>2. r.kind \notin {"U", "D"} /\ c2s' = c2s \o <<r>> /\ cpc = "quit" /\ cpc' = "closed"
      BY <1>4, <2>6, <3>1 DEF Quit, ClientSends, Record
    <3> QED  BY <1>1, <2>1, <3>2, OneMore
  <2>7. ~BrokenPipe
    BY <1>4 DEF BrokenPipe
  <2> QED  BY <1>1, <2>2, <2>3, <2>4, <2>5, <2>6, <2>7
<1> QED  BY <1>1, <1>3, <1>4 DEF UnusedOK

LEMMA ServerUnused ==
    ASSUME UnusedInv, Unused, Server \/ UninitialisedCommand
    PROVE  UnusedOK'
<1> USE DEF ServerGoes, Ends, Continues, serverFrame, fixedVars, fileVars
<1>1. /\ UnusedOK /\ TypeInv /\ UNCHANGED <<order, before, target, total, cpc>> /\ spc # "closed"
      /\ Accept \/ ReadCommand \/ ReadToken \/ ReadName \/ UninitialisedCommand
  <2>1. UnusedOK /\ TypeInv
    BY DEF UnusedInv
  <2>2. ~ServerBrokenPipe
    BY <2>1 DEF UnusedOK, ServerBrokenPipe
  <2>3. Accept \/ ReadCommand \/ ReadToken \/ ReadName \/ UninitialisedCommand
    BY <2>1, <2>2 DEF UnusedOK, Server, ReadSize, ReadData, ReadEnd, CountEntries, SendEntries,
         ReadPick, SendFile
  <2> QED
    BY <2>1, <2>3 DEF Accept, ReadCommand, ReadToken, ReadName, UninitialisedCommand
<1>2. /\ Commands /\ c2s \in Seq(Records) /\ Len(c2s) \in Nat /\ Token' = Token
      /\ Token \in {0, 1} /\ (Token = 1 <=> order.trusted)
  BY <1>1, LenProperties DEF UnusedOK, TypeInv, TypeOK, Token
<1>3. CASE Accept
  <2>1. spc = "idle" /\ spc' = "command" /\ UNCHANGED <<cmd, c2s>>
    BY <1>3 DEF Accept
  <2>2. Fresh' = Fresh
    BY <2>1 DEF Fresh
  <2> QED  BY <1>1, <1>2, <2>1, <2>2 DEF UnusedOK, Commands
<1>4. ASSUME ServerReads
      PROVE  /\ c2s # << >> /\ c2s' = Tail(c2s) /\ Head(c2s) = c2s[1] /\ Len(c2s) >= 1
             /\ Len(c2s') = Len(c2s) - 1 /\ \A i \in 1..Len(c2s') : c2s'[i] = c2s[i + 1]
             /\ cpc \notin {"idle", "upload", "quit"}
             /\ \A i \in 1..Len(c2s') : c2s'[i].kind \notin {"U", "D"}
  <2>1. c2s # << >> /\ c2s' = Tail(c2s)
    BY <1>4 DEF ServerReads
  <2>2. /\ Head(c2s) = c2s[1] /\ Len(c2s) >= 1 /\ Len(c2s') = Len(c2s) - 1
        /\ \A i \in 1..Len(c2s') : c2s'[i] = c2s[i + 1]
    BY <1>2, <2>1, TailFacts
  <2>3. cpc \notin {"idle", "upload", "quit"}
    BY <1>2, <2>1 DEF Commands
  <2>4. \A i \in 1..Len(c2s') : c2s'[i].kind \notin {"U", "D"}
    <3>1. \A i \in 1..Len(c2s') : i + 1 \in 1..Len(c2s) /\ i + 1 # 1
      BY <1>2, <2>2
    <3> QED  BY <1>2, <2>2, <3>1 DEF Commands
  <2> QED  BY <2>1, <2>2, <2>3, <2>4
<1>5. CASE ReadCommand
  <2>1. /\ spc = "command" /\ ServerReads /\ cmd' = TRUE
        /\ Head(c2s).kind = "U" => spc' = "token"
        /\ Head(c2s).kind \notin {"U", "D"} => spc' = "closed"
    BY <1>5 DEF ReadCommand
  <2>2. 1 \in 1..Len(c2s) /\ Head(c2s) = c2s[1]
    BY <1>2, <1>4, <2>1
  <2>3. CASE Head(c2s).kind = "U"
    <3>1. Fresh /\ order.mode = "upload" /\ spc' = "token"
      BY <1>2, <2>1, <2>2, <2>3 DEF Commands
    <3>2. /\ cpc' \in {"stat", "send"} => Len(c2s') >= 1
          /\ Len(c2s') >= 1 => c2s'[1].n = Token'
      <4>1. Len(c2s') >= 1 => 1 \in 1..Len(c2s') /\ Len(c2s) >= 2
        BY <1>2, <1>4, <2>1
      <4>2. Len(c2s') >= 1 => c2s'[1] = c2s[2] /\ c2s[2].n = Token
        BY <1>2, <1>4, <2>1, <3>1, <4>1 DEF Commands
      <4>3. cpc' \in {"stat", "send"} => Len(c2s) >= 2
        BY <1>1, <1>2, <3>1 DEF Commands
      <4> QED  BY <1>2, <1>4, <2>1, <4>2, <4>3
    <3>3. ~Fresh'
      BY <3>1 DEF Fresh
    <3>4. Commands'
      BY <1>1, <1>4, <2>1, <3>1, <3>2, <3>3 DEF Commands
    <3> QED  BY <1>1, <2>1, <3>1, <3>4 DEF UnusedOK
  <2>4. CASE Head(c2s).kind # "U"
    <3>1. spc' = "closed"
      BY <1>2, <2>1, <2>2, <2>4 DEF Commands
    <3> QED  BY <1>1, <3>1 DEF UnusedOK
  <2> QED  BY <2>3, <2>4
<1>6. CASE ReadToken \/ ReadName
  <2>1. /\ spc \in {"token", "name"} /\ cmd /\ cmd' = cmd /\ order.mode = "upload"
        /\ spc' \in {"name", "command"} /\ (spc' = "name" => order.trusted)
    <3>1. CASE ReadToken
      <4>1. spc = "token" /\ cmd /\ cmd' = cmd /\ order.mode = "upload"
        BY <1>1, <3>1 DEF ReadToken, UnusedOK
      <4>2. CASE ServerReads
        <5>1. Head(c2s).n = Token
          BY <1>2, <1>4, <4>1, <4>2 DEF Commands
        <5>2. spc' = IF Head(c2s).n = 1 THEN "name" ELSE "command"
          BY <1>4, <3>1, <4>2 DEF ReadToken, ServerAtEnd
        <5> QED  BY <1>2, <4>1, <5>1, <5>2
      <4>3. CASE ServerAtEnd
        <5>1. spc' = "command"
          BY <3>1, <4>3 DEF ReadToken, ServerReads, ServerAtEnd
        <5> QED  BY <4>1, <5>1
      <4> QED  BY <3>1, <4>2, <4>3 DEF ReadToken
    <3>2. CASE ReadName
      <4>1. spc = "name" /\ cmd /\ cmd' = cmd /\ order.mode = "upload" /\ order.trusted
        BY <1>1, <3>2 DEF ReadName, UnusedOK
      <4>2. ~order.writable
        BY <4>1 DEF Unused
      <4>3. spc' = "command"
        BY <3>2, <4>2 DEF ReadName
      <4> QED  BY <4>1, <4>3
    <3> QED  BY <1>6, <3>1, <3>2
  <2>2. ~Fresh /\ ~Fresh' /\ spc' # "token"
    BY <2>1 DEF Fresh
  <2>3. ServerReads \/ (ServerAtEnd /\ c2s' = c2s)
    BY <1>6 DEF ReadToken, ReadName, ServerAtEnd
  <2>4. cpc \notin {"idle", "upload", "quit"}
    BY <1>2, <2>2 DEF Commands
  <2>5. \A i \in 1..Len(c2s') : c2s'[i].kind \notin {"U", "D"}
    BY <1>2, <1>4, <2>2, <2>3 DEF Commands
  <2>6. Commands'
    BY <1>1, <2>1, <2>2, <2>4, <2>5 DEF Commands
  <2> QED  BY <1>1, <2>1, <2>6 DEF UnusedOK
<1>7. CASE UninitialisedCommand
  <2>1. spc' = "closed"
    BY <1>7 DEF UninitialisedCommand
  <2> QED  BY <1>1, <2>1 DEF UnusedOK
<1> QED  BY <1>1, <1>3, <1>5, <1>6, <1>7

LEMMA StepUnused ==
    ASSUME UnusedInv, [Next]_vars
    PROVE  UnusedInv'
<1>1. TypeInv'
  BY StepType DEF UnusedInv
<1>2. CASE (Launch /\ UNCHANGED transferVars) \/ UNCHANGED vars
  <2>1. UNCHANGED <<order, before, target, total, cpc, spc, cmd, c2s>>
    BY <1>2 DEF vars, transferVars, fixedVars, fileVars
  <2> QED  BY <1>1, <2>1 DEF UnusedInv, Unused, UnusedOK, Commands, Fresh, Token
<1>3. CASE Client \/ Server \/ UninitialisedCommand
  <2>1. Unused' => Unused
    BY <1>3, ProcessesDoNotDisturb DEF Unused
  <2> QED  BY <1>1, <1>3, <2>1, ClientUnused, ServerUnused DEF UnusedInv
<1>4. CASE ClientCrash
  <2>1. /\ UNCHANGED <<order, before, target, total, spc, cmd>> /\ cpc' = "closed"
        /\ \E n \in 0..Len(c2s) : c2s' = SubSeq(c2s, 1, n)
    BY <1>4 DEF ClientCrash, fixedVars, fileVars
  <2>2. PICK n \in 0..Len(c2s) : c2s' = SubSeq(c2s, 1, n)
    BY <2>1
  <2>3. c2s \in Seq(Records) /\ Len(c2s) \in Nat
    BY LenProperties DEF UnusedInv, TypeInv, TypeOK
  <2>4. Len(c2s') = n /\ \A i \in 1..n : c2s'[i] = c2s[i]
    BY <2>2, <2>3, SliceFacts
  <2>5. ASSUME Commands PROVE Commands'
    <3>1. Fresh' = Fresh /\ Token' = Token
      BY <2>1 DEF Fresh, Token
    <3>2. (n >= 2 => 2 \in 1..n) /\ (n >= 1 => 1 \in 1..n) /\ \A i \in 1..n : i \in 1..Len(c2s)
      BY <2>3
    <3> QED  BY <2>1, <2>3, <2>4, <2>5, <3>1, <3>2 DEF Commands
  <2> QED  BY <1>1, <2>1, <2>5 DEF UnusedInv, Unused, UnusedOK
<1>5. CASE ServerCrash
  <2>1. UNCHANGED <<order, before, target, total, cpc, cmd>> /\ spc' = "closed"
    BY <1>5 DEF ServerCrash, fixedVars, fileVars
  <2> QED  BY <1>1, <2>1 DEF UnusedInv, Unused, UnusedOK
<1>6. CASE SourceChanges \/ DirectoryChanges
  <2>1. UNCHANGED <<order, before, target, total, cpc, spc, cmd, c2s>>
    BY <1>6 DEF SourceChanges, DirectoryChanges, fixedVars, fileVars
  <2> QED  BY <1>1, <2>1 DEF UnusedInv, Unused, UnusedOK, Commands, Fresh, Token
<1> QED  BY <1>2, <1>3, <1>4, <1>5, <1>6 DEF Next
-----------------------------------------------------------------------------
(***************************************************************************)
(* What a download has under way: the records of the list the client has    *)
(* not read yet (the number of names, the names, the size), then data.      *)
(***************************************************************************)
ListKind(i, count) == IF i = 1 THEN "count" ELSE IF i <= count + 1 THEN "entry" ELSE "size"

\* r is the i-th record of the list.
IsListed(r, i, count, size) ==
    /\ r.kind = ListKind(i, count)
    /\ r.kind = "count" => r.n = count
    /\ r.kind = "size" => r.n = size

\* The first h records of q are those of the list behind the first taken ones.
Listing(q, h, taken, count, size) ==
    /\ h \in 0..Len(q)
    /\ \A i \in 1..h : IsListed(q[i], taken + i, count, size)
    /\ \A i \in h + 1 .. Len(q) : q[i].kind = "data"

LEMMA ListingTaken ==
    ASSUME NEW content \in Seq(Bytes), NEW q \in Seq(Records), q # << >>,
           NEW h \in Nat, h >= 1, NEW taken \in Nat, NEW count \in Nat, NEW size,
           Listing(q, h, taken, count, size),
           NEW from, NEW to, Pieces(content, q, h, from, to)
    PROVE  /\ IsListed(Head(q), taken + 1, count, size)
           /\ Listing(Tail(q), h - 1, taken + 1, count, size)
           /\ Pieces(content, Tail(q), h - 1, from, to)
<1>1. /\ Len(q) \in Nat /\ Len(Tail(q)) = Len(q) - 1 /\ Head(q) = q[1] /\ h <= Len(q)
      /\ \A i \in 1..Len(q) - 1 : Tail(q)[i] = q[i + 1]
  BY TailFacts DEF Listing
<1>2. IsListed(q[1], taken + 1, count, size)
  BY DEF Listing
<1>3. ASSUME NEW i \in 1..h - 1
      PROVE  IsListed(Tail(q)[i], taken + 1 + i, count, size)
  <2>1. i + 1 \in 1..h /\ taken + 1 + i = taken + (i + 1) /\ Tail(q)[i] = q[i + 1]
    BY <1>1
  <2> QED  BY <2>1 DEF Listing
<1>4. ASSUME NEW i \in h - 1 + 1 .. Len(q) - 1
      PROVE  Tail(q)[i].kind = "data"
  <2>1. i \in 1..Len(q) - 1 /\ i + 1 \in h + 1 .. Len(q)
    BY <1>1
  <2> QED  BY <1>1, <2>1 DEF Listing
<1>5. h - 1 \in 0..Len(q) - 1 /\ h \in 1..Len(q)
  BY <1>1
<1>6. Listing(Tail(q), h - 1, taken + 1, count, size)
  BY <1>1, <1>3, <1>4, <1>5 DEF Listing
<1> QED  BY <1>1, <1>2, <1>5, <1>6, PiecesMoveUp

\* Behind the list comes data only.
LEMMA DataTaken ==
    ASSUME NEW q \in Seq(Records), q # << >>, NEW taken, NEW count, NEW size,
           Listing(q, 0, taken, count, size)
    PROVE  Head(q).kind = "data" /\ Listing(Tail(q), 0, taken, count, size)
<1>1. /\ Len(q) \in Nat /\ Len(q) >= 1 /\ Len(Tail(q)) = Len(q) - 1 /\ Head(q) = q[1]
      /\ \A i \in 1..Len(q) - 1 : Tail(q)[i] = q[i + 1]
  BY TailFacts
<1>2. \A i \in 1..Len(q) : q[i].kind = "data"
  BY DEF Listing
<1>3. \A i \in 0 + 1 .. Len(Tail(q)) : Tail(q)[i].kind = "data"
  BY <1>1, <1>2
<1>4. 0 \in 0..Len(Tail(q)) /\ \A i \in 1..0 : FALSE
  BY <1>1
<1> QED  BY <1>1, <1>2, <1>3, <1>4 DEF Listing

\* More of the list is sent.
LEMMA ListingSent ==
    ASSUME NEW q \in Seq(Records), NEW r \in Seq(Records),
           NEW taken \in Nat, NEW count \in Nat, NEW size,
           Listing(q, Len(q), taken, count, size),
           \A i \in 1..Len(r) : IsListed(r[i], taken + (Len(q) + i), count, size)
    PROVE  /\ q \o r \in Seq(Records) /\ Len(q \o r) = Len(q) + Len(r)
           /\ Listing(q \o r, Len(q) + Len(r), taken, count, size)
<1> DEFINE s == q \o r
           k == Len(q)
           l == Len(r)
<1>1. k \in Nat /\ l \in Nat /\ k + l \in Nat
  BY LenProperties
<1>2. /\ s \in Seq(Records) /\ Len(s) = k + l
      /\ \A i \in 1..k + l : s[i] = IF i <= k THEN q[i] ELSE r[i - k]
  BY ConcatProperties
<1>3. /\ \A i \in 1..k : IsListed(q[i], taken + i, count, size)
      /\ \A i \in 1..l : IsListed(r[i], taken + (k + i), count, size)
  BY DEF Listing
<1> HIDE DEF s, k, l
<1>4. ASSUME NEW i \in 1..k + l
      PROVE  IsListed(s[i], taken + i, count, size)
  <2>1. CASE i <= k
    <3>1. i \in 1..k /\ s[i] = q[i]
      BY <1>1, <1>2, <2>1
    <3> QED  BY <1>3, <3>1
  <2>2. CASE i > k
    <3>1. i - k \in 1..l /\ k + (i - k) = i /\ s[i] = r[i - k]
      BY <1>1, <1>2, <2>2
    <3> QED  BY <1>3, <3>1
  <2> QED  BY <1>1, <2>1, <2>2
<1>5. k + l \in 0..Len(s) /\ \A i \in k + l + 1 .. Len(s) : FALSE
  BY <1>1, <1>2
<1>6. Listing(s, k + l, taken, count, size)
  BY <1>4, <1>5 DEF Listing
<1> QED  BY <1>2, <1>6 DEF s, k, l

LEMMA DataSent ==
    ASSUME NEW q \in Seq(Records), NEW r \in Records, r.kind = "data",
           NEW h \in Nat, NEW taken, NEW count, NEW size, Listing(q, h, taken, count, size)
    PROVE  Listing(q \o <<r>>, h, taken, count, size)
<1> DEFINE s == q \o <<r>>
           k == Len(q)
<1>1. k \in Nat /\ h <= k
  BY LenProperties DEF Listing
<1>2. Len(s) = k + 1 /\ s[k + 1] = r /\ \A i \in 1..k : s[i] = q[i]
  BY AppendProperties, AppendIsConcat
<1>3. /\ \A i \in 1..h : IsListed(q[i], taken + i, count, size)
      /\ \A i \in h + 1 .. k : q[i].kind = "data"
  BY DEF Listing
<1> HIDE DEF s, k
<1>4. h \in 0..Len(s) /\ \A i \in 1..h : i \in 1..k
  BY <1>1, <1>2
<1>5. \A i \in h + 1 .. Len(s) : i = k + 1 \/ (i \in 1..k /\ i \in h + 1 .. k)
  BY <1>1, <1>2
<1> QED  BY <1>2, <1>3, <1>4, <1>5 DEF Listing, s


-----------------------------------------------------------------------------
(***************************************************************************)
(* A download of a file that stays as it is from a directory that stays as  *)
(* it is.  Until the client is through, the file it stores and the records   *)
(* under way together are what the server has read, or a front of it when    *)
(* the server died.                                                         *)
(***************************************************************************)
\* The records of the list the server has sent, and the client has read.
Listed == CASE spc \in {"idle", "command", "list"} -> 0
            [] spc = "names"                      -> 1
            [] spc = "pick"                       -> entries + 1
            [] OTHER                              -> entries + 2
Read == CASE cpc \in {"idle", "download", "count"} -> 0
          [] cpc = "entries"                      -> entries + 1 - left
          [] cpc = "size"                         -> entries + 1
          [] OTHER                                -> entries + 2

Size == Len(before.source) % Modulus

Asking == cpc \in {"count", "entries"} /\ spc \in {"idle", "command"}
Picking == cpc = "size" /\ spc \in {"names", "pick"}

\* While both run: the request under way, and how far each can be without the other.
Choosing ==
    /\ c2s = IF Asking THEN <<Record("D", 0)>> ELSE IF Picking THEN <<Record("name", 0)>> ELSE << >>
    /\ cpc \in {"idle", "download"} => spc \in {"idle", "command"}
    /\ cpc \in {"count", "entries"} => spc # "send"
    /\ cpc = "size" => spc \in {"names", "pick", "send"}
    /\ cpc = "data" => spc = "send"

\* h records of the list, then data up to the offset to: all that the server has
\* sent, or a front of it when it died.
Listened(h, to) ==
    /\ Listing(s2c, h, Read, entries, Size)
    /\ Pieces(before.source, s2c, h, total, to)
    /\ Read + h < entries + 2 => to = 0 /\ Len(s2c) = h
    /\ (spc # "closed" \/ Undisturbed("download")) => Read + h = Listed /\ to = position

Streaming ==
    \E h \in 0..entries + 2 - Read, to \in 0..Len(before.source) : Listened(h, to)

Coming ==
    /\ Streaming
    /\ Listed < entries + 2 => position = 0
    /\ Read < entries + 2 => total = 0
    /\ cpc = "entries" => left <= entries
    /\ Undisturbed("download") =>
         /\ cpc = "data" => expected = Len(before.source)
         /\ spc = "closed" => position = Len(before.source)

DownloadOK ==
    /\ cpc \in {"idle", "download", "count", "entries", "size", "data", "closed"}
    /\ spc \in {"idle", "command", "list", "names", "pick", "send", "closed"}
    /\ position <= Len(before.source) /\ total <= Len(before.source)
    /\ Laid
    /\ \A i \in 1..Len(c2s) : c2s[i].kind # "U"
    /\ (cpc # "closed" /\ spc # "closed") => Choosing
    /\ IF cpc = "closed" THEN Undisturbed("download") => total = Len(before.source) ELSE Coming

DownloadInv == TypeInv /\ Histories /\ (Downloading => DownloadOK)

LEMMA InitDownload == Init => DownloadInv
<1> SUFFICES ASSUME Init PROVE DownloadInv
  OBVIOUS
<1>1. TypeInv /\ Histories
  BY InitType, TransferAssumption DEF Init, Histories
<1>2. DownloadOK
  <2>1. Len(before.source) \in Nat /\ Len(before.target) \in Nat
    BY <1>1, LenProperties DEF Histories
  <2>2. Laid
    BY <2>1 DEF Init, Laid
  <2>3. /\ Listed = 0 /\ Read = 0 /\ c2s = << >> /\ Len(c2s) = 0
        /\ s2c = << >> /\ Len(s2c) = 0 /\ s2c \in Seq(Records) /\ entries \in Nat
    BY EmptySeq, TransferAssumption DEF Init, Listed, Read
  <2>4. Listing(s2c, 0, 0, entries, Size)
    BY <2>3 DEF Listing
  <2>5. 0 \in 0..Len(before.source) /\ before.source \in Seq(Bytes) /\ 0 \in Nat
    BY <1>1, <2>1 DEF Histories
  <2>6. Pieces(before.source, s2c, 0, 0, 0)
    <3>1. \A at \in 0..Len(before.source) : Pieces(before.source, s2c, 0, at, at)
      BY <2>3, <2>5, NoPieces
    <3> QED  BY <2>5, <3>1
  <2>7. Listened(0, 0)
    BY <2>3, <2>4, <2>6 DEF Listened, Init
  <2>8. Coming
    <3>1. 0 \in 0..entries + 2 - Read
      BY <2>3
    <3>2. Streaming
      BY <2>5, <2>7, <3>1 DEF Streaming
    <3> QED  BY <2>3, <3>2 DEF Coming, Init
  <2>9. Choosing
    BY DEF Init, Choosing, Asking, Picking
  <2> QED  BY <2>1, <2>2, <2>3, <2>8, <2>9 DEF Init, DownloadOK
<1> QED  BY <1>1, <1>2 DEF DownloadInv

\* What holds of the content in every step below.
LEMMA DownloadFacts ==
    ASSUME DownloadInv, Downloading
    PROVE  /\ DownloadOK /\ TypeInv /\ Laid /\ source = before.source
           /\ before.source \in Seq(Bytes) /\ before.target \in Seq(Bytes)
           /\ Len(before.source) \in Nat /\ Size \in Nat
           /\ s2c \in Seq(Records) /\ Len(s2c) \in Nat
           /\ c2s \in Seq(Records) /\ Len(c2s) \in Nat
           /\ position \in 0..Len(before.source) /\ total \in 0..Len(before.source)
           /\ entries \in Nat /\ left \in Nat
           /\ order.mode = "download"
           /\ Listed \in Nat /\ Listed <= entries + 2
           /\ (cpc # "closed" /\ spc # "closed") => Choosing
           /\ cpc # "closed" => Coming /\ Read \in Nat /\ Read <= entries + 2
<1>1. before.source \in Seq(Bytes) /\ before.target \in Seq(Bytes)
  BY DEF DownloadInv, Histories
<1>2. Len(before.source) \in Nat /\ Size \in Nat
  BY <1>1, LenProperties, Remainder DEF Size
<1>3. /\ s2c \in Seq(Records) /\ Len(s2c) \in Nat /\ c2s \in Seq(Records) /\ Len(c2s) \in Nat
      /\ entries \in Nat /\ left \in Nat
  BY LenProperties DEF DownloadInv, TypeInv, TypeOK
<1>4. position \in 0..Len(before.source) /\ total \in 0..Len(before.source)
  BY <1>2 DEF DownloadInv, DownloadOK, TypeInv, TypeOK
<1>5. ASSUME cpc # "closed" PROVE Coming /\ Read \in Nat /\ Read <= entries + 2
  BY <1>3, <1>5 DEF DownloadInv, DownloadOK, Coming, Read
<1>6. Listed \in Nat /\ Listed <= entries + 2
  BY <1>3 DEF Listed
<1> QED  BY <1>1, <1>2, <1>3, <1>4, <1>5, <1>6 DEF DownloadInv, DownloadOK, Downloading

\* Nothing is missing of an undisturbed list.
LEMMA ListComes ==
    ASSUME DownloadInv, Downloading, cpc \in {"count", "entries", "size"}, ClientAtEnd
    PROVE  ~Undisturbed("download")
<1> USE DownloadFacts
<1> SUFFICES ASSUME Undisturbed("download") PROVE FALSE
  OBVIOUS
<1>1. Coming /\ Read <= entries + 1 /\ Listed = entries + 2 /\ Len(s2c) = 0
  BY EmptySeq DEF ClientAtEnd, Read, Listed
<1>2. PICK h \in 0..entries + 2 - Read, to \in 0..Len(before.source) : Listened(h, to)
  BY <1>1 DEF Coming, Streaming
<1>3. Read + h = Listed /\ h \in 0..Len(s2c)
  BY <1>2 DEF Listened, Listing
<1> QED  BY <1>1, <1>3

\* A record that arrives before the data is the next one of the list.
LEMMA ListReady ==
    ASSUME DownloadInv, Downloading, cpc \in {"count", "entries", "size"}, s2c # << >>,
           NEW h \in 0..entries + 2 - Read, NEW to \in 0..Len(before.source), Listened(h, to)
    PROVE  /\ h >= 1
           /\ IsListed(Head(s2c), Read + 1, entries, Size)
           /\ Listing(Tail(s2c), h - 1, Read + 1, entries, Size)
           /\ Pieces(before.source, Tail(s2c), h - 1, total, to)
           /\ Read + h < entries + 2 => Len(Tail(s2c)) = h - 1
<1> USE DownloadFacts
<1>1. Coming /\ Read <= entries + 1 /\ Read \in Nat
  BY SMTT(30) DEF Read
<1>2. Len(s2c) >= 1 /\ Len(Tail(s2c)) = Len(s2c) - 1
  BY TailFacts
<1>3. h >= 1 /\ h \in Nat
  <2>1. h \in Nat
    OBVIOUS
  <2>2. Read + h < entries + 2 => Len(s2c) = h
    BY DEF Listened
  <2>3. h # 0
    <3>1. ASSUME h = 0 PROVE FALSE
      BY <1>1, <1>2, <2>2, <3>1
    <3> QED  BY <3>1
  <2> QED  BY <2>1, <2>3
<1>4. Listing(s2c, h, Read, entries, Size) /\ Pieces(before.source, s2c, h, total, to)
  BY DEF Listened
<1>5. /\ IsListed(Head(s2c), Read + 1, entries, Size)
      /\ Listing(Tail(s2c), h - 1, Read + 1, entries, Size)
      /\ Pieces(before.source, Tail(s2c), h - 1, total, to)
  BY <1>1, <1>3, <1>4, ListingTaken
<1> QED  BY <1>2, <1>3, <1>5 DEF Listened

\* The count of what is still to come, when one more record is read.
LEMMA OneListed ==
    ASSUME NEW n \in Nat, NEW read \in Nat, NEW h \in 0..n + 2 - read, h >= 1
    PROVE  h - 1 \in 0..n + 2 - (read + 1) /\ read + 1 + (h - 1) = read + h
OBVIOUS

LEMMA ListStep ==
    ASSUME DownloadInv, Downloading, cpc \in {"count", "entries", "size"}, ClientReads,
           Read' = Read + 1,
           UNCHANGED <<order, before, disturbed, total, position, entries, spc>>,
           Undisturbed("download") /\ cpc' = "data" => expected' = Len(before.source),
           cpc' = "entries" => left' <= entries
    PROVE  Coming'
<1> USE DownloadFacts
<1>1. /\ Coming /\ Listed' = Listed /\ Size' = Size /\ Read \in Nat
      /\ (Undisturbed("download")' <=> Undisturbed("download"))
  BY DEF Read, Listed, Size, Undisturbed
<1>2. s2c # << >> /\ s2c' = Tail(s2c)
  BY DEF ClientReads
<1>3. PICK h \in 0..entries + 2 - Read, to \in 0..Len(before.source) : Listened(h, to)
  BY <1>1 DEF Coming, Streaming
<1>4. /\ h >= 1
      /\ Listing(Tail(s2c), h - 1, Read + 1, entries, Size)
      /\ Pieces(before.source, Tail(s2c), h - 1, total, to)
      /\ Read + h < entries + 2 => Len(Tail(s2c)) = h - 1
  BY <1>2, <1>3, ListReady
<1>5. h - 1 \in 0..entries + 2 - (Read + 1) /\ Read + 1 + (h - 1) = Read + h
  <2>1. PICK n \in Nat, read \in Nat : n = entries /\ read = Read
    BY <1>1
  <2>2. h \in 0..n + 2 - read /\ h >= 1
    BY <1>4, <2>1
  <2>3. h - 1 \in 0..n + 2 - (read + 1) /\ read + 1 + (h - 1) = read + h
    BY <2>2, OneListed
  <2> QED  BY <2>1, <2>3
<1>6. Listened(h - 1, to)'
  BY <1>1, <1>2, <1>3, <1>4, <1>5 DEF Listened
<1>7. Streaming'
  <2>1. h - 1 \in 0..entries' + 2 - Read' /\ to \in 0..Len(before'.source)
    BY <1>5
  <2> QED  BY <1>6, <2>1 DEF Streaming
<1>8. Read' < entries' + 2 => total' = 0
  <2>1. Read + 1 < entries + 2 => total = 0
    BY <1>1 DEF Coming
  <2> QED  BY <2>1
<1> QED  BY <1>1, <1>7, <1>8 DEF Coming

\* The stream ends within the list.
LEMMA ListEnd ==
    ASSUME DownloadInv, Downloading, cpc \in {"count", "entries", "size"}, ClientAtEnd,
           Read' \in Nat, Read' <= entries + 2,
           UNCHANGED <<order, before, disturbed, total, position, entries, spc>>,
           cpc' = "entries" => left' <= entries
    PROVE  Coming'
<1> USE DownloadFacts
<1>1. /\ Coming /\ Read < entries + 2 /\ total = 0 /\ spc' = "closed" /\ Listed' = entries + 2
      /\ ~Undisturbed("download")' /\ entries' = entries /\ before' = before
      /\ total' = 0 /\ position' = position
  <2>1. Coming /\ Read < entries + 2 /\ spc = "closed"
    BY DEF Read, ClientAtEnd
  <2>2. total = 0
    BY <2>1 DEF Coming
  <2>3. ~Undisturbed("download")'
    BY ListComes DEF Undisturbed
  <2>4. spc' = "closed" /\ Listed' = entries + 2
    BY <2>1 DEF Listed
  <2> QED  BY <2>1, <2>2, <2>3, <2>4
<1>2. s2c' = << >> /\ s2c' \in Seq(Records) /\ Len(s2c') = 0 /\ 0 \in 0..Len(before.source)
  BY EmptySeq DEF ClientAtEnd
<1>3. Listing(s2c', 0, Read', entries', Size')
  BY <1>2 DEF Listing
<1>4. Pieces(before.source, s2c', 0, 0, 0)
  <2>1. \A at \in 0..Len(before.source) : Pieces(before.source, s2c', 0, at, at)
    BY <1>2, NoPieces
  <2> QED  BY <1>2, <2>1
<1>5. Listened(0, 0)'
  BY <1>1, <1>2, <1>3, <1>4 DEF Listened
<1>6. 0 \in 0..entries' + 2 - Read' /\ 0 \in 0..Len(before'.source)
  <2>1. PICK read \in Nat : Read' = read /\ read <= entries + 2
    OBVIOUS
  <2>2. 0 \in 0..entries + 2 - read
    BY <2>1
  <2> QED  BY <1>1, <1>2, <2>1, <2>2
<1>7. Streaming'
  BY <1>5, <1>6 DEF Streaming
<1> QED  BY <1>1, <1>7 DEF Coming

\* Steps that leave the files, the connection and both ends alone.
LEMMA DownloadStutter ==
    ASSUME DownloadOK,
           UNCHANGED <<order, before, disturbed, target, position, total, expected, entries, left,
                       cpc, spc, c2s, s2c>>
    PROVE  DownloadOK'
BY DEF DownloadOK, Laid, Coming, Streaming, Listened, Size, Choosing, Asking, Picking, Listed, Read,
       Undisturbed

\* Every request and every record read leaves the rest of the list as it was sent;
\* then the data is written until it is complete.
LEMMA ClientDownload ==
    ASSUME DownloadInv, Downloading, Client
    PROVE  DownloadOK'
<1> USE DownloadFacts
<1> USE DEF ClientGoes, fileVars, fixedVars
<1>1. /\ UNCHANGED <<order, before, disturbed, entries, position, spc>>
      /\ Listed' = Listed /\ Size' = Size /\ cpc # "closed"
      /\ cpc \in {"idle", "download", "count", "entries", "size", "data"}
      /\ spc \in {"idle", "command", "list", "names", "pick", "send", "closed"}
      /\ LinkS \/ SendDownload \/ ReadCount \/ ReadEntry \/ PickName \/ ReadFileSize \/ ReceiveData
         \/ ReceiveEnd
      /\ (Undisturbed("download")' <=> Undisturbed("download"))
  <2>1. /\ cpc \in {"idle", "download", "count", "entries", "size", "data", "closed"}
        /\ spc \in {"idle", "command", "list", "names", "pick", "send", "closed"}
    BY DEF DownloadOK
  <2>2. /\ LinkS \/ SendDownload \/ ReadCount \/ ReadEntry \/ PickName \/ ReadFileSize \/ ReceiveData
           \/ ReceiveEnd
        /\ cpc # "closed"
    BY <2>1 DEF Client, LinkS, SendHeader, StatFile, SendChunk, CloseFile, BrokenPipe, SendDownload,
         ReadCount, ReadEntry, PickName, ReadFileSize, ReceiveData, ReceiveEnd, Quit
  <2>3. UNCHANGED <<order, before, disturbed, entries, position, spc>>
    BY <2>2 DEF LinkS, SendDownload, ReadCount, ReadEntry, PickName, ReadFileSize, ReceiveData,
         ReceiveEnd, Expect, Receive, listVars
  <2> QED  BY <2>1, <2>2, <2>3 DEF Listed, Size, Undisturbed
<1>2. \A i \in 1..Len(c2s') : c2s'[i].kind # "U"
  <2>1. \A i \in 1..Len(c2s) : c2s[i].kind # "U"
    BY DEF DownloadOK
  <2>2. c2s' = c2s \/ \E r \in {Record("D", 0), Record("name", 0)} : c2s' = c2s \o <<r>>
    BY <1>1 DEF LinkS, SendDownload, ReadCount, ReadEntry, PickName, ReadFileSize, ReceiveData,
         ReceiveEnd, ClientSends
  <2>3. ASSUME NEW r \in {Record("D", 0), Record("name", 0)}, c2s' = c2s \o <<r>>
        PROVE  \A i \in 1..Len(c2s') : c2s'[i].kind # "U"
    <3>1. r \in Records /\ r.kind # "U"
      BY RecordTypes DEF Record
    <3>2. /\ Len(c2s \o <<r>>) = Len(c2s) + 1 /\ (c2s \o <<r>>)[Len(c2s) + 1] = r
          /\ \A i \in 1..Len(c2s) : (c2s \o <<r>>)[i] = c2s[i]
      BY <3>1, AppendProperties, AppendIsConcat
    <3>3. \A i \in 1..Len(c2s) + 1 : i \in 1..Len(c2s) \/ i = Len(c2s) + 1
      OBVIOUS
    <3> QED  BY <2>1, <2>3, <3>1, <3>2, <3>3
  <2> QED  BY <2>1, <2>2, <2>3
<1>3. CASE LinkS \/ SendDownload
  <2>1. /\ UNCHANGED <<target, total, expected, left, s2c>>
        /\ \/ cpc = "idle" /\ cpc' = "download" /\ c2s' = c2s
           \/ cpc = "download" /\ cpc' = "count" /\ ClientSends(<<Record("D", 0)>>)
    BY <1>3 DEF LinkS, SendDownload, listVars
  <2>2. Coming /\ Read' = Read
    BY <2>1 DEF Read
  <2>3. Coming' /\ Laid'
    BY <1>1, <2>1, <2>2 DEF Coming, Streaming, Listened, Laid
  <2>4. ASSUME spc # "closed" PROVE Choosing'
    <3>1. spc \in {"idle", "command"} /\ c2s = << >>
      BY <1>1, <2>1, <2>4 DEF Choosing, Asking, Picking
    <3>2. cpc' = "count" => c2s' = <<Record("D", 0)>>
      <4>1. << >> \o <<Record("D", 0)>> = <<Record("D", 0)>>
        OBVIOUS
      <4> QED  BY <2>1, <2>4, <3>1, <4>1 DEF ClientSends
    <3> QED  BY <1>1, <2>1, <3>1, <3>2 DEF Choosing, Asking, Picking
  <2> QED  BY <1>1, <1>2, <2>1, <2>3, <2>4 DEF DownloadOK
<1>4. CASE ReadCount
  <2>1. /\ cpc = "count" /\ cpc' = "entries" /\ UNCHANGED <<target, total, expected, c2s>>
        /\ Read = 0
    BY <1>4 DEF ReadCount, Read
  <2>2. ASSUME ClientReads PROVE Coming'
    <3>1. s2c # << >> /\ left' = Head(s2c).n
      BY <1>4, <2>2 DEF ReadCount, ClientReads, ClientAtEnd
    <3>2. PICK h \in 0..entries + 2 - Read, to \in 0..Len(before.source) : Listened(h, to)
      BY <1>1 DEF Coming, Streaming
    <3>3. IsListed(Head(s2c), 1, entries, Size)
      BY <2>1, <3>1, <3>2, ListReady
    <3>4. left' = entries
      BY <3>1, <3>3 DEF IsListed, ListKind
    <3>5. Read' = 1
      BY <1>1, <2>1, <3>4 DEF Read
    <3> QED  BY <1>1, <2>1, <2>2, <3>4, <3>5, ListStep
  <2>3. ASSUME ClientAtEnd PROVE Coming'
    <3>1. left' = 0
      BY <1>4, <2>3 DEF ReadCount, ClientReads, ClientAtEnd
    <3>2. Read' = entries + 1
      BY <1>1, <2>1, <3>1 DEF Read
    <3> QED  BY <1>1, <2>1, <2>3, <3>1, <3>2, ListEnd
  <2>4. Coming'
    BY <1>4, <2>2, <2>3 DEF ReadCount
  <2>5. spc # "closed" => Choosing'
    BY <1>1, <2>1 DEF Choosing, Asking, Picking
  <2> QED  BY <1>1, <1>2, <2>1, <2>4, <2>5 DEF DownloadOK, Laid
<1>5. CASE ReadEntry
  <2>1. /\ cpc = "entries" /\ cpc' = cpc /\ UNCHANGED <<target, total, expected, c2s>>
        /\ left > 0 /\ left' = left - 1 /\ left <= entries /\ Read' = Read + 1
    <3>1. /\ cpc = "entries" /\ cpc' = cpc /\ UNCHANGED <<target, total, expected, c2s>>
          /\ left > 0 /\ left' = left - 1 /\ entries' = entries
      BY <1>1, <1>5 DEF ReadEntry
    <3>2. left <= entries
      BY <3>1 DEF Coming
    <3>3. Read = entries + 1 - left /\ Read' = entries + 1 - left'
      BY <3>1 DEF Read
    <3>4. entries + 1 - (left - 1) = entries + 1 - left + 1
      OBVIOUS
    <3> QED  BY <3>1, <3>2, <3>3, <3>4
  <2>2. ASSUME ClientReads PROVE Coming'
    <3>1. left' <= entries
      BY <2>1
    <3> QED  BY <1>1, <2>1, <2>2, <3>1, ListStep
  <2>3. ASSUME ClientAtEnd PROVE Coming'
    <3>1. PICK n \in Nat, l \in Nat : n = entries /\ l = left /\ 0 < l /\ l <= n
      BY <2>1
    <3>2. Read' = n + 1 - (l - 1) /\ left' = l - 1
      BY <1>1, <2>1, <3>1 DEF Read
    <3>3. n + 1 - (l - 1) \in Nat /\ n + 1 - (l - 1) <= n + 2 /\ l - 1 <= n
      BY <3>1
    <3>4. Read' \in Nat /\ Read' <= entries + 2 /\ left' <= entries
      BY <3>1, <3>2, <3>3
    <3> QED  BY <1>1, <2>1, <2>3, <3>4, ListEnd
  <2>4. Coming'
    BY <1>5, <2>2, <2>3 DEF ReadEntry
  <2>5. spc # "closed" => Choosing'
    BY <1>1, <2>1 DEF Choosing, Asking, Picking
  <2> QED  BY <1>1, <1>2, <2>1, <2>4, <2>5 DEF DownloadOK, Laid
<1>6. CASE PickName
  <2>1. /\ cpc = "entries" /\ cpc' = "size" /\ left = 0
        /\ UNCHANGED <<target, total, expected, left, s2c>> /\ ClientSends(<<Record("name", 0)>>)
    BY <1>6 DEF PickName, listVars
  <2>2. Coming /\ Read = entries + 1 /\ Read' = Read
    BY <1>1, <2>1 DEF Read
  <2>3. Coming'
    BY <1>1, <2>1, <2>2 DEF Coming, Streaming, Listened
  <2>4. ASSUME spc # "closed" PROVE Choosing'
    <3>1. spc \in {"names", "pick"} /\ c2s = << >>
      <4>1. PICK h \in 0..entries + 2 - Read, to \in 0..Len(before.source) : Listened(h, to)
        BY <2>2 DEF Coming, Streaming
      <4>2. Read + h = Listed /\ h \in Nat
        BY <2>4, <4>1 DEF Listened
      <4>3. Listed >= 1
        <5>1. PICK n \in Nat : n = entries
          OBVIOUS
        <5>2. n + 1 + h >= 1
          BY <4>2
        <5> QED  BY <2>2, <4>2, <5>1, <5>2
      <4>4. spc \notin {"idle", "command", "list", "send", "closed"}
        BY <1>1, <2>1, <2>4, <4>3, SMTT(30) DEF Listed, Choosing
      <4> QED  BY <1>1, <2>1, <4>4 DEF Choosing, Asking, Picking
    <3>2. c2s' = <<Record("name", 0)>>
      <4>1. << >> \o <<Record("name", 0)>> = <<Record("name", 0)>>
        OBVIOUS
      <4> QED  BY <2>1, <3>1, <4>1 DEF ClientSends
    <3> QED  BY <1>1, <2>1, <3>1, <3>2 DEF Choosing, Asking, Picking
  <2> QED  BY <1>1, <1>2, <2>1, <2>3, <2>4 DEF DownloadOK, Laid
<1>7. CASE ReadFileSize
  <2>1. /\ cpc = "size" /\ cpc' = "data" /\ UNCHANGED <<target, total, left, c2s>>
        /\ Read = entries + 1 /\ Read' = entries + 2
    BY <1>1, <1>7 DEF ReadFileSize, Expect, listVars, Read
  <2>2. PICK h \in 0..entries + 2 - Read, to \in 0..Len(before.source) : Listened(h, to)
    BY <1>1 DEF Coming, Streaming
  <2>3. ASSUME s2c # << >> PROVE Coming'
    <3>1. h >= 1 /\ IsListed(Head(s2c), Read + 1, entries, Size)
      BY <2>1, <2>2, <2>3, ListReady
    <3>2. Head(s2c).kind = "size" /\ Head(s2c).n = Size
      <4>1. ListKind(Read + 1, entries) = "size"
        <5>1. Read + 1 = entries + 2
          BY <2>1
        <5>2. ListKind(entries + 2, entries) = "size"
          BY DEF ListKind
        <5> QED  BY <5>1, <5>2
      <4> QED  BY <3>1, <4>1 DEF IsListed
    <3>3. ClientReads /\ expected' = Size
      BY <1>7, <2>3, <3>2 DEF ReadFileSize, Expect, ClientReads, ClientAtEnd
    <3>4. Undisturbed("download") => expected' = Len(before.source)
      BY <3>3, Remainder DEF Undisturbed, Size
    <3> QED  BY <1>1, <2>1, <3>3, <3>4, ListStep, SMTT(30)
  <2>4. ASSUME s2c = << >> PROVE Coming'
    <3>1. ClientAtEnd
      BY <1>7, <2>4 DEF ReadFileSize, ClientReads
    <3>2. PICK read \in Nat : Read' = read /\ read = entries + 2
      <4>1. entries + 2 \in Nat
        OBVIOUS
      <4> QED  BY <2>1, <4>1
    <3> QED  BY <1>1, <2>1, <3>1, <3>2, ListEnd
  <2>5. Coming'
    BY <2>3, <2>4
  <2>6. ASSUME spc # "closed" PROVE Choosing'
    <3>1. spc = "send"
      <4>1. Read + h = Listed
        BY <2>2, <2>6 DEF Listened
      <4>2. h >= 1
        <5>1. s2c # << >>
          BY <1>7, <2>6 DEF ReadFileSize, ClientReads, ClientAtEnd
        <5> QED  BY <2>1, <2>2, <5>1, ListReady
      <4>3. Listed = entries + 2
        <5>1. PICK n \in Nat : n = entries /\ Read = n + 1
          BY <2>1
        <5>2. h \in 0..n + 2 - (n + 1)
          BY <5>1
        <5>3. h = 1
          BY <4>2, <5>2
        <5> QED  BY <4>1, <5>1, <5>3
      <4> QED  BY <1>1, <2>6, <4>3 DEF Listed
    <3> QED  BY <1>1, <2>1, <3>1 DEF Choosing, Asking, Picking
  <2> QED  BY <1>1, <1>2, <2>1, <2>5, <2>6 DEF DownloadOK, Laid
<1>8. CASE ReceiveData
  <2>1. /\ cpc = "data" /\ s2c # << >> /\ s2c' = Tail(s2c) /\ Receive(FileBytes(Head(s2c)))
        /\ cpc' = IF Complete(total') THEN "closed" ELSE "data"
        /\ UNCHANGED <<expected, left, c2s>>
    BY <1>8 DEF ReceiveData, ClientReads, Receive, listVars
  <2>2. /\ Coming /\ Read = entries + 2 /\ spc \in {"send", "closed"} /\ Listed = entries + 2
        /\ Undisturbed("download") => expected = Len(before.source)
    BY <1>1, <2>1 DEF Read, Listed, Choosing, Coming
  <2>3. PICK h \in 0..entries + 2 - Read, to \in 0..Len(before.source) : Listened(h, to)
    BY <2>2 DEF Coming, Streaming
  <2>4. /\ h = 0 /\ Listing(s2c, 0, Read, entries, Size)
        /\ Pieces(before.source, s2c, 0, total, to)
        /\ (spc # "closed" \/ Undisturbed("download")) => to = position
    <3>1. h = 0
      BY <2>2, SMTT(30)
    <3> QED  BY <2>3, <3>1 DEF Listened
  <2>5. /\ FileBytes(Head(s2c)) = Head(s2c).data
        /\ Listing(Tail(s2c), 0, Read, entries, Size)
    BY <2>1, <2>4, DataTaken DEF FileBytes
  <2>6. PICK m \in 0..Len(before.source) :
          /\ total \in 0..m
          /\ Head(s2c).data = SubSeq(before.source, total + 1, m)
          /\ Pieces(before.source, Tail(s2c), 0, m, to)
    BY <2>1, <2>4, PieceTaken
  <2>7. Laid' /\ total' = m /\ m \in Nat
    <3>1. Receive(SubSeq(before.source, total + 1, m))
      BY <2>1, <2>5, <2>6, Zenon
    <3>2. total <= m /\ m \in Nat
      BY <2>6
    <3>3. /\ TypeInv /\ Laid /\ before.source \in Seq(Bytes) /\ before.target \in Seq(Bytes)
          /\ UNCHANGED before
      BY <1>1
    <3>4. Laid' /\ total' = m
      <4> HIDE DEF fixedVars, fileVars
      <4> QED  BY <3>1, <3>2, <3>3, LaidOn
    <3> QED  BY <3>2, <3>4
  <2>8. CASE Complete(total')
    <3>1. ASSUME Undisturbed("download") PROVE m = Len(before.source)
      <4>1. m \in Nat /\ m < Modulus
        BY <3>1, TransferAssumption DEF Undisturbed
      <4>2. total' % Modulus = expected
        BY <2>8 DEF Complete
      <4> QED  BY <2>2, <2>7, <3>1, <4>1, <4>2, Remainder
    <3> QED  BY <1>1, <1>2, <2>1, <2>7, <2>8, <3>1, SMTT(30) DEF DownloadOK
  <2>9. CASE ~Complete(total')
    <3>1. cpc' = "data" /\ Read' = Read
      BY <1>1, <2>1, <2>2, <2>9 DEF Read
    <3>2. Listened(0, to)'
      <4>1. /\ Listing(s2c', 0, Read', entries', Size')
            /\ Pieces(before'.source, s2c', 0, total', to)
        BY <1>1, <2>1, <2>5, <2>6, <2>7, <3>1
      <4>2. Read' + 0 = entries' + 2 /\ Listed' = entries' + 2
        BY <1>1, <2>2, <3>1
      <4>3. (spc' # "closed" \/ Undisturbed("download")') => to = position'
        BY <1>1, <2>4
      <4> QED  BY <1>1, <4>1, <4>2, <4>3 DEF Listened
    <3>3. Streaming'
      <4>1. PICK n \in Nat : n = entries /\ entries' = n /\ Read' = n + 2
        BY <1>1, <2>2, <3>1
      <4>2. 0 \in 0..entries' + 2 - Read'
        BY <4>1
      <4>3. to \in 0..Len(before'.source)
        BY <1>1
      <4> QED  BY <3>2, <4>2, <4>3 DEF Streaming
    <3>4. Coming'
      <4>1. ~(Listed' < entries' + 2) /\ ~(Read' < entries' + 2)
        BY <1>1, <2>2, <3>1
      <4>2. Undisturbed("download")' =>
              /\ expected' = Len(before'.source)
              /\ spc' = "closed" => position' = Len(before'.source)
        BY <1>1, <2>1, <2>2 DEF Coming
      <4> QED  BY <3>1, <3>3, <4>1, <4>2 DEF Coming
    <3>5. spc # "closed" => Choosing'
      BY <1>1, <2>1, <3>1 DEF Choosing, Asking, Picking
    <3> QED  BY <1>1, <1>2, <2>7, <3>1, <3>4, <3>5 DEF DownloadOK
  <2> QED  BY <2>8, <2>9
<1>9. CASE ReceiveEnd
  <2>1. /\ cpc = "data" /\ cpc' = "closed" /\ s2c = << >> /\ spc = "closed"
        /\ UNCHANGED <<target, total, c2s>>
    BY <1>9 DEF ReceiveEnd, ClientAtEnd
  <2>2. ASSUME Undisturbed("download") PROVE total = Len(before.source)
    <3>1. Coming /\ Read = entries + 2 /\ position = Len(before.source)
      BY <1>1, <2>1, <2>2 DEF Read, Coming
    <3>2. PICK h \in 0..entries + 2 - Read, to \in 0..Len(before.source) : Listened(h, to)
      BY <3>1 DEF Coming, Streaming
    <3>3. h = 0
      BY <3>1
    <3>4. Pieces(before.source, s2c, 0, total, to) /\ to = position
      BY <2>2, <3>2, <3>3 DEF Listened
    <3>5. Len(s2c) = 0 /\ 0 \in Nat
      BY <2>1, EmptySeq
    <3>6. total = to
      BY <3>4, <3>5, NoPieces
    <3> QED  BY <3>1, <3>4, <3>6
  <2> QED  BY <1>1, <1>2, <2>1, <2>2 DEF DownloadOK, Laid
<1> QED  BY <1>1, <1>3, <1>4, <1>5, <1>6, <1>7, <1>8, <1>9

LEMMA NameTypes ==
    ASSUME NEW n \in Nat
    PROVE  LET names == [i \in 1..n |-> Record("entry", 0)] IN
           names \in Seq(Records) /\ Len(names) = n /\ \A i \in 1..n : names[i] = Record("entry", 0)
<1>1. Record("entry", 0) \in Records
  BY RecordTypes
<1> QED  BY <1>1

\* What the server sends is the next part of the list, then the content chunk by
\* chunk; it closes when it has sent all of it, or finds the client gone.
LEMMA ServerDownload ==
    ASSUME DownloadInv, Downloading, Server \/ UninitialisedCommand
    PROVE  DownloadOK'
<1> USE DownloadFacts
<1> USE DEF ServerGoes, Ends, Continues, serverFrame, fixedVars, fileVars, listVars
<1>1. /\ UNCHANGED <<order, before, disturbed, target, total, expected, cpc, entries, left>>
      /\ Read' = Read /\ Size' = Size /\ Laid' /\ spc # "closed"
      /\ cpc \in {"idle", "download", "count", "entries", "size", "data", "closed"}
      /\ spc \in {"idle", "command", "list", "names", "pick", "send"}
      /\ Accept \/ ReadCommand \/ CountEntries \/ SendEntries \/ ReadPick \/ SendFile
         \/ ServerBrokenPipe \/ UninitialisedCommand
      /\ (Undisturbed("download")' <=> Undisturbed("download"))
  <2>1. /\ cpc \in {"idle", "download", "count", "entries", "size", "data", "closed"}
        /\ spc \in {"idle", "command", "list", "names", "pick", "send", "closed"}
    BY DEF DownloadOK
  <2>2. /\ Accept \/ ReadCommand \/ CountEntries \/ SendEntries \/ ReadPick \/ SendFile
           \/ ServerBrokenPipe \/ UninitialisedCommand
        /\ spc # "closed"
    BY <2>1 DEF Server, Accept, ReadCommand, ReadToken, ReadName, ReadSize, ReadData, ReadEnd,
         CountEntries, SendEntries, ReadPick, SendFile, ServerBrokenPipe, UninitialisedCommand
  <2>3. UNCHANGED <<order, before, disturbed, target, total, expected, cpc, entries, left>>
    BY <2>2 DEF Accept, ReadCommand, CountEntries, SendEntries, ReadPick, SendFile,
         ServerBrokenPipe, UninitialisedCommand
  <2> QED  BY <2>1, <2>2, <2>3 DEF Read, Size, Laid, Undisturbed
<1>2. /\ c2s' = c2s \/ (c2s # << >> /\ c2s' = Tail(c2s))
      /\ \A i \in 1..Len(c2s') : c2s'[i].kind # "U"
  <2>1. \A i \in 1..Len(c2s) : c2s[i].kind # "U"
    BY DEF DownloadOK
  <2>2. c2s' = c2s \/ (c2s # << >> /\ c2s' = Tail(c2s))
    BY <1>1 DEF Accept, ReadCommand, CountEntries, SendEntries, ReadPick, SendFile,
         ServerBrokenPipe, UninitialisedCommand, ServerReads, ServerAtEnd
  <2>3. ASSUME c2s # << >>, c2s' = Tail(c2s) PROVE \A i \in 1..Len(c2s') : c2s'[i].kind # "U"
    <3>1. Len(c2s') = Len(c2s) - 1 /\ \A i \in 1..Len(c2s) - 1 : c2s'[i] = c2s[i + 1]
      BY <2>3, TailFacts
    <3>2. \A i \in 1..Len(c2s) - 1 : i + 1 \in 1..Len(c2s)
      OBVIOUS
    <3> QED  BY <2>1, <3>1, <3>2
  <2> QED  BY <2>1, <2>2, <2>3
<1>3. /\ position' \in 0..Len(before.source)
      /\ spc' \in {"idle", "command", "list", "names", "pick", "send", "closed"}
  <2>1. position' = position \/ (~AtSourceEnd /\ position' = position + Len(NextBytes))
    BY <1>1 DEF Accept, ReadCommand, CountEntries, SendEntries, ReadPick, SendFile,
         ServerBrokenPipe, UninitialisedCommand, AdvanceSource
  <2>2. ~AtSourceEnd => position + Len(NextBytes) \in 0..Len(before.source)
    <3>1. ASSUME ~AtSourceEnd PROVE position + Len(NextBytes) \in 0..Len(before.source)
      <4>1. Len(NextBytes) \in Nat /\ position + Len(NextBytes) <= Len(before.source)
        BY <3>1, NextBytesFacts
      <4>2. position \in Nat
        OBVIOUS
      <4> QED  BY <4>1, <4>2
    <3> QED  BY <3>1
  <2>3. spc' \in {"idle", "command", "list", "names", "pick", "send", "closed"}
    <3>1. CASE ReadCommand
      <4>1. c2s # << >> /\ Head(c2s) = c2s[1] /\ 1 \in 1..Len(c2s)
        BY <3>1, TailFacts DEF ReadCommand, ServerReads
      <4>2. Head(c2s).kind # "U"
        BY <4>1 DEF DownloadOK
      <4> QED  BY <3>1, <4>2 DEF ReadCommand
    <3>2. CASE ~ReadCommand
      BY <1>1, <3>2 DEF Accept, CountEntries, SendEntries, ReadPick, SendFile, ServerBrokenPipe,
           UninitialisedCommand
    <3> QED  BY <3>1, <3>2
  <2> QED  BY <2>1, <2>2, <2>3
<1>4. CASE cpc = "closed"
  BY <1>1, <1>2, <1>3, <1>4 DEF DownloadOK
<1>5. ASSUME cpc # "closed" PROVE Coming' /\ (spc' # "closed" => Choosing')
  <2>1. Coming /\ Choosing /\ Read \in Nat /\ ~ServerBrokenPipe /\ ~ServerAtEnd
    BY <1>1, <1>5 DEF ServerBrokenPipe, ServerAtEnd
  <2>2. PICK h \in 0..entries + 2 - Read, to \in 0..Len(before.source) : Listened(h, to)
    BY <2>1 DEF Coming, Streaming
  <2>3. Read + h = Listed /\ to = position /\ h \in Nat
    BY <1>1, <2>2 DEF Listened
  <2>4. CASE Accept
    <3>1. spc = "idle" /\ spc' = "command" /\ UNCHANGED <<position, c2s, s2c>>
      BY <2>4 DEF Accept
    <3>2. Listed' = Listed /\ Choosing'
      BY <1>1, <2>1, <3>1 DEF Listed, Choosing, Asking, Picking
    <3> QED  BY <1>1, <2>1, <3>1, <3>2 DEF Coming, Streaming, Listened
  <2>5. CASE ReadCommand
    <3>1. spc = "command" /\ c2s # << >> /\ c2s' = Tail(c2s) /\ UNCHANGED <<position, s2c>>
      BY <2>5 DEF ReadCommand, ServerReads
    <3>2. Asking /\ c2s = <<Record("D", 0)>>
      BY <2>1, <3>1 DEF Choosing, Picking
    <3>3. Head(c2s).kind = "D" /\ Tail(c2s) = << >>
      BY <3>2 DEF Record
    <3>4. spc' = "list"
      BY <2>5, <3>3 DEF ReadCommand
    <3>5. Listed' = Listed /\ Choosing'
      BY <1>1, <2>1, <3>1, <3>2, <3>3, <3>4 DEF Listed, Choosing, Asking, Picking
    <3> QED  BY <1>1, <2>1, <3>1, <3>4, <3>5 DEF Coming, Streaming, Listened
  <2>6. CASE CountEntries \/ SendEntries \/ (ReadPick /\ order.there)
    <3> DEFINE part == IF spc = "list" THEN <<Record("count", entries)>>
                       ELSE IF spc = "names" THEN [i \in 1..entries |-> Record("entry", 0)]
                       ELSE <<Record("size", SourceSize)>>
    <3>1. /\ \/ spc = "list" /\ spc' = "names" /\ c2s' = c2s
             \/ spc = "names" /\ spc' = "pick" /\ c2s' = c2s
             \/ spc = "pick" /\ spc' = "send" /\ c2s # << >> /\ c2s' = Tail(c2s)
          /\ ServerSends(part) /\ UNCHANGED position
      BY <2>1, <2>6 DEF CountEntries, SendEntries, ReadPick, ServerReads
    <3>2. /\ part \in Seq(Records) /\ Len(part) \in Nat /\ Listed' = Listed + Len(part)
          /\ \A i \in 1..Len(part) : IsListed(part[i], Listed + i, entries, Size)
      <4>1. SourceSize = Size /\ Size \in Nat
        BY DEF SourceSize, Size
      <4>2. CASE spc = "list"
        <5>1. part = <<Record("count", entries)>> /\ Listed = 0 /\ Listed' = 1
          BY <3>1, <4>2 DEF Listed
        <5>2. part \in Seq(Records) /\ Len(part) = 1 /\ part[1] = Record("count", entries)
          BY <5>1, RecordTypes
        <5>3. IsListed(Record("count", entries), 1, entries, Size)
          BY DEF IsListed, ListKind, Record
        <5> QED  BY <5>1, <5>2, <5>3
      <4>3. CASE spc = "names"
        <5>1. part = [i \in 1..entries |-> Record("entry", 0)] /\ Listed = 1 /\ Listed' = entries + 1
          BY <1>1, <3>1, <4>3 DEF Listed
        <5>2. part \in Seq(Records) /\ Len(part) = entries
              /\ \A i \in 1..entries : part[i] = Record("entry", 0)
          <6> HIDE DEF part
          <6> QED  BY <5>1, NameTypes
        <5>3. \A i \in 1..entries : IsListed(Record("entry", 0), 1 + i, entries, Size)
          BY SMTT(30) DEF IsListed, ListKind, Record
        <5> HIDE DEF part
        <5> QED  BY <5>1, <5>2, <5>3
      <4>4. CASE spc = "pick"
        <5>1. /\ part = <<Record("size", Size)>>
              /\ Listed = entries + 1 /\ Listed' = entries + 2
          BY <1>1, <3>1, <4>1, <4>4 DEF Listed
        <5>2. part \in Seq(Records) /\ Len(part) = 1 /\ part[1] = Record("size", Size)
          <6>1. Record("size", Size) \in Records
            BY <4>1, RecordTypes
          <6> HIDE DEF part
          <6> QED  BY <5>1, <6>1
        <5>3. IsListed(Record("size", Size), entries + 2, entries, Size)
          <6>1. ListKind(entries + 2, entries) = "size"
            BY DEF ListKind
          <6> QED  BY <6>1 DEF IsListed, Record
        <5> HIDE DEF part
        <5>4. \A i \in 1..Len(part) : i = 1
          BY <5>2
        <5> QED  BY <5>1, <5>2, <5>3, <5>4, SMTT(30)
      <4> QED  BY <3>1, <4>2, <4>3, <4>4
    <3> HIDE DEF part
    <3>3. Listed < entries + 2
      BY <3>1 DEF Listed
    <3>4. position = 0 /\ Len(s2c) = h /\ Read < entries + 2 /\ total = 0 /\ to = 0
      <4>1. position = 0
        BY <2>1, <3>3 DEF Coming
      <4>2. Read < entries + 2
        BY <2>1, <2>3, <3>3
      <4>3. total = 0
        BY <2>1, <4>2 DEF Coming
      <4>4. Len(s2c) = h /\ to = 0
        BY <2>2, <2>3, <3>3 DEF Listened
      <4> QED  BY <4>1, <4>2, <4>3, <4>4
    <3> DEFINE q == s2c \o part
    <3>5. PICK k \in Nat : k = h + Len(part)
      BY <2>3, <3>2
    <3>6. q \in Seq(Records) /\ Len(q) = k /\ Listing(q, k, Read, entries, Size)
      <4>1. Listing(s2c, Len(s2c), Read, entries, Size)
        BY <2>2, <3>4 DEF Listened
      <4>2. \A i \in 1..Len(part) : Read + (Len(s2c) + i) = Listed + i
        BY <2>1, <2>3, <3>2, <3>4
      <4>3. \A i \in 1..Len(part) : IsListed(part[i], Read + (Len(s2c) + i), entries, Size)
        BY <3>2, <4>2
      <4>4. /\ q \in Seq(Records) /\ Len(q) = Len(s2c) + Len(part)
            /\ Listing(q, Len(s2c) + Len(part), Read, entries, Size)
        BY <2>1, <3>2, <4>1, <4>3, ListingSent
      <4> QED  BY <3>4, <3>5, <4>4
    <3>7. s2c' = q
      BY <1>5, <3>1 DEF ServerSends
    <3> HIDE DEF q
    <3>8. Pieces(before.source, q, k, 0, 0)
      <4>1. \A at \in 0..Len(before.source) : Pieces(before.source, q, k, at, at)
        BY <3>6, NoPieces
      <4>2. 0 \in 0..Len(before.source)
        OBVIOUS
      <4> QED  BY <4>1, <4>2
    <3>9. Read + k = Listed' /\ Listed' <= entries + 2
      <4>1. Listed' <= entries + 2
        BY <1>1, <3>1, SMTT(30) DEF Listed
      <4> QED  BY <2>1, <2>3, <3>2, <3>5, <4>1
    <3>10. Listened(k, 0)'
      BY <1>1, <3>1, <3>4, <3>6, <3>7, <3>8, <3>9 DEF Listened
    <3>11. Streaming'
      <4>1. k \in 0..entries + 2 - Read /\ 0 \in 0..Len(before.source)
        BY <2>1, <3>9
      <4> QED  BY <1>1, <3>10, <4>1 DEF Streaming
    <3>12. cpc # "data" /\ spc' # "closed"
      BY <1>1, <2>1, <3>1 DEF Choosing
    <3>13. Coming'
      BY <1>1, <2>1, <3>1, <3>4, <3>11, <3>12 DEF Coming
    <3>14. Choosing'
      <4>1. spc = "pick" => Picking /\ c2s' = << >>
        <5>1. ASSUME spc = "pick" PROVE Picking /\ c2s = <<Record("name", 0)>>
          BY <2>1, <3>1, <5>1 DEF Choosing, Asking, Picking
        <5>2. Tail(<<Record("name", 0)>>) = << >>
          OBVIOUS
        <5> QED  BY <3>1, <5>1, <5>2
      <4> QED  BY <1>1, <1>5, <2>1, <3>1, <4>1 DEF Choosing, Asking, Picking
    <3> QED  BY <3>13, <3>14
  <2>7. CASE ReadPick /\ ~order.there
    <3>1. spc = "pick" /\ spc' = "closed" /\ UNCHANGED <<position, s2c>>
      BY <2>1, <2>7 DEF ReadPick
    <3>2. Listed' = entries + 2 /\ ~Undisturbed("download")' /\ Listed < entries + 2
      BY <1>1, <2>7, <3>1 DEF Listed, Undisturbed
    <3>3. Listened(h, to)'
      BY <1>1, <2>2, <3>1, <3>2 DEF Listened
    <3>4. Streaming'
      BY <1>1, <3>3 DEF Streaming
    <3> QED  BY <1>1, <2>1, <3>1, <3>2, <3>4 DEF Coming
  <2>8. CASE SendFile /\ AtSourceEnd
    <3>1. /\ spc = "send" /\ spc' = "closed" /\ UNCHANGED <<position, s2c, c2s>>
          /\ position = Len(before.source)
      BY <2>8 DEF SendFile, AtSourceEnd
    <3>2. Listed' = Listed
      BY <1>1, <3>1 DEF Listed
    <3>3. Listened(h, to)'
      BY <1>1, <2>2, <2>3, <3>1, <3>2 DEF Listened
    <3>4. Streaming'
      BY <1>1, <3>3 DEF Streaming
    <3> QED  BY <1>1, <2>1, <3>1, <3>2, <3>4 DEF Coming
  <2>9. CASE SendFile /\ ~AtSourceEnd
    <3> DEFINE chunk == Data(NextBytes)
               end == position + Len(NextBytes)
    <3>1. /\ spc = "send" /\ spc' = "send" /\ position' = end /\ c2s' = c2s
          /\ ServerSends(<<chunk>>)
      BY <2>9 DEF SendFile, AdvanceSource
    <3>2. /\ NextBytes \in Seq(Bytes) /\ Len(NextBytes) \in Nat /\ end <= Len(before.source)
          /\ NextBytes = SubSeq(before.source, position + 1, end)
      BY <2>9, NextBytesFacts
    <3>3. chunk \in Records /\ chunk.data = NextBytes /\ chunk.kind = "data"
      <4>1. NextBytes \in Seq(Bytes \cup {Junk})
        <5>1. \A i \in 1..Len(NextBytes) : NextBytes[i] \in Bytes
          BY <3>2, ElementOfSeq
        <5> QED  BY <3>2, <5>1
      <4> QED  BY <4>1, RecordTypes DEF Data
    <3>4. end \in 0..Len(before.source) /\ position <= end /\ position \in Nat
      <4>1. PICK size \in Nat, at \in Nat, n \in Nat :
              size = Len(before.source) /\ at = position /\ n = Len(NextBytes)
        BY <3>2, SMTT(30)
      <4>2. at + n <= size
        BY <3>2, <4>1
      <4> QED  BY <4>1, <4>2, SMTT(30)
    <3>5. chunk.data = SubSeq(before.source, position + 1, end)
      BY <3>2, <3>3
    <3> HIDE DEF chunk, end
    <3>6. PICK at \in 0..Len(before.source) : at = end
      BY <3>4
    <3>7. Listed' = Listed /\ Listed = entries + 2 /\ Choosing'
      BY <1>1, <2>1, <3>1 DEF Listed, Choosing, Asking, Picking
    <3>8. /\ Listing(s2c, h, Read, entries, Size) /\ h \in 0..Len(s2c)
          /\ Pieces(before.source, s2c, h, total, position)
      BY <2>2, <2>3 DEF Listened, Listing
    <3>9. Pieces(before.source, s2c \o <<chunk>>, h, total, end)
      BY <3>3, <3>4, <3>5, <3>8, PieceSent
    <3>10. Listing(s2c \o <<chunk>>, h, Read, entries, Size)
      BY <2>3, <3>3, <3>8, DataSent
    <3>11. s2c' = s2c \o <<chunk>>
      BY <1>5, <3>1 DEF ServerSends
    <3>12. Listened(h, at)'
      BY <1>1, <2>3, <3>1, <3>6, <3>7, <3>9, <3>10, <3>11 DEF Listened
    <3>13. Streaming'
      BY <1>1, <3>12 DEF Streaming
    <3> QED  BY <1>1, <2>1, <3>1, <3>7, <3>13 DEF Coming
  <2>10. ~UninitialisedCommand
    BY <2>1 DEF UninitialisedCommand
  <2> QED  BY <1>1, <2>1, <2>4, <2>5, <2>6, <2>7, <2>8, <2>9, <2>10
<1> QED  BY <1>1, <1>2, <1>3, <1>4, <1>5 DEF DownloadOK

\* What a death leaves of the download, or a file written again with what was in it.
LEMMA EnvironmentDownload ==
    ASSUME DownloadInv, Downloading, Downloading',
           ClientCrash \/ ServerCrash \/ SourceChanges \/ DirectoryChanges
    PROVE  DownloadOK'
<1> USE DownloadFacts
<1>1. /\ DownloadOK /\ UNCHANGED <<order, before, target, position, total, expected, entries, left>>
      /\ ~Undisturbed("download")' /\ Laid' /\ Size' = Size /\ s2c' = s2c
  <2>1. /\ UNCHANGED <<order, before, target, position, total, expected, left, s2c>> /\ disturbed'
    BY DEF ClientCrash, ServerCrash, SourceChanges, DirectoryChanges, fixedVars, fileVars, listVars
  <2>2. entries' = entries
    BY DEF Downloading
  <2> QED  BY <2>1, <2>2 DEF DownloadOK, Laid, Size, Undisturbed
<1>2. CASE ClientCrash
  <2>1. /\ cpc' = "closed" /\ spc' = spc
        /\ \E n \in 0..Len(c2s) : c2s' = SubSeq(c2s, 1, n)
    BY <1>2 DEF ClientCrash
  <2>2. PICK n \in 0..Len(c2s) : c2s' = SubSeq(c2s, 1, n)
    BY <2>1
  <2>3. Len(c2s') = n /\ \A i \in 1..n : c2s'[i] = c2s[i]
    BY <2>2, SliceFacts
  <2>4. \A i \in 1..n : i \in 1..Len(c2s)
    OBVIOUS
  <2>5. \A i \in 1..Len(c2s') : c2s'[i].kind # "U"
    BY <2>3, <2>4 DEF DownloadOK
  <2> QED  BY <1>1, <2>1, <2>5 DEF DownloadOK
<1>3. CASE ServerCrash
  <2>1. spc' = "closed" /\ UNCHANGED <<cpc, c2s>>
    BY <1>3 DEF ServerCrash
  <2>2. CASE cpc = "closed"
    BY <1>1, <2>1, <2>2 DEF DownloadOK
  <2>3. CASE cpc # "closed"
    <3>1. Read' = Read /\ Listed' = entries + 2
      BY <1>1, <2>1 DEF Read, Listed
    <3>2. PICK h \in 0..entries + 2 - Read, to \in 0..Len(before.source) : Listened(h, to)
      BY <2>3 DEF Coming, Streaming
    <3>3. Listened(h, to)'
      BY <1>1, <2>1, <3>1, <3>2 DEF Listened
    <3>4. Streaming'
      BY <1>1, <3>1, <3>3 DEF Streaming
    <3>5. Coming'
      BY <1>1, <2>1, <2>3, <3>1, <3>4 DEF Coming
    <3> QED  BY <1>1, <2>1, <2>3, <3>5 DEF DownloadOK
  <2> QED  BY <2>2, <2>3
<1>4. CASE SourceChanges \/ DirectoryChanges
  <2>1. UNCHANGED <<cpc, spc, c2s>> /\ ~disturbed
    BY <1>4 DEF SourceChanges, DirectoryChanges
  <2>2. Read' = Read /\ Listed' = Listed
    BY <1>1, <2>1 DEF Read, Listed
  <2>3. Choosing => Choosing'
    BY <2>1 DEF Choosing, Asking, Picking
  <2>4. ASSUME cpc # "closed" PROVE Coming'
    <3>1. PICK h \in 0..entries + 2 - Read, to \in 0..Len(before.source) : Listened(h, to)
      BY <2>4 DEF Coming, Streaming
    <3>2. Listened(h, to)'
      BY <1>1, <2>1, <2>2, <3>1 DEF Listened
    <3>3. Streaming'
      BY <1>1, <2>2, <3>2 DEF Streaming
    <3> QED  BY <1>1, <2>1, <2>2, <2>4, <3>3 DEF Coming
  <2> QED  BY <1>1, <2>1, <2>3, <2>4 DEF DownloadOK
<1> QED  BY <1>2, <1>3, <1>4

LEMMA StepDownload ==
    ASSUME DownloadInv, [Next]_vars
    PROVE  DownloadInv'
<1>1. TypeInv' /\ Histories'
  BY StepType, StillAsItWas DEF DownloadInv
<1>2. ASSUME Downloading' PROVE DownloadOK'
  <2>1. Downloading /\ DownloadOK
    BY <1>2, StillAsItWas DEF DownloadInv
  <2>2. CASE (Launch /\ UNCHANGED transferVars) \/ UNCHANGED vars
    BY <2>1, <2>2, DownloadStutter DEF vars, transferVars, fixedVars, fileVars, listVars
  <2>3. CASE Client
    BY <2>1, <2>3, ClientDownload
  <2>4. CASE Server \/ UninitialisedCommand
    BY <2>1, <2>4, ServerDownload
  <2>5. CASE ClientCrash \/ ServerCrash \/ SourceChanges \/ DirectoryChanges
    BY <1>2, <2>1, <2>5, EnvironmentDownload
  <2> QED  BY <2>2, <2>3, <2>4, <2>5 DEF Next
<1> QED  BY <1>1, <1>2 DEF DownloadInv

-----------------------------------------------------------------------------
(***************************************************************************)
(* What is stored.                                                         *)
(***************************************************************************)
\* A file that is Laid is the front of the source over what was there.
LEMMA LaidIsOverlaid ==
    ASSUME TypeInv, Histories, Laid, total <= Len(before.source)
    PROVE  target = Overlaid(total)
<1> USE LenProperties DEF Histories
<1> DEFINE S == Bytes \cup {Junk}
           old == before.target
           bytes == SubSeq(before.source, 1, total)
           new == Overlay(old, 0, bytes)
<1>1. Laid /\ total \in Nat /\ Len(before.source) \in Nat
  BY DEF TypeInv, TypeOK
<1>2. /\ bytes \in Seq(Bytes) /\ Len(bytes) = total
      /\ \A i \in 1..total : bytes[i] = before.source[i]
  <2>1. /\ SubSeq(before.source, 0 + 1, total) \in Seq(Bytes)
        /\ Len(SubSeq(before.source, 0 + 1, total)) = total - 0
        /\ \A i \in 1..total - 0 : SubSeq(before.source, 0 + 1, total)[i] = before.source[0 + i]
    BY <1>1, SliceFacts
  <2> QED  BY <1>1, <2>1
<1> HIDE DEF bytes
<1>3. old \in Seq(S) /\ bytes \in Seq(S) /\ target \in Seq(S) /\ 0 \in 0..Len(old)
  <2>1. (\A i \in 1..Len(old) : old[i] \in Bytes) /\ (\A i \in 1..Len(bytes) : bytes[i] \in Bytes)
    BY <1>2, ElementOfSeq
  <2> QED  BY <1>2, <2>1 DEF TypeInv, TypeOK
<1>4. /\ new \in Seq(S)
      /\ Len(new) = IF total > Len(old) THEN total ELSE Len(old)
      /\ \A i \in 1..total : new[i] = bytes[i]
      /\ \A i \in total + 1 .. Len(old) : new[i] = old[i]
  <2> HIDE DEF S, old
  <2>1. /\ Overlay(old, 0, bytes) \in Seq(S)
        /\ Len(Overlay(old, 0, bytes))
             = IF 0 + Len(bytes) > Len(old) THEN 0 + Len(bytes) ELSE Len(old)
        /\ \A i \in 1..Len(bytes) : Overlay(old, 0, bytes)[0 + i] = bytes[i]
        /\ \A i \in 0 + Len(bytes) + 1 .. Len(old) : Overlay(old, 0, bytes)[i] = old[i]
    BY <1>3, OverlayFacts
  <2>2. 0 + Len(bytes) = total
    BY <1>1, <1>2
  <2> HIDE DEF new
  <2> QED  BY <1>2, <2>1, <2>2 DEF new
<1> HIDE DEF new
<1>5. Len(target) = Len(new) /\ \A i \in 1..Len(target) : target[i] = new[i]
  <2>1. Len(target) = Len(new)
    BY <1>1, <1>4 DEF Laid
  <2>2. ASSUME NEW i \in 1..Len(target) PROVE target[i] = new[i]
    <3>1. i \in 1..total \/ i \in total + 1 .. Len(old)
      BY <1>1 DEF Laid
    <3>2. CASE i \in 1..total
      BY <1>1, <1>2, <1>4, <3>2 DEF Laid
    <3>3. CASE i \in total + 1 .. Len(old)
      BY <1>1, <1>4, <3>3 DEF Laid
    <3> QED  BY <3>1, <3>2, <3>3
  <2> QED  BY <2>1, <2>2
<1>6. target = new
  BY <1>3, <1>4, <1>5, SeqEqual
<1> QED  BY <1>6 DEF new, bytes, Overlaid

\* A transfer nobody disturbed is stored whole: for every content whose size the
\* 32-bit length field can carry, every chunk size, every directory and every
\* interleaving of the launch, the client and the server, the receiver's file starts
\* with the sender's bytes when both ends have closed.
THEOREM WholeTransfersAreStored == Spec => []WholeIsStored
<1>1. ASSUME UploadInv, Undisturbed("upload"), order.trusted, order.writable, spc = "closed"
      PROVE  target = Overlaid(Len(before.source))
  <2>1. TypeInv /\ Histories /\ Laid /\ total = Len(before.source)
    BY <1>1 DEF UploadInv, Uploading, UploadOK, Undisturbed, Histories
  <2>2. total <= Len(before.source)
    BY <2>1 DEF TypeInv, TypeOK
  <2> QED  BY <2>1, <2>2, LaidIsOverlaid
<1>2. ASSUME DownloadInv, Undisturbed("download"), cpc = "closed"
      PROVE  target = Overlaid(Len(before.source))
  <2>1. TypeInv /\ Histories /\ Laid /\ total = Len(before.source)
    BY <1>2 DEF DownloadInv, Downloading, DownloadOK, Undisturbed, Histories
  <2>2. total <= Len(before.source)
    BY <2>1 DEF TypeInv, TypeOK
  <2> QED  BY <2>1, <2>2, LaidIsOverlaid
<1>3. UploadInv /\ DownloadInv => WholeIsStored
  BY <1>1, <1>2 DEF WholeIsStored
<1> QED  BY <1>3, InitUpload, StepUpload, InitDownload, StepDownload, PTL DEF Spec

\* As long as nobody writes the file or the directory under way, what is stored is
\* at every moment a front of the sender's file over the old one, as long as
\* totalrecv says: whichever process dies at whatever point of the launch or of the
\* transfer, whatever part of the stream is lost with it, whatever token or name is
\* refused, and however long the file is.
THEOREM FrontsAreStored == Spec => []FrontIsStored
<1>1. ASSUME UploadInv, DownloadInv, UnusedInv, source = before.source, entries = MaxEntries
      PROVE  target = Overlaid(total)
  <2>1. TypeInv /\ Histories /\ order \in Orders /\ Len(before.source) \in Nat
    BY <1>1, LenProperties DEF UploadInv, TypeInv, TypeOK, Histories
  <2>2. Uploading \/ Downloading \/ Unused
    BY <1>1, <2>1, TransferAssumption DEF Orders, Uploading, Downloading, Unused
  <2>3. Laid /\ total <= Len(before.source)
    <3>1. CASE Uploading
      BY <1>1, <3>1 DEF UploadInv, UploadOK
    <3>2. CASE Downloading
      BY <1>1, <3>2 DEF DownloadInv, DownloadOK
    <3>3. CASE Unused
      <4>1. total = 0 /\ target = before.target /\ before.target \in Seq(Bytes)
        BY <1>1, <2>1, <3>3 DEF UnusedInv, UnusedOK, Histories
      <4>2. Len(before.target) \in Nat
        BY <4>1, LenProperties
      <4> QED  BY <2>1, <4>1, <4>2 DEF Laid
    <3> QED  BY <2>2, <3>1, <3>2, <3>3
  <2> QED  BY <2>1, <2>3, LaidIsOverlaid
<1>2. UploadInv /\ DownloadInv /\ UnusedInv => FrontIsStored
  BY <1>1 DEF FrontIsStored
<1> QED  BY <1>2, InitUpload, StepUpload, InitDownload, StepDownload, InitUnused, StepUnused, PTL
         DEF Spec

-----------------------------------------------------------------------------
(***************************************************************************)
(* Whose turn it is.  Files and directory may change under way here.        *)
(***************************************************************************)
Turns ==
    /\ c2s = IF Asking THEN <<Record("D", 0)>>
             ELSE IF cpc \in {"size", "data"} /\ spc \in {"names", "pick"} THEN <<Record("name", 0)>>
             ELSE << >>
    /\ cpc \in {"idle", "download"} => spc \in {"idle", "command"}
    /\ cpc = "count" => spc \in {"idle", "command", "list", "names", "pick"}
    /\ cpc = "entries" => spc \in {"names", "pick"}
    /\ cpc \in {"size", "data"} => spc \in {"names", "pick", "send"}
    /\ spc \in {"idle", "command", "list"} => s2c = << >>
    /\ cpc = "count" /\ spc \in {"names", "pick"} => s2c # << >>

DownloadTurns ==
    /\ cpc \in {"idle", "download", "count", "entries", "size", "data", "closed"}
    /\ (cpc # "closed" /\ spc # "closed") => Turns

\* A client that downloads nothing reads nothing.
TurnInv ==
    /\ TypeInv
    /\ IF order.mode = "download" THEN DownloadTurns
       ELSE cpc \notin {"download", "count", "entries", "size", "data"}

LEMMA InitTurns == Init => TurnInv
BY InitType DEF Init, TurnInv, DownloadTurns, Turns, Asking

LEMMA ClientTurns ==
    ASSUME TurnInv, order.mode = "download", Client
    PROVE  DownloadTurns'
<1> USE DEF ClientGoes, fixedVars, fileVars, listVars
<1>1. /\ DownloadTurns /\ spc' = spc
      /\ LinkS \/ SendDownload \/ ReadCount \/ ReadEntry \/ PickName \/ ReadFileSize \/ ReceiveData
         \/ ReceiveEnd
      /\ cpc \in {"idle", "download", "count", "entries", "size", "data"}
      /\ cpc' \in {"idle", "download", "count", "entries", "size", "data", "closed"}
  BY DEF TurnInv, DownloadTurns, Client, LinkS, SendHeader, StatFile, SendChunk, CloseFile,
     BrokenPipe, SendDownload, ReadCount, ReadEntry, PickName, ReadFileSize, ReceiveData, ReceiveEnd,
     Quit
<1>2. CASE spc = "closed"
  BY <1>1, <1>2 DEF DownloadTurns
<1>3. CASE spc # "closed"
  <2>1. Turns
    BY <1>1, <1>3 DEF DownloadTurns
  <2>2. ~ClientAtEnd
    BY <1>3 DEF ClientAtEnd
  <2>3. CASE LinkS
    BY <1>1, <1>3, <2>1, <2>3 DEF LinkS, Turns, Asking, DownloadTurns
  <2>4. CASE SendDownload
    <3>1. /\ cpc = "download" /\ cpc' = "count" /\ s2c' = s2c /\ c2s = << >>
          /\ c2s' = c2s \o <<Record("D", 0)>>
      BY <1>3, <2>1, <2>4 DEF SendDownload, ClientSends, Turns, Asking
    <3>2. << >> \o <<Record("D", 0)>> = <<Record("D", 0)>>
      OBVIOUS
    <3> QED  BY <1>1, <1>3, <2>1, <3>1, <3>2 DEF Turns, Asking, DownloadTurns
  <2>5. CASE ReadCount \/ ReadEntry
    <3>1. /\ cpc \in {"count", "entries"} /\ cpc' = "entries" /\ c2s' = c2s
          /\ s2c # << >>
      BY <2>2, <2>5 DEF ReadCount, ReadEntry, ClientReads
    <3>2. spc \in {"names", "pick"}
      BY <2>1, <3>1 DEF Turns
    <3> QED  BY <1>1, <2>1, <3>1, <3>2 DEF Turns, Asking, DownloadTurns
  <2>6. CASE PickName
    <3>1. /\ cpc = "entries" /\ cpc' = "size" /\ s2c' = s2c /\ c2s = << >>
          /\ c2s' = c2s \o <<Record("name", 0)>> /\ spc \in {"names", "pick"}
      BY <1>3, <2>1, <2>6 DEF PickName, ClientSends, Turns, Asking
    <3>2. << >> \o <<Record("name", 0)>> = <<Record("name", 0)>>
      OBVIOUS
    <3> QED  BY <1>1, <1>3, <2>1, <3>1, <3>2 DEF Turns, Asking, DownloadTurns
  <2>7. CASE ReadFileSize \/ ReceiveData \/ ReceiveEnd
    <3>1. cpc \in {"size", "data"} /\ cpc' \in {"data", "closed"} /\ c2s' = c2s
      BY <2>7 DEF ReadFileSize, ReceiveData, ReceiveEnd
    <3> QED  BY <1>1, <2>1, <3>1 DEF Turns, Asking, DownloadTurns
  <2> QED  BY <1>1, <2>3, <2>4, <2>5, <2>6, <2>7
<1> QED  BY <1>2, <1>3

LEMMA ServerTurns ==
    ASSUME TurnInv, order.mode = "download", Server \/ UninitialisedCommand
    PROVE  DownloadTurns'
<1> USE DEF ServerGoes, Ends, Continues, fixedVars, fileVars, listVars, serverFrame
<1>1. DownloadTurns /\ cpc' = cpc /\ spc # "closed"
  BY DEF TurnInv, Server, Accept, ReadCommand, ReadToken, ReadName, ReadSize, ReadData, ReadEnd,
     CountEntries, SendEntries, ReadPick, SendFile, ServerBrokenPipe, UninitialisedCommand
<1>2. CASE cpc = "closed" \/ spc' = "closed"
  BY <1>1, <1>2 DEF DownloadTurns
<1>3. CASE cpc # "closed" /\ spc' # "closed"
  <2>1. /\ Turns /\ ~ServerAtEnd
        /\ cpc \in {"idle", "download", "count", "entries", "size", "data"}
        /\ s2c \in Seq(Records) /\ Len(s2c) \in Nat /\ entries \in Nat
    BY <1>1, <1>3, LenProperties DEF DownloadTurns, ServerAtEnd, TurnInv, TypeInv, TypeOK
  <2>2. spc \in {"idle", "command", "list", "names", "pick", "send"}
    BY <2>1 DEF Turns
  <2>3. CASE Accept
    BY <1>1, <2>1, <2>3 DEF Accept, Turns, Asking, DownloadTurns
  <2>4. CASE ReadCommand
    <3>1. /\ spc = "command" /\ c2s # << >> /\ c2s' = Tail(c2s) /\ s2c' = s2c
      BY <2>4 DEF ReadCommand, ServerReads
    <3>2. Asking /\ c2s = <<Record("D", 0)>> /\ cpc = "count"
      BY <2>1, <3>1 DEF Turns, Asking
    <3>3. Head(c2s).kind = "D" /\ Tail(c2s) = << >>
      BY <3>2 DEF Record
    <3>4. spc' = "list"
      BY <2>4, <3>3 DEF ReadCommand
    <3> QED  BY <1>1, <2>1, <3>1, <3>2, <3>3, <3>4 DEF Turns, Asking, DownloadTurns
  <2>5. CASE CountEntries
    <3>1. /\ spc = "list" /\ spc' = "names" /\ c2s' = c2s /\ cpc = "count" /\ s2c = << >>
          /\ s2c' = s2c \o <<Record("count", entries)>>
      BY <1>3, <2>1, <2>5 DEF CountEntries, ServerSends, Turns
    <3>2. << >> \o <<Record("count", entries)>> # << >>
      OBVIOUS
    <3> QED  BY <1>1, <2>1, <3>1, <3>2 DEF Turns, Asking, DownloadTurns
  <2>6. CASE SendEntries
    <3> DEFINE names == [i \in 1..entries |-> Record("entry", 0)]
    <3>1. /\ spc = "names" /\ spc' = "pick" /\ c2s' = c2s /\ s2c' = s2c \o names
          /\ cpc \in {"count", "entries", "size", "data"}
      BY <1>3, <2>1, <2>6 DEF SendEntries, ServerSends, Turns
    <3>2. cpc = "count" => s2c' # << >>
      <4>1. names \in Seq(Records)
        BY <2>1, NameTypes
      <4> HIDE DEF names
      <4>2. s2c \o names \in Seq(Records) /\ Len(s2c \o names) = Len(s2c) + Len(names)
        BY <2>1, <4>1, ConcatProperties
      <4>3. Len(names) \in Nat
        BY <4>1, LenProperties
      <4>4. cpc = "count" => s2c # << >>
        BY <2>1, <3>1 DEF Turns
      <4>5. s2c # << >> => Len(s2c) > 0
        BY <2>1, EmptySeq
      <4> QED  BY <2>1, <3>1, <4>2, <4>3, <4>4, <4>5, EmptySeq
    <3> QED  BY <1>1, <2>1, <3>1, <3>2 DEF Turns, Asking, DownloadTurns
  <2>7. CASE ReadPick
    <3>1. spc = "pick" /\ spc' = "send" /\ c2s # << >> /\ c2s' = Tail(c2s)
      BY <1>3, <2>1, <2>7 DEF ReadPick, ServerReads
    <3>2. c2s = <<Record("name", 0)>> /\ cpc \in {"size", "data"}
      BY <2>1, <3>1 DEF Turns, Asking
    <3>3. Tail(<<Record("name", 0)>>) = << >>
      OBVIOUS
    <3> QED  BY <1>1, <2>1, <3>1, <3>2, <3>3 DEF Turns, Asking, DownloadTurns
  <2>8. CASE SendFile
    <3>1. spc = "send" /\ spc' = "send" /\ c2s' = c2s
      BY <1>3, <2>8 DEF SendFile
    <3> QED  BY <1>1, <2>1, <3>1 DEF Turns, Asking, DownloadTurns
  <2>9. Accept \/ ReadCommand \/ CountEntries \/ SendEntries \/ ReadPick \/ SendFile
    BY <1>3, <2>1, <2>2 DEF Server, ReadToken, ReadName, ReadSize, ReadData, ReadEnd,
       ServerBrokenPipe, UninitialisedCommand
  <2> QED  BY <2>3, <2>4, <2>5, <2>6, <2>7, <2>8, <2>9
<1> QED  BY <1>2, <1>3

LEMMA StepTurns ==
    ASSUME TurnInv, [Next]_vars
    PROVE  TurnInv'
<1>1. TypeInv' /\ order \in Orders
  BY StepType DEF TurnInv, TypeInv, TypeOK
<1>2. CASE \/ Launch /\ UNCHANGED transferVars
           \/ UNCHANGED vars
           \/ SourceChanges \/ DirectoryChanges
  <2>1. UNCHANGED <<order, cpc, spc, c2s, s2c>>
    BY <1>2 DEF vars, transferVars, fixedVars, SourceChanges, DirectoryChanges
  <2> QED  BY <1>1, <2>1 DEF TurnInv, DownloadTurns, Turns, Asking
<1>3. CASE ClientCrash \/ ServerCrash
  <2>1. order' = order /\ cpc' \in {cpc, "closed"} /\ (cpc' = "closed" \/ spc' = "closed")
    BY <1>3 DEF ClientCrash, ServerCrash, fixedVars
  <2> QED  BY <1>1, <2>1 DEF TurnInv, DownloadTurns
<1>4. CASE Client \/ Server \/ UninitialisedCommand
  <2>1. order' = order
    BY <1>4, ProcessesDoNotDisturb
  <2>2. CASE order.mode = "download"
    BY <1>1, <1>4, <2>1, <2>2, ClientTurns, ServerTurns DEF TurnInv
  <2>3. CASE order.mode # "download"
    <3>1. cpc \notin {"download", "count", "entries", "size", "data"}
      BY <2>3 DEF TurnInv
    <3>2. CASE Client
      <4>1. LinkS \/ SendHeader \/ StatFile \/ SendChunk \/ CloseFile \/ BrokenPipe \/ Quit
        BY <3>1, <3>2 DEF Client, SendDownload, ReadCount, ReadEntry, PickName, ReadFileSize,
           ReceiveData, ReceiveEnd, ClientGoes
      <4>2. order.mode \in {"none", "upload", "quit"}
        BY <1>1, <2>3, TransferAssumption DEF Orders
      <4>3. cpc' \notin {"download", "count", "entries", "size", "data"}
        BY <3>1, <4>1, <4>2 DEF LinkS, SendHeader, StatFile, SendChunk, CloseFile, BrokenPipe, Quit,
           ClientGoes
      <4> QED  BY <1>1, <2>1, <2>3, <4>3 DEF TurnInv
    <3>3. CASE Server \/ UninitialisedCommand
      <4>1. cpc' = cpc
        BY <3>3 DEF Server, Accept, ReadCommand, ReadToken, ReadName, ReadSize, ReadData, ReadEnd,
           CountEntries, SendEntries, ReadPick, SendFile, ServerBrokenPipe, UninitialisedCommand,
           serverFrame
      <4> QED  BY <1>1, <2>1, <2>3, <3>1, <4>1 DEF TurnInv
    <3> QED  BY <1>4, <3>2, <3>3
  <2> QED  BY <2>2, <2>3
<1> QED  BY <1>2, <1>3, <1>4 DEF Next

\* Client and server both wait for a record with none under way in one state only,
\* after the directory changed between its two readings; whatever else changes, and
\* whatever the directory holds, one of them has a record to read or to send.
THEOREM NoMutualWait == Spec => []NoOtherDeadlock
<1>1. ASSUME TurnInv, DownloadInv, ClientWaits, s2c = << >>, spc # "closed", ServerWaits,
             c2s = << >>, cpc # "closed"
      PROVE  AwaitEachOther
  <2>1. order.mode = "download" /\ Turns
    BY <1>1 DEF TurnInv, ClientWaits, DownloadTurns
  <2>2. cpc = "entries" /\ left > 0 /\ spc = "pick"
    BY <1>1, <2>1 DEF Turns, Asking, ClientWaits, ServerWaits
  <2>3. disturbed
    <3>1. SUFFICES ASSUME ~disturbed PROVE FALSE
      BY <1>1 DEF DownloadInv, TypeInv, TypeOK
    <3>2. Downloading
      BY <1>1, <2>1, <3>1 DEF DownloadInv, Histories, Downloading
    <3>3. /\ Coming /\ Read = entries + 1 - left /\ Listed = entries + 1
          /\ left \in Nat /\ entries \in Nat
      BY <1>1, <2>2, <3>2, DownloadFacts DEF Read, Listed
    <3>4. PICK h \in 0..entries + 2 - Read, to \in 0..Len(before.source) : Listened(h, to)
      BY <3>3 DEF Coming, Streaming
    <3>5. Read + h = Listed /\ h \in 0..Len(s2c)
      BY <2>2, <3>4 DEF Listened, Listing
    <3>6. h >= 1 /\ Len(s2c) = 0
      BY <1>1, <2>2, <3>3, <3>5, EmptySeq
    <3> QED  BY <3>5, <3>6
  <2> QED  BY <1>1, <2>2, <2>3 DEF AwaitEachOther
<1>2. TurnInv /\ DownloadInv => NoOtherDeadlock
  BY <1>1 DEF NoOtherDeadlock
<1> QED  BY <1>2, InitTurns, StepTurns, InitDownload, StepDownload, PTL DEF Spec

-----------------------------------------------------------------------------
(***************************************************************************)
(* The contract.  What it needs beside the invariants above: the server     *)
(* takes nothing for an upload while the client downloads, also when the     *)
(* client is gone and files have changed; and a file that is not there is    *)
(* not sent.                                                               *)
(***************************************************************************)
NoUpload(q) == \A i \in 1..Len(q) : q[i].kind # "U"

ServesDownload ==
    order.mode = "download" => spc \notin {"token", "name", "size", "data"} /\ NoUpload(c2s)

LEMMA NoUploadKept ==
    ASSUME NEW q \in Seq(Records), NoUpload(q)
    PROVE  /\ q # << >> => Head(q).kind # "U" /\ NoUpload(Tail(q))
           /\ \A n \in 0..Len(q) : NoUpload(SubSeq(q, 1, n))
           /\ \A r \in Records : r.kind # "U" => NoUpload(q \o <<r>>)
<1>1. Len(q) \in Nat
  BY LenProperties
<1>2. ASSUME q # << >> PROVE Head(q).kind # "U" /\ NoUpload(Tail(q))
  <2>1. /\ Len(q) >= 1 /\ Len(Tail(q)) = Len(q) - 1 /\ Head(q) = q[1]
        /\ \A i \in 1..Len(q) - 1 : Tail(q)[i] = q[i + 1]
    BY <1>2, TailFacts
  <2>2. 1 \in 1..Len(q) /\ \A i \in 1..Len(q) - 1 : i + 1 \in 1..Len(q)
    BY <1>1, <2>1
  <2> QED  BY <2>1, <2>2 DEF NoUpload
<1>3. ASSUME NEW n \in 0..Len(q) PROVE NoUpload(SubSeq(q, 1, n))
  <2>1. n \in Nat /\ n <= Len(q) /\ 0 + 1 = 1 /\ n - 0 = n /\ \A i \in 1..n : 0 + i = i /\ i \in 1..Len(q)
    BY <1>1
  <2>2. Len(SubSeq(q, 0 + 1, n)) = n - 0 /\ \A i \in 1..n - 0 : SubSeq(q, 0 + 1, n)[i] = q[0 + i]
    BY <1>1, <2>1, SliceFacts
  <2>3. Len(SubSeq(q, 1, n)) = n /\ \A i \in 1..n : SubSeq(q, 1, n)[i] = q[i]
    BY <2>1, <2>2
  <2> QED  BY <2>1, <2>3 DEF NoUpload
<1>4. ASSUME NEW r \in Records, r.kind # "U" PROVE NoUpload(q \o <<r>>)
  <2> DEFINE s == q \o <<r>>
             k == Len(q)
  <2>1. Len(s) = k + 1 /\ s[k + 1] = r /\ \A i \in 1..k : s[i] = q[i]
    BY AppendProperties, AppendIsConcat
  <2>2. \A i \in 1..k + 1 : i \in 1..k \/ i = k + 1
    BY <1>1
  <2> HIDE DEF s
  <2>3. \A i \in 1..Len(s) : s[i].kind # "U"
    BY <1>4, <2>1, <2>2 DEF NoUpload
  <2> QED  BY <2>3 DEF s, NoUpload
<1> QED  BY <1>2, <1>3, <1>4

LEMMA StepServes ==
    ASSUME TurnInv, ServesDownload, [Next]_vars
    PROVE  ServesDownload'
<1> SUFFICES ASSUME order'.mode = "download"
             PROVE  spc' \notin {"token", "name", "size", "data"} /\ NoUpload(c2s')
  BY DEF ServesDownload
<1> USE DEF fixedVars, fileVars, listVars
<1>1. CASE \/ Launch /\ UNCHANGED transferVars
           \/ UNCHANGED vars \/ SourceChanges \/ DirectoryChanges
  <2>1. UNCHANGED <<order, spc, c2s>>
    BY <1>1 DEF vars, transferVars, SourceChanges, DirectoryChanges
  <2> QED  BY <2>1 DEF ServesDownload
<1>2. CASE ClientCrash \/ ServerCrash
  <2>1. /\ order' = order /\ spc' \in {spc, "closed"}
        /\ c2s' = c2s \/ \E n \in 0..Len(c2s) : c2s' = SubSeq(c2s, 1, n)
    BY <1>2 DEF ClientCrash, ServerCrash
  <2>2. c2s \in Seq(Records) /\ NoUpload(c2s) /\ spc \notin {"token", "name", "size", "data"}
    BY <2>1 DEF ServesDownload, TurnInv, TypeInv, TypeOK
  <2> QED  BY <2>1, <2>2, NoUploadKept
<1>3. CASE Client \/ Server \/ UninitialisedCommand
  <2>1. order' = order /\ order.mode = "download"
    BY <1>3, ProcessesDoNotDisturb
  <2>2. /\ c2s \in Seq(Records) /\ NoUpload(c2s)
        /\ spc \notin {"token", "name", "size", "data"}
        /\ cpc \in {"idle", "download", "count", "entries", "size", "data", "closed"}
    BY <2>1 DEF ServesDownload, TurnInv, TypeInv, TypeOK, DownloadTurns
  <2>3. CASE Client
    <3>1. /\ spc' = spc
          /\ \/ c2s' = c2s
             \/ ClientSends(<<Record("D", 0)>>) \/ ClientSends(<<Record("name", 0)>>)
      BY <2>2, <2>3 DEF Client, LinkS, SendHeader, StatFile, SendChunk, CloseFile, BrokenPipe,
         SendDownload, ReadCount, ReadEntry, PickName, ReadFileSize, ReceiveData, ReceiveEnd, Quit,
         ClientGoes
    <3>2. /\ Record("D", 0) \in Records /\ Record("D", 0).kind # "U"
          /\ Record("name", 0) \in Records /\ Record("name", 0).kind # "U"
      BY RecordTypes, EmptySeq DEF Record, Records
    <3>3. NoUpload(c2s')
      BY <2>2, <3>1, <3>2, NoUploadKept DEF ClientSends
    <3> QED  BY <2>2, <3>1, <3>3
  <2>4. CASE Server \/ UninitialisedCommand
    <3>1. c2s' = c2s \/ (c2s # << >> /\ c2s' = Tail(c2s))
      BY <2>4 DEF Server, Accept, ReadCommand, ReadToken, ReadName, ReadSize, ReadData, ReadEnd,
         CountEntries, SendEntries, ReadPick, SendFile, ServerBrokenPipe, UninitialisedCommand,
         ServerReads, ServerAtEnd
    <3>2. c2s # << >> => Head(c2s).kind # "U"
      BY <2>2, NoUploadKept
    <3>3. spc' \notin {"token", "name", "size", "data"}
      <4>1. CASE ReadCommand
        BY <3>2, <4>1 DEF ReadCommand, ServerReads, Continues, Ends, ServerGoes
      <4>2. CASE ~ReadCommand
        BY <2>2, <2>4, <4>2 DEF Server, Accept, ReadToken, ReadName, ReadSize, ReadData, ReadEnd,
           CountEntries, SendEntries, ReadPick, SendFile, ServerBrokenPipe, UninitialisedCommand,
           Continues, Ends, ServerGoes
      <4> QED  BY <4>1, <4>2
    <3> QED  BY <2>2, <3>1, <3>3, NoUploadKept
  <2> QED  BY <1>3, <2>3, <2>4
<1> QED  BY <1>1, <1>2, <1>3 DEF Next

AbsentUpload ==
    /\ total = 0 /\ cpc # "send"
    /\ spc = "closed" \/ c2s = << >> \/ Taken + Len(c2s) <= 3

AbsentDownload ==
    /\ total = 0 /\ spc # "send"
    /\ cpc = "closed" \/ s2c = << >> \/ Read + Len(s2c) <= entries + 1

AbsentOK ==
    ~order.there => (Uploading => AbsentUpload) /\ (Downloading => AbsentDownload)

\* Only an accepted upload and a download have data records read.
LEMMA OnlyReceiversCount ==
    ASSUME [Next]_vars
    PROVE  UNCHANGED <<target, total>> \/ ReceiveData \/ ReadData
<1>1. CASE \/ Launch /\ UNCHANGED transferVars
           \/ UNCHANGED vars \/ SourceChanges \/ DirectoryChanges \/ ClientCrash \/ ServerCrash
  BY <1>1 DEF vars, transferVars, SourceChanges, DirectoryChanges, ClientCrash, ServerCrash, fileVars
<1>2. CASE Client
  BY <1>2 DEF Client, LinkS, SendHeader, StatFile, SendChunk, CloseFile, BrokenPipe, fileVars, Expect,
     SendDownload, ReadCount, ReadEntry, PickName, ReadFileSize, ReceiveEnd, Quit
<1>3. CASE Server \/ UninitialisedCommand
  BY <1>3 DEF Server, Accept, ReadCommand, ReadToken, ReadName, ReadSize, ReadEnd, fileVars, Expect,
     CountEntries, SendEntries, ReadPick, SendFile, ServerBrokenPipe, UninitialisedCommand
<1> QED  BY <1>1, <1>2, <1>3 DEF Next

LEMMA StepAbsentUpload ==
    ASSUME UploadInv, UploadInv', ~order.there, Uploading, Uploading', AbsentUpload, [Next]_vars
    PROVE  AbsentUpload'
<1> USE DEF fixedVars, fileVars, listVars
<1>1. /\ UploadOK /\ c2s \in Seq(Records) /\ Len(c2s) \in Nat
      /\ order.mode = "upload" /\ Taken \in 0..4
      /\ cpc \in {"idle", "upload", "stat", "closed"}
  BY UploadFacts DEF UploadOK, AbsentUpload, Taken
<1>2. UNCHANGED order
  BY StillAsItWas DEF UploadInv
<1>3. total' = 0
  <2>1. ~ReceiveData
    BY <1>1 DEF ReceiveData, ClientGoes
  <2>2. ~ReadData
    <3>1. SUFFICES ASSUME ReadData PROVE FALSE
      OBVIOUS
    <3>2. spc = "data" /\ c2s # << >> /\ Taken = 4
      BY <3>1 DEF ReadData, ServerReads, Ends, Continues, ServerGoes, Taken
    <3> QED  BY <1>1, <3>2 DEF AbsentUpload
  <2> QED  BY <2>1, <2>2, OnlyReceiversCount DEF AbsentUpload
<1>4. cpc' # "send"
  <2>1. CASE Client
    <3>1. \/ LinkS \/ SendHeader \/ StatFile \/ BrokenPipe
      BY <1>1, <2>1 DEF Client, SendChunk, CloseFile, SendDownload, ReadCount, ReadEntry, PickName,
         ReadFileSize, ReceiveData, ReceiveEnd, Quit, ClientGoes
    <3> QED  BY <1>1, <3>1 DEF LinkS, SendHeader, StatFile, BrokenPipe, ClientGoes
  <2>2. CASE Server \/ UninitialisedCommand
    <3>1. cpc' = cpc
      BY <2>2 DEF Server, Accept, ReadCommand, ReadToken, ReadName, ReadSize, ReadData, ReadEnd,
         CountEntries, SendEntries, ReadPick, SendFile, ServerBrokenPipe, UninitialisedCommand,
         serverFrame
    <3> QED  BY <3>1 DEF AbsentUpload
  <2>3. CASE \/ Launch /\ UNCHANGED transferVars
             \/ UNCHANGED vars \/ SourceChanges \/ DirectoryChanges \/ ClientCrash \/ ServerCrash
    <3>1. cpc' \in {cpc, "closed"}
      BY <2>3 DEF vars, transferVars, SourceChanges, DirectoryChanges, ClientCrash, ServerCrash
    <3> QED  BY <3>1 DEF AbsentUpload
  <2> QED  BY <2>1, <2>2, <2>3 DEF Next
<1>5. CASE cpc' # "closed" /\ spc' # "closed"
  <2>1. /\ UnderWay' /\ Put' \in {0, 3} /\ c2s' \in Seq(Records) /\ Len(c2s') \in Nat
        /\ Taken' \in 0..4
    BY <1>4, <1>5, LenProperties
    DEF UploadInv, UploadOK, Put, Taken, TypeInv, TypeOK
  <2>2. PICK h \in 0..4 - Taken', to \in 0..Len(before'.source) : Flowing(h, to)'
    BY <2>1 DEF UnderWay
  <2>3. (Taken + h = Put)' /\ ((Taken + h < 4)' => Len(c2s') = h)
    BY <1>5, <2>2 DEF Flowing
  <2>4. PICK taken \in 0..4, put \in {0, 3} : Taken' = taken /\ Put' = put
    BY <2>1
  <2>5. taken + h = put /\ h \in 0..4 - taken /\ Len(c2s') = h
    <3>1. taken + h = put /\ (taken + h < 4 => Len(c2s') = h) /\ h \in 0..4 - taken
      BY <2>3, <2>4
    <3> QED  BY <2>4, <3>1
  <2>6. taken + Len(c2s') <= 3
    BY <2>4, <2>5
  <2> QED  BY <1>3, <1>4, <2>4, <2>6 DEF AbsentUpload
<1>6. CASE spc' = "closed"
  BY <1>3, <1>4, <1>6 DEF AbsentUpload
<1>7. CASE cpc' = "closed" /\ spc' # "closed"
  <2>1. spc # "closed" /\ spc' \in {"idle", "command", "token", "name", "size", "data"}
    BY <1>7 DEF UploadInv, UploadOK, Next, vars, transferVars, SourceChanges, DirectoryChanges,
       ClientCrash, ServerCrash,
       Client, LinkS, SendHeader, StatFile, SendChunk, CloseFile, BrokenPipe, SendDownload, ReadCount,
       ReadEntry, PickName, ReadFileSize, ReceiveData, ReceiveEnd, Quit, ClientGoes,
       Server, Accept, ReadCommand, ReadToken, ReadName, ReadSize, ReadData, ReadEnd,
       CountEntries, SendEntries, ReadPick, SendFile, ServerBrokenPipe, UninitialisedCommand,
       ServerGoes, Ends, Continues
  <2>2. c2s = << >> \/ Taken + Len(c2s) <= 3
    BY <2>1 DEF AbsentUpload
  <2>3. CASE Client \/ ClientCrash
    <3>1. spc' = spc /\ (c2s' = c2s \/ \E n \in 0..Len(c2s) : c2s' = SubSeq(c2s, 1, n))
      <4>1. CASE ClientCrash
        BY <4>1 DEF ClientCrash
      <4>2. CASE Client
        <5>1. \/ StatFile \/ UNCHANGED <<spc, c2s>>
          BY <1>1, <1>7, <4>2 DEF Client, LinkS, SendHeader, SendChunk, CloseFile, BrokenPipe,
             SendDownload, ReadCount, ReadEntry, PickName, ReadFileSize, ReceiveData, ReceiveEnd, Quit,
             ClientGoes
        <5>2. CASE StatFile
          <6>1. c2s' = c2s \o << >> \/ c2s' = c2s
            BY <5>2 DEF StatFile, ClientSends
          <6>2. c2s \o << >> = c2s /\ spc' = spc
            BY <1>1, <5>2, ConcatEmptySeq DEF StatFile
          <6> QED  BY <6>1, <6>2
        <5> QED  BY <5>1, <5>2
      <4> QED  BY <2>3, <4>1, <4>2
    <3>2. Taken' = Taken
      BY <3>1 DEF Taken
    <3>3. c2s' = << >> \/ Taken + Len(c2s') <= 3
      <4>1. ASSUME NEW n \in 0..Len(c2s), c2s' = SubSeq(c2s, 1, n)
            PROVE  Len(c2s') = n /\ (n = 0 => c2s' = << >>)
        <5>1. Len(SubSeq(c2s, 0 + 1, n)) = n - 0 /\ SubSeq(c2s, 0 + 1, n) \in Seq(Records)
          BY <1>1, SliceFacts
        <5> QED  BY <4>1, <5>1, EmptySeq
      <4>2. CASE c2s = << >>
        <5>1. Len(c2s) = 0
          BY <4>2
        <5> QED  BY <3>1, <4>1, <4>2, <5>1
      <4>3. CASE c2s # << >>
        <5>1. PICK taken \in 0..4, k \in Nat : taken = Taken /\ k = Len(c2s) /\ taken + k <= 3
          BY <1>1, <2>2, <4>3
        <5>2. \A n \in 0..k : taken + n <= 3
          BY <5>1
        <5> QED  BY <3>1, <4>1, <5>1, <5>2
      <4> QED  BY <4>2, <4>3
    <3> QED  BY <1>3, <1>4, <3>2, <3>3 DEF AbsentUpload
  <2>4. CASE Server \/ UninitialisedCommand
    <3>1. c2s' = c2s \/ (c2s # << >> /\ c2s' = Tail(c2s))
      BY <2>4 DEF Server, Accept, ReadCommand, ReadToken, ReadName, ReadSize, ReadData, ReadEnd,
         CountEntries, SendEntries, ReadPick, SendFile, ServerBrokenPipe, UninitialisedCommand,
         ServerReads, ServerAtEnd
    <3>2. CASE c2s' = << >>
      BY <1>3, <1>4, <3>2 DEF AbsentUpload
    <3>3. CASE c2s' # << >>
      <4>1. c2s # << >> /\ Taken + Len(c2s) <= 3
        BY <2>2, <3>1, <3>3
      <4>2. \/ Accept
            \/ c2s' = Tail(c2s) /\ (ReadCommand \/ ReadToken \/ ReadName \/ ReadSize)
        BY <1>1, <2>1, <2>4, <4>1 DEF UploadOK, Taken, Server, CountEntries, SendEntries, ReadPick,
           SendFile, ServerBrokenPipe, UninitialisedCommand, ReadCommand, ReadToken, ReadName, ReadSize,
           ReadData, ReadEnd, ServerReads, ServerAtEnd, ServerGoes, Ends, Continues
      <4>3. CASE Accept
        BY <1>3, <1>4, <4>1, <4>3 DEF Accept, ServerGoes, AbsentUpload, Taken
      <4>4. CASE c2s' = Tail(c2s) /\ (ReadCommand \/ ReadToken \/ ReadName \/ ReadSize)
        <5>1. Taken' \in {0, Taken + 1}
          <6>1. CASE ReadCommand
            BY <2>1, <6>1 DEF ReadCommand, Taken, Continues, Ends, ServerGoes
          <6>2. CASE ReadToken \/ ReadName \/ ReadSize
            BY <6>2 DEF ReadToken, ReadName, ReadSize, Taken, Continues, ServerGoes
          <6> QED  BY <4>4, <6>1, <6>2
        <5>2. Len(c2s') = Len(c2s) - 1
          BY <1>1, <4>1, <4>4, TailFacts
        <5>3. Taken' + Len(c2s') <= 3
          <6>1. PICK taken \in 0..4, k \in Nat : taken = Taken /\ k = Len(c2s) /\ taken + k <= 3
            BY <1>1, <4>1
          <6>2. taken + 1 + (k - 1) <= 3 /\ 0 + (k - 1) <= 3
            BY <6>1
          <6> QED  BY <5>1, <5>2, <6>1, <6>2
        <5> QED  BY <1>3, <1>4, <5>3 DEF AbsentUpload
      <4> QED  BY <4>2, <4>3, <4>4
    <3> QED  BY <3>2, <3>3
  <2>5. CASE \/ Launch /\ UNCHANGED transferVars
             \/ UNCHANGED vars \/ SourceChanges \/ DirectoryChanges
    <3>1. UNCHANGED <<spc, c2s>>
      BY <2>5 DEF vars, transferVars, SourceChanges, DirectoryChanges
    <3> QED  BY <1>3, <1>4, <2>2, <3>1 DEF AbsentUpload, Taken
  <2>6. CASE ServerCrash
    BY <2>1, <2>6 DEF ServerCrash
  <2> QED  BY <2>3, <2>4, <2>5, <2>6 DEF Next
<1> QED  BY <1>5, <1>6, <1>7

LEMMA StepAbsentDownload ==
    ASSUME DownloadInv, DownloadInv', ~order.there, Downloading, Downloading', AbsentDownload,
           [Next]_vars
    PROVE  AbsentDownload'
<1> USE DEF fixedVars, fileVars, listVars
<1>1. /\ DownloadOK /\ s2c \in Seq(Records) /\ Len(s2c) \in Nat
      /\ entries \in Nat /\ entries' = entries /\ left \in Nat
      /\ cpc # "closed" => Coming /\ Read \in Nat
  BY DownloadFacts DEF Downloading
<1>2. UNCHANGED order
  BY StillAsItWas DEF DownloadInv
<1>3. CASE cpc = "data" /\ s2c # << >>
  <2>1. Read = entries + 2 /\ Len(s2c) >= 1
    BY <1>1, <1>3, TailFacts DEF Read
  <2>2. Read + Len(s2c) <= entries + 1
    BY <1>3 DEF AbsentDownload
  <2> QED  BY <1>1, <2>1, <2>2
<1>4. CASE ~(cpc = "data" /\ s2c # << >>)
  <2>1. total' = 0
    <3>1. ~ReceiveData
      BY <1>4 DEF ReceiveData, ClientReads, ClientGoes
    <3>2. ~ReadData
      BY <1>1 DEF DownloadOK, ReadData, Ends, Continues, ServerGoes
    <3> QED  BY <3>1, <3>2, OnlyReceiversCount DEF AbsentDownload
  <2>2. spc' # "send"
    <3>1. CASE Server \/ UninitialisedCommand
      BY <3>1 DEF AbsentDownload, Server, Accept, ReadCommand, ReadToken, ReadName, ReadSize, ReadData,
         ReadEnd, CountEntries, SendEntries, ReadPick, SendFile, ServerBrokenPipe,
         UninitialisedCommand, Ends, Continues, ServerGoes
    <3>2. CASE Client
      <4>1. spc' = spc
        BY <3>2 DEF Client, LinkS, SendHeader, StatFile, SendChunk, CloseFile, BrokenPipe, SendDownload,
           ReadCount, ReadEntry, PickName, ReadFileSize, ReceiveData, ReceiveEnd, Quit
      <4> QED  BY <4>1 DEF AbsentDownload
    <3>3. CASE \/ Launch /\ UNCHANGED transferVars
               \/ UNCHANGED vars \/ SourceChanges \/ DirectoryChanges \/ ClientCrash \/ ServerCrash
      <4>1. spc' \in {spc, "closed"}
        BY <3>3 DEF vars, transferVars, SourceChanges, DirectoryChanges, ClientCrash, ServerCrash
      <4> QED  BY <4>1 DEF AbsentDownload
    <3> QED  BY <3>1, <3>2, <3>3 DEF Next
  <2>3. CASE cpc' = "closed" \/ s2c' = << >>
    BY <2>1, <2>2, <2>3 DEF AbsentDownload
  <2>4. CASE cpc' # "closed" /\ spc' # "closed"
    <3>1. /\ Coming' /\ Read' \in Nat /\ Listed' \in 0..entries' + 1 /\ spc' # "closed"
          /\ Len(s2c') \in Nat
      <4>1. DownloadOK' /\ TypeInv'
        BY DEF DownloadInv
      <4>2. Coming' /\ s2c' \in Seq(Records) /\ entries' \in Nat /\ left' \in Nat
        BY <2>4, <4>1 DEF DownloadOK, TypeInv, TypeOK
      <4>3. Read' \in Nat
        BY <4>1, <4>2 DEF Coming, Read
      <4>4. spc' \in {"idle", "command", "list", "names", "pick"}
        BY <2>2, <2>4, <4>1 DEF DownloadOK
      <4>5. Listed' \in 0..entries' + 1
        BY <4>2, <4>4 DEF Listed
      <4> QED  BY <2>4, <4>2, <4>3, <4>5, LenProperties
    <3>2. PICK h \in 0..entries' + 2 - Read', to \in 0..Len(before'.source) : Listened(h, to)'
      BY <3>1 DEF Coming, Streaming
    <3>3. (Read + h = Listed)' /\ ((Read + h < entries + 2)' => Len(s2c') = h)
      BY <3>1, <3>2 DEF Listened
    <3>4. PICK read \in Nat, n \in Nat : Read' = read /\ entries' = n
      BY <1>1, <3>1
    <3>5. h \in 0..n + 2 - read /\ read + h <= n + 1 /\ Len(s2c') = h
      <4>1. Listed' <= n + 1 /\ read + h = Listed' /\ h \in 0..n + 2 - read
        BY <3>1, <3>2, <3>3, <3>4
      <4>2. h \in Nat /\ read + h < n + 2
        BY <3>1, <3>4, <4>1
      <4> QED  BY <3>3, <3>4, <4>1, <4>2
    <3> QED  BY <2>1, <2>2, <3>4, <3>5 DEF AbsentDownload
  <2>5. CASE cpc' # "closed" /\ spc' = "closed" /\ s2c' # << >>
    <3>1. SUFFICES s2c' # << >> => Read' + Len(s2c') <= entries' + 1
      BY <2>1, <2>2, <2>5 DEF AbsentDownload
    <3>2. cpc # "closed"
      BY <2>5 DEF Next, vars, transferVars, SourceChanges, DirectoryChanges, ClientCrash, ServerCrash,
         Client, LinkS, SendHeader, StatFile, SendChunk, CloseFile, BrokenPipe, SendDownload, ReadCount,
         ReadEntry, PickName, ReadFileSize, ReceiveData, ReceiveEnd, Quit, ClientGoes, serverFrame,
         Server, Accept, ReadCommand, ReadToken, ReadName, ReadSize, ReadData, ReadEnd, CountEntries,
         SendEntries, ReadPick, SendFile, ServerBrokenPipe, UninitialisedCommand
    <3>3. CASE UNCHANGED <<cpc, left, s2c>>
      <4>1. Read' = Read
        BY <1>1, <3>3 DEF Read
      <4> QED  BY <1>1, <2>5, <3>2, <3>3, <4>1 DEF AbsentDownload
    <3>4. CASE Client
      <4>1. LinkS \/ SendDownload \/ ReadCount \/ ReadEntry \/ PickName \/ ReadFileSize
        <5>1. cpc \in {"idle", "download", "count", "entries", "size", "data"}
          BY <1>1, <3>2 DEF DownloadOK
        <5>2. ~ReceiveData /\ ~ReceiveEnd
          BY <1>4, <2>5 DEF ReceiveData, ReceiveEnd, ClientReads, ClientGoes
        <5> QED  BY <3>4, <5>1, <5>2 DEF Client, SendHeader, StatFile, SendChunk, CloseFile, BrokenPipe,
                 Quit, ClientGoes
      <4>2. s2c # << >> /\ Read + Len(s2c) <= entries + 1 /\ Len(s2c) >= 1
        <5>1. s2c # << >>
          BY <2>5, <4>1 DEF LinkS, SendDownload, ReadCount, ReadEntry, PickName, ReadFileSize,
             ClientReads, ClientAtEnd
        <5> QED  BY <1>1, <3>2, <5>1, TailFacts DEF AbsentDownload
      <4>3. CASE LinkS \/ SendDownload \/ PickName
        <5>1. s2c' = s2c /\ Read' = Read
          <6>1. CASE LinkS \/ SendDownload
            BY <2>5, <6>1 DEF LinkS, SendDownload, ClientGoes, Read, Downloading
          <6>2. CASE PickName
            BY <1>1, <6>2 DEF PickName, ClientGoes, Read
          <6> QED  BY <4>3, <6>1, <6>2
        <5> QED  BY <1>1, <4>2, <5>1
      <4>4. CASE ReadCount \/ ReadEntry
        <5>1. ClientReads /\ cpc \in {"count", "entries"}
          BY <2>5, <4>4 DEF ReadCount, ReadEntry, ClientAtEnd, ClientGoes
        <5>2. Len(s2c') = Len(s2c) - 1
          BY <1>1, <4>2, <5>1, TailFacts DEF ClientReads
        <5>3. Read' = Read + 1
          <6>1. CASE ReadCount
            <7>1. /\ cpc = "count" /\ cpc' = "entries" /\ left' = Head(s2c).n /\ Read = 0
              BY <4>2, <6>1 DEF ReadCount, ClientGoes, ClientAtEnd, Read
            <7>2. PICK h \in 0..entries + 2 - Read, to \in 0..Len(before.source) : Listened(h, to)
              BY <1>1, <3>2 DEF Coming, Streaming
            <7>3. IsListed(Head(s2c), Read + 1, entries, Size)
              BY <4>2, <7>1, <7>2, ListReady
            <7>4. Head(s2c).n = entries
              BY <7>1, <7>3 DEF IsListed, ListKind
            <7> QED  BY <1>1, <7>1, <7>4 DEF Read
          <6>2. CASE ReadEntry
            BY <1>1, <6>2 DEF ReadEntry, Read
          <6> QED  BY <4>4, <6>1, <6>2
        <5>4. PICK read \in Nat, n \in Nat, k \in Nat : read = Read /\ n = entries /\ k = Len(s2c)
          BY <1>1, <3>2
        <5>5. read + 1 + (k - 1) <= n + 1
          BY <4>2, <5>4
        <5> QED  BY <1>1, <5>2, <5>3, <5>4, <5>5
      <4>5. CASE ReadFileSize
        <5>1. Read = entries + 1
          BY <4>5 DEF ReadFileSize, ClientGoes, Read
        <5> QED  BY <1>1, <4>2, <5>1
      <4> QED  BY <4>1, <4>3, <4>4, <4>5
    <3>5. CASE Server \/ UninitialisedCommand
      <4>1. cpc' = cpc /\ left' = left /\ s2c' = s2c
        BY <2>5, <3>5 DEF Server, Accept, ReadCommand, ReadToken, ReadName, ReadSize, ReadData, ReadEnd,
           CountEntries, SendEntries, ReadPick, SendFile, ServerBrokenPipe, UninitialisedCommand,
           serverFrame, Ends, Continues, ServerGoes
      <4> QED  BY <3>3, <4>1
    <3>6. CASE \/ Launch /\ UNCHANGED transferVars
               \/ UNCHANGED vars \/ SourceChanges \/ DirectoryChanges \/ ServerCrash
      BY <3>3, <3>6 DEF vars, transferVars, SourceChanges, DirectoryChanges, ServerCrash
    <3>7. CASE ClientCrash
      BY <2>5, <3>7 DEF ClientCrash
    <3> QED  BY <3>4, <3>5, <3>6, <3>7 DEF Next
  <2> QED  BY <2>3, <2>4, <2>5
<1> QED  BY <1>3, <1>4

LEMMA StepAbsent ==
    ASSUME UploadInv, UploadInv', DownloadInv, DownloadInv', AbsentOK, [Next]_vars
    PROVE  AbsentOK'
<1>1. UNCHANGED order /\ (Uploading' => Uploading) /\ (Downloading' => Downloading)
  BY StillAsItWas DEF UploadInv, fixedVars
<1> QED  BY <1>1, StepAbsentUpload, StepAbsentDownload DEF AbsentOK

CopyInv ==
    UploadInv /\ DownloadInv /\ UnusedInv /\ TurnInv /\ ServesDownload /\ AbsentOK

LEMMA InitCopy == Init => CopyInv
<1> SUFFICES ASSUME Init PROVE CopyInv
  OBVIOUS
<1>1. c2s = << >> /\ Len(c2s) = 0
  BY EmptySeq DEF Init
<1>2. ServesDownload /\ AbsentOK
  BY <1>1, EmptySeq DEF Init, ServesDownload, NoUpload, AbsentOK, AbsentUpload, AbsentDownload
<1> QED  BY <1>2, InitUpload, InitDownload, InitUnused, InitTurns DEF CopyInv

LEMMA StepCopy ==
    ASSUME CopyInv, [Next]_vars
    PROVE  CopyInv'
BY StepUpload, StepDownload, StepUnused, StepTurns, StepServes, StepAbsent DEF CopyInv

\* What is stored while nobody meddles is what the contract stores, and a refused
\* request stores nothing whoever meddles.
FrontIsThere ==
    /\ ~Spoilt => total \in 0..Len(Sent) /\ target = Contract!Front(total)
    /\ ~Granted => total = 0 /\ target = before.target

\* A receiver that is through without a disturbance has everything.
ThroughHasAll == ~disturbed /\ ReceiverIsThrough => Contract!Enough(total)

LEMMA StoredUnlessSpoilt ==
    ASSUME CopyInv
    PROVE  FrontIsThere
<1>0. ~Granted => total = 0 /\ target = before.target
  <2>1. order \in Orders
    BY DEF CopyInv, UploadInv, TypeInv, TypeOK
  <2>2. ~Granted => Unused
    BY <2>1, TransferAssumption DEF Orders, Unused, Granted
  <2> QED  BY <2>2 DEF CopyInv, UnusedInv, UnusedOK
<1> SUFFICES ASSUME ~Spoilt
             PROVE  total \in 0..Len(Sent) /\ target = Contract!Front(total)
  BY <1>0 DEF FrontIsThere
<1>1. /\ TypeInv /\ Histories /\ order \in Orders /\ source = before.source /\ entries = MaxEntries
      /\ Len(before.source) \in Nat /\ Len(before.target) \in Nat /\ total \in Nat
      /\ before.source \in Seq(Bytes) /\ before.target \in Seq(Bytes)
  BY LenProperties DEF CopyInv, UploadInv, TypeInv, TypeOK, Histories, Spoilt
<1>2. Uploading \/ Downloading \/ Unused
  BY <1>1, TransferAssumption DEF Orders, Uploading, Downloading, Unused
<1>3. Laid /\ total <= Len(before.source) /\ (Unused => total = 0)
  <2>1. CASE Uploading
    BY <1>1, <2>1 DEF CopyInv, UploadInv, UploadOK, Uploading, Unused
  <2>2. CASE Downloading
    BY <1>1, <2>2 DEF CopyInv, DownloadInv, DownloadOK, Downloading, Unused
  <2>3. CASE Unused
    <3>1. total = 0 /\ target = before.target
      BY <2>3 DEF CopyInv, UnusedInv, UnusedOK
    <3> QED  BY <1>1, <3>1 DEF Laid
  <2> QED  BY <1>2, <2>1, <2>2, <2>3
<1>4. ~order.there => total = 0
  <2>1. ASSUME ~order.there, Uploading \/ Downloading PROVE total = 0
    BY <2>1 DEF CopyInv, AbsentOK, AbsentUpload, AbsentDownload
  <2> QED  BY <1>2, <1>3, <2>1
<1>5. target = Overlaid(total)
  BY <1>1, <1>3, LaidIsOverlaid
<1>6. total \in 0..Len(Sent)
  BY <1>1, <1>3, <1>4 DEF Sent
<1>7. Overlaid(total) = Contract!Front(total)
  <2> DEFINE bytes == SubSeq(before.source, 1, total)
             old == before.target
  <2>1. bytes \in Seq(Bytes) /\ Len(bytes) = total
    <3>1. SubSeq(before.source, 0 + 1, total) \in Seq(Bytes)
          /\ Len(SubSeq(before.source, 0 + 1, total)) = total - 0
      BY <1>1, <1>3, SliceFacts
    <3> QED  BY <1>1, <3>1
  <2>2. SubSeq(Sent, 1, total) = bytes
    <3>1. CASE order.there
      BY <3>1 DEF Sent
    <3>2. CASE ~order.there
      <4>1. \A q : SubSeq(q, 1, 0) = << >>
        BY SubSeqEmpty
      <4> QED  BY <1>4, <3>2, <4>1 DEF Sent
    <3> QED  BY <3>1, <3>2
  <2>3. SubSeq(old, 1, 0) = << >>
    BY SubSeqEmpty
  <2> DEFINE rest == SubSeq(old, total + 1, Len(old))
  <2>4. Overlaid(total) = SubSeq(old, 1, 0) \o bytes \o SubSeq(old, 0 + Len(bytes) + 1, Len(old))
    BY DEF Overlaid, Overlay
  <2>5. 0 + Len(bytes) + 1 = total + 1
    BY <1>1, <2>1
  <2>6. Contract!Front(total) = bytes \o rest
    BY <2>2 DEF Contract!Front
  <2> HIDE DEF bytes, old
  <2>7. << >> \o bytes = bytes
    BY <2>1, ConcatEmptySeq
  <2> QED  BY <2>3, <2>4, <2>5, <2>6, <2>7
<1> QED  BY <1>5, <1>6, <1>7

LEMMA ThroughIsWhole ==
    ASSUME CopyInv
    PROVE  ThroughHasAll
<1> SUFFICES ASSUME ~disturbed, ReceiverIsThrough, Granted, Len(Sent) < Modulus
             PROVE  total = Len(Sent)
  BY DEF ThroughHasAll, Contract!Enough
<1>1. ~Spoilt
  BY DEF CopyInv, UploadInv, Histories, Spoilt
<1>2. CASE order.there
  <2>1. Sent = before.source
    BY <1>2 DEF Sent
  <2>2. CASE order.mode = "upload"
    <3>1. Uploading /\ Undisturbed("upload") /\ spc = "closed"
      BY <1>1, <1>2, <2>1, <2>2
      DEF Uploading, Undisturbed, Granted, Spoilt, ReceiverIsThrough
    <3> QED  BY <2>1, <3>1 DEF CopyInv, UploadInv, UploadOK
  <2>3. CASE order.mode = "download"
    <3>1. Downloading /\ Undisturbed("download") /\ cpc = "closed"
      BY <1>1, <1>2, <2>1, <2>3
      DEF Downloading, Undisturbed, Granted, Spoilt, ReceiverIsThrough
    <3> QED  BY <2>1, <3>1 DEF CopyInv, DownloadInv, DownloadOK
  <2> QED  BY <2>2, <2>3 DEF Granted
<1>3. CASE ~order.there
  <2>1. Sent = << >> /\ Len(Sent) = 0
    BY <1>3 DEF Sent
  <2> QED  BY <1>1, <2>1, StoredUnlessSpoilt DEF FrontIsThere
<1> QED  BY <1>2, <1>3

\* Whatever happens, the count does not fall, and the end is the end.
LEMMA OnlyForward ==
    ASSUME CopyInv, [Next]_vars
    PROVE  /\ total \in Nat /\ total' \in Nat /\ total' >= total
           /\ ReceiverIsThrough => ReceiverIsThrough' /\ UNCHANGED <<target, total>>
           /\ UNCHANGED fixedVars
           /\ disturbed \in BOOLEAN /\ disturbed' \in BOOLEAN /\ (disturbed => disturbed')
           /\ disturbed' # disturbed => UNCHANGED <<target, total>>
           /\ Spoilt => disturbed
           /\ Spoilt' # Spoilt =>
                /\ ~disturbed /\ disturbed' /\ UNCHANGED <<target, total>>
                /\ (ReceiverIsThrough' <=> ReceiverIsThrough)
<1>1. TypeInv /\ TypeInv' /\ Histories /\ UNCHANGED fixedVars /\ Histories'
  BY StepType, StillAsItWas DEF CopyInv, UploadInv
<1>2. /\ disturbed \in BOOLEAN /\ disturbed' \in BOOLEAN /\ total \in Nat /\ total' \in Nat
      /\ (Spoilt => disturbed)
  BY <1>1 DEF TypeInv, TypeOK, Histories, Spoilt
<1>3. CASE SourceChanges \/ DirectoryChanges
  <2>1. ~disturbed /\ disturbed' /\ UNCHANGED <<target, total, cpc, spc, order>>
    BY <1>3 DEF SourceChanges, DirectoryChanges, fileVars, fixedVars
  <2> QED  BY <1>1, <1>2, <2>1 DEF ReceiverIsThrough
<1>4. CASE ClientCrash \/ ServerCrash
  <2>1. /\ disturbed' /\ UNCHANGED <<target, total, order, before, source, entries>>
        /\ cpc' \in {cpc, "closed"} /\ spc' \in {spc, "closed"}
    BY <1>4 DEF ClientCrash, ServerCrash, fileVars, fixedVars, listVars
  <2> QED  BY <1>1, <1>2, <2>1 DEF ReceiverIsThrough, Spoilt
<1>5. CASE (Launch /\ UNCHANGED transferVars) \/ UNCHANGED vars
  <2>1. UNCHANGED <<target, total, order, before, source, entries, cpc, spc, disturbed>>
    BY <1>5 DEF vars, transferVars, fileVars, fixedVars, listVars
  <2> QED  BY <1>1, <1>2, <2>1 DEF ReceiverIsThrough, Spoilt
<1>6. CASE Client \/ Server \/ UninitialisedCommand
  <2>1. UNCHANGED <<order, before, disturbed, source, entries>>
    BY <1>6, ProcessesDoNotDisturb
  <2>2. (cpc = "closed" => cpc' = "closed") /\ (spc = "closed" => spc' = "closed")
    <3>1. CASE Client
      BY <3>1 DEF Client, LinkS, SendHeader, StatFile, SendChunk, CloseFile, BrokenPipe, SendDownload,
         ReadCount, ReadEntry, PickName, ReadFileSize, ReceiveData, ReceiveEnd, Quit, ClientGoes
    <3>2. CASE Server \/ UninitialisedCommand
      BY <3>2 DEF Server, Accept, ReadCommand, ReadToken, ReadName, ReadSize, ReadData, ReadEnd,
         CountEntries, SendEntries, ReadPick, SendFile, ServerBrokenPipe, UninitialisedCommand,
         serverFrame, ServerGoes, Ends, Continues
    <3> QED  BY <1>6, <3>1, <3>2
  <2>3. CASE UNCHANGED <<target, total>>
    BY <1>1, <1>2, <2>1, <2>2, <2>3 DEF ReceiverIsThrough, Spoilt
  <2>4. CASE ReceiveData
    <3>1. cpc = "data" /\ ClientReads /\ Receive(FileBytes(Head(s2c)))
      BY <2>4 DEF ReceiveData, ClientGoes
    <3>2. order.mode = "download"
      BY <3>1 DEF CopyInv, TurnInv
    <3>3. total' >= total
      <4>1. FileBytes(Head(s2c)) \in Seq(Bytes \cup {Junk})
        <5>1. Head(s2c).data \in Seq(Bytes \cup {Junk})
          BY <1>1, <3>1, ReadTypes DEF TypeInv, TypeOK, ClientReads
        <5> QED  BY <5>1, JunkType DEF FileBytes
      <4>2. Len(FileBytes(Head(s2c))) \in Nat
        BY <4>1, LenProperties
      <4> QED  BY <1>2, <3>1, <4>2 DEF Receive
    <3> QED  BY <1>1, <1>2, <2>1, <2>2, <3>1, <3>2, <3>3 DEF ReceiverIsThrough, Spoilt
  <2>5. CASE ReadData
    <3>1. spc = "data" /\ ServerReads /\ Receive(Head(c2s).data)
      BY <2>5 DEF ReadData, Ends, Continues, ServerGoes
    <3>2. order.mode = "upload"
      <4>1. order.mode # "download"
        BY <3>1 DEF CopyInv, ServesDownload
      <4>2. order.mode \notin {"none", "quit"}
        BY <3>1 DEF CopyInv, UnusedInv, Unused, UnusedOK
      <4> QED  BY <1>1, <4>1, <4>2, TransferAssumption DEF TypeInv, TypeOK, Orders
    <3>3. total' >= total
      <4>1. Head(c2s).data \in Seq(Bytes \cup {Junk})
        BY <1>1, <3>1, ServerReadTypes
      <4>2. Len(Head(c2s).data) \in Nat
        BY <4>1, LenProperties
      <4> QED  BY <1>2, <3>1, <4>2 DEF Receive
    <3> QED  BY <1>1, <1>2, <2>1, <2>2, <3>1, <3>2, <3>3 DEF ReceiverIsThrough, Spoilt
  <2> QED  BY <2>3, <2>4, <2>5, OnlyReceiversCount
<1> QED  BY <1>3, <1>4, <1>5, <1>6 DEF Next

LEMMA StepCopies ==
    ASSUME CopyInv, FrontIsThere, FrontIsThere', ThroughHasAll', [Next]_vars
    PROVE  [Contract!Next]_(Contract!vars)
<1>1. /\ UNCHANGED <<Sent, Granted, before>> /\ order' = order
      /\ UNCHANGED Contract!asked
  BY OnlyForward DEF fixedVars, Sent, Granted, Contract!asked
<1> USE OnlyForward
<1>2. ReceiverIsThrough \in BOOLEAN /\ ReceiverIsThrough' \in BOOLEAN /\ Spoilt' \in BOOLEAN
  BY DEF ReceiverIsThrough, Spoilt
<1>3. CASE Spoilt' # Spoilt
  <2>1. Contract!Break
    BY <1>1, <1>2, <1>3 DEF Contract!Break, Contract!asked
  <2> QED  BY <2>1 DEF Contract!Next
<1>4. CASE Spoilt /\ Spoilt'
  <2>1. disturbed /\ disturbed' /\ disturbed' = disturbed
    BY <1>4
  <2>2. CASE ReceiverIsThrough
    BY <1>1, <1>2, <1>4, <2>1, <2>2 DEF Contract!vars, Contract!asked
  <2>3. CASE ~ReceiverIsThrough /\ Granted
    <3>1. Contract!Mix
      BY <1>1, <1>2, <1>4, <2>1, <2>3 DEF Contract!Mix, Contract!asked
    <3> QED  BY <3>1 DEF Contract!Next
  <2>4. CASE ~ReceiverIsThrough /\ ~Granted
    <3>1. UNCHANGED <<target, total>>
      BY <1>1, <2>4 DEF FrontIsThere
    <3>2. CASE ReceiverIsThrough' = FALSE
      <4>1. ReceiverIsThrough' = ReceiverIsThrough /\ Spoilt' = Spoilt
        BY <1>2, <1>4, <2>4, <3>2 DEF Spoilt
      <4> QED  BY <1>1, <2>1, <3>1, <4>1 DEF Contract!vars, Contract!asked
    <3>3. CASE ReceiverIsThrough' = TRUE
      <4>1. Contract!End
        BY <1>1, <1>4, <2>1, <2>4, <3>1, <3>3 DEF Contract!End, Contract!asked
      <4> QED  BY <4>1 DEF Contract!Next
    <3> QED  BY <1>2, <3>2, <3>3
  <2> QED  BY <1>2, <2>2, <2>3, <2>4
<1>5. CASE ~Spoilt /\ ~Spoilt'
  <2>1. /\ total \in 0..Len(Sent) /\ target = Contract!Front(total)
        /\ total' \in 0..Len(Sent) /\ target' = Contract!Front(total')
        /\ ~Granted => total = 0 /\ total' = 0
    <3>1. /\ total' \in 0..Len(Sent') /\ target' = Contract!Front(total)'
          /\ ~Granted' => total' = 0
      BY <1>5 DEF FrontIsThere
    <3>2. Contract!Front(total)' = Contract!Front(total')
      BY <1>1 DEF Contract!Front
    <3> QED  BY <1>1, <1>5, <3>1, <3>2 DEF FrontIsThere
  <2>2. ReceiverIsThrough' => disturbed' \/ Contract!Enough(total')
    <3>1. ASSUME ReceiverIsThrough', ~disturbed' PROVE Contract!Enough(total)'
      BY <3>1 DEF ThroughHasAll
    <3>2. Contract!Enough(total)' <=> Contract!Enough(total')
      BY <1>1 DEF Contract!Enough
    <3> QED  BY <3>1, <3>2
  <2>3. CASE total' = total
    <3>1. target' = target
      BY <2>1, <2>3
    <3>2. CASE ReceiverIsThrough' = ReceiverIsThrough
      <4>1. CASE disturbed' = disturbed
        BY <1>1, <1>5, <2>3, <3>1, <3>2, <4>1 DEF Contract!vars, Contract!asked
      <4>2. CASE disturbed' # disturbed
        <5>1. Contract!Break
          BY <1>1, <1>2, <2>3, <3>1, <3>2, <4>2 DEF Contract!Break, Contract!asked
        <5> QED  BY <5>1 DEF Contract!Next
      <4> QED  BY <4>1, <4>2
    <3>3. CASE ReceiverIsThrough' # ReceiverIsThrough
      <4>1. ~ReceiverIsThrough /\ ReceiverIsThrough' = TRUE
        BY <1>2, <3>3
      <4>2. Contract!End
        BY <1>1, <1>5, <2>2, <2>3, <3>1, <4>1 DEF Contract!End, Contract!asked
      <4> QED  BY <4>2 DEF Contract!Next
    <3> QED  BY <3>2, <3>3
  <2>4. CASE total' # total
    <3>1. total' \in total + 1 .. Len(Sent) /\ Granted /\ ~ReceiverIsThrough /\ disturbed' = disturbed
      BY <2>1, <2>4
    <3>2. Contract!Copy
      BY <1>1, <1>2, <1>5, <2>1, <2>2, <3>1 DEF Contract!Copy, Contract!asked
    <3> QED  BY <3>2 DEF Contract!Next
  <2> QED  BY <2>3, <2>4
<1> QED  BY <1>2, <1>3, <1>4, <1>5 DEF Spoilt

\* The launch, the connection and the two processes together implement one copy
\* from the sender's file to the receiver's, for every content, chunk size, modulus
\* and directory: step by step the front of the sender's file only grows, whoever
\* dies; it ends short only after somebody died or changed a file; and neither a
\* refused request nor a receiver that is through writes a byte.
THEOREM TransfersKeepContract == Spec => KeepsCopyContract
<1>1. Init => Contract!Init
  <2> SUFFICES ASSUME Init PROVE Contract!Init
    OBVIOUS
  <2>1. ReceiverIsThrough = FALSE /\ Spoilt = FALSE
    BY DEF Init, ReceiverIsThrough, Spoilt
  <2> QED  BY <2>1 DEF Init, Contract!Init
<1>2. CopyInv /\ [Next]_vars => CopyInv'
  BY StepCopy
<1>3. CopyInv => FrontIsThere /\ ThroughHasAll
  BY StoredUnlessSpoilt, ThroughIsWhole
<1>4. /\ CopyInv /\ FrontIsThere /\ ThroughHasAll
      /\ FrontIsThere' /\ ThroughHasAll' /\ [Next]_vars
      => [Contract!Next]_(Contract!vars)
  BY StepCopies
<1> QED  BY <1>1, <1>2, <1>3, <1>4, InitCopy, PTL DEF Spec, KeepsCopyContract, Contract!Spec

-----------------------------------------------------------------------------
(***************************************************************************)
(* How far parent and child of a launch can be without each other.          *)
(***************************************************************************)
Launched ==
    /\ parent = "begin" => child = "none"
    /\ parent \in {"poll", "open", "opening"} => child \in {"setup", "mkfifo", "opening", "dead"}
    /\ parent = "read" /\ wire => child \in {"accept", "serve", "exited", "dead"}
    /\ parent = "read" /\ ~wire => child \in {"write", "dead"}
    /\ PortKnown => child \in {"accept", "serve", "exited", "dead"}
    /\ parent = "raised" => child \in {"none", "setup", "mkfifo", "opening", "dead"}
    /\ wire => parent = "read"

\* The FIFO leaves neither side of a launch waiting for the other, whatever FIFO of an
\* earlier launch there is, however often it is polled, and whatever the connection
\* does meanwhile: one side hangs only when the other died or raised.
THEOREM LaunchesMeet == Spec => []LaunchMeets
<1>1. Init => Launched
  BY DEF Init, LaunchInit, Launched, PortKnown
<1>2. ASSUME Launched, LaunchOK, [Next]_vars PROVE Launched'
  <2> USE DEF Launched, PortKnown, ParentGoes, ChildGoes
  <2>1. CASE Launch
    <3>1. CASE MakeFifos \/ PollFifo \/ OpenFifo
      BY <1>2, <3>1 DEF MakeFifos, PollFifo, OpenFifo
    <3>2. CASE ReadPort \/ ReturnPort \/ WaitForServer
      BY <1>2, <3>2 DEF ReadPort, ReturnPort, WaitForServer
    <3>3. CASE Rendezvous
      BY <1>2, <3>3 DEF Rendezvous, LaunchOK
    <3>4. CASE Child
      BY <1>2, <3>4 DEF Child, Listen, MakeFifo, WritePort, LaunchOK
    <3> QED  BY <2>1, <3>1, <3>2, <3>3, <3>4 DEF Launch, Parent
  <2>2. CASE Client \/ ClientCrash \/ SourceChanges \/ DirectoryChanges \/ UNCHANGED vars
    <3>1. UNCHANGED launchVars
      BY <2>2 DEF Client, LinkS, SendHeader, StatFile, SendChunk, CloseFile, BrokenPipe, SendDownload,
         ReadCount, ReadEntry, PickName, ReadFileSize, ReceiveData, ReceiveEnd, Quit, ClientCrash,
         SourceChanges, DirectoryChanges, vars
    <3> QED  BY <1>2, <3>1 DEF launchVars
  <2>3. CASE Server \/ UninitialisedCommand \/ ServerCrash
    <3>1. /\ UNCHANGED <<parent, wire>>
          /\ \/ child' \in {child, "dead"}
             \/ child = "accept" /\ child' = "serve"
             \/ child = "serve" /\ child' = "exited"
          /\ child' = "dead" => child # "none"
      BY <1>2, <2>3 DEF LaunchOK, Server, Accept, ReadCommand, ReadToken, ReadName, ReadSize, ReadData,
         ReadEnd, CountEntries, SendEntries, ReadPick, SendFile, ServerBrokenPipe,
         UninitialisedCommand, ServerCrash, serverFrame, Ends, Continues
    <3> QED  BY <1>2, <3>1
  <2> QED  BY <1>2, <2>1, <2>2, <2>3 DEF Next
<1>3. TypeInv => LaunchOK
  BY DEF TypeInv, TypeOK
<1>4. Launched /\ LaunchOK => LaunchMeets
  BY DEF Launched, LaunchOK, PortKnown, LaunchMeets, LaunchIsLeft
<1> QED  BY <1>1, <1>2, <1>3, <1>4, InitType, StepType, PTL DEF Spec
====
