---- MODULE SecftService_proofs ----
(***************************************************************************)
(* Proofs about the SDK server under any requests, in any order, from any   *)
(* number of clients.                                                      *)
(***************************************************************************)
EXTENDS SecftService, SecftServer_proofs

-----------------------------------------------------------------------------
(***************************************************************************)
(* Types, and: only a connection that was made carries requests.            *)
(***************************************************************************)
Carrying(c) == c2s[c] # << >> => sock[c] # "none"

TypeInv == ServerOK /\ \A c \in Conns : Carrying(c)

LEMMA InitType == Init => TypeInv
<1> SUFFICES ASSUME Init PROVE TypeInv
  OBVIOUS
<1>1. \A p \in Paths : p \in DOMAIN InitialFiles => InitialFiles[p] \in Seq(Bytes)
  BY DiskAssumption
<1>2. ServerOK
  BY <1>1, EmptySeq, DiskAssumption DEF Init, ServerInit, SessionsInit, LinkInit, ServerOK
<1>3. \A c \in Conns : Carrying(c)
  BY DEF Init, ServerInit, LinkInit, Carrying
<1> QED  BY <1>2, <1>3 DEF TypeInv

LEMMA ClientType ==
    ASSUME TypeInv, ClientNext
    PROVE  TypeInv'
<1> USE DEF TypeInv
<1>1. ASSUME NEW c \in Conns, ClientConnects(c)
      PROVE  TypeInv'
  BY <1>1 DEF ClientConnects, Connect, ServerOK, Carrying, serverVars, diskVars, readerVars
<1>2. ASSUME NEW c \in Conns, ClientAsks(c)
      PROVE  TypeInv'
  <2>1. PICK m \in Requests[c] : ClientSend(c, m)
    BY <1>2 DEF ClientAsks
  <2>2. m \in Request /\ c2s[c] \in Seq(Request)
    BY <2>1, RequestsAssumption DEF ServerOK
  <2>3. Append(c2s[c], m) \in Seq(Request)
    BY <2>2, AppendProperties
  <2>4. c2s' \in [Conns -> Seq(Request)] /\ UNCHANGED <<sock, cut, s2c>>
    BY <2>1, <2>3 DEF ClientSend, ServerOK
  <2>5. sock[c] # "none" /\ \A d \in Conns \ {c} : c2s'[d] = c2s[d]
    BY <2>1 DEF ClientSend, ServerOK
  <2> QED  BY <1>2, <2>4, <2>5 DEF ClientAsks, ServerOK, Carrying, serverVars, diskVars,
                                   readerVars
<1>3. ASSUME NEW c \in Conns, ClientReads(c)
      PROVE  TypeInv'
  <2>1. s2c' \in [Conns -> Seq(Reply)] /\ UNCHANGED <<sock, cut, c2s>>
    BY <1>3, HeadTailProperties DEF ClientReads, ClientReceive, ServerOK
  <2> QED  BY <1>3, <2>1 DEF ClientReads, ServerOK, Carrying, serverVars, diskVars, readerVars
<1> QED  BY <1>1, <1>2, <1>3 DEF ClientNext

\* The server never makes a request, and never unmakes a connection.
LEMMA ServerCarries ==
    ASSUME TypeInv, ServerNext, NEW c \in Conns
    PROVE  /\ sock[c] # "none" => sock'[c] # "none"
           /\ Carrying(c)'
<1> USE DEF TypeInv, ServerOK
<1>1. sock[c] # "none" => sock'[c] # "none"
  BY ConnectionsStay
<1>2. c2s[c] = << >> => c2s'[c] = << >>
  <2>1. CASE \E d \in Conns : StoreUpload(d)
    <3>1. PICK d \in Conns : StoreUpload(d)
      BY <2>1
    <3> QED  BY <3>1, StoreMoves
  <2>2. CASE ~\E d \in Conns : StoreUpload(d)
    BY <2>2, ServerMoves, SplitFacts DEF NoAnswer, OneAnswer
  <2> QED  BY <2>1, <2>2
<1> QED  BY <1>1, <1>2 DEF Carrying

LEMMA StepType ==
    ASSUME TypeInv, [Next]_serviceVars
    PROVE  TypeInv'
<1>1. CASE ServerNext
  BY <1>1, ServerType, ServerCarries DEF TypeInv
<1>2. CASE UNCHANGED serviceVars
  BY <1>2 DEF TypeInv, ServerOK, Carrying, serviceVars, linkVars, serverVars, diskVars,
              readerVars
<1> QED  BY <1>1, <1>2, ClientType DEF Next

-----------------------------------------------------------------------------
(***************************************************************************)
(* A rejected connection.                                                  *)
(***************************************************************************)
\* The rejected request is still the next one to be read, or nothing can be
\* read any more.
Rejected(c) ==
    /\ sock[c] # "none"
    /\ AtFront(c) \/ (c2s[c] = << >> /\ Broken(c))

\* A short read can turn a request without credentials into one that has them.
Inv == TypeInv /\ \A c \in denied : c \in Conns /\ (mixed[c] = {} => Rejected(c))

LEMMA AppendKeepsFront ==
    ASSUME NEW S, NEW q \in Seq(S), NEW m \in S, q # << >>
    PROVE  /\ Append(q, m) # << >>
           /\ Head(Append(q, m)) = Head(q)
BY AppendProperties, HeadTailAppend

LEMMA ClientRejected ==
    ASSUME TypeInv, ClientNext, NEW c \in Conns, Rejected(c)
    PROVE  Rejected(c)' /\ UNCHANGED diskVars /\ Len(s2c'[c]) <= Len(s2c[c])
<1> USE DEF TypeInv, ServerOK, Rejected, AtFront, Asked, Broken
<1>0. Len(s2c[c]) \in Nat
  BY LenProperties
<1>1. ASSUME NEW d \in Conns, ClientConnects(d)
      PROVE  Rejected(c)' /\ UNCHANGED diskVars /\ s2c' = s2c
  BY <1>1 DEF ClientConnects, Connect, serverVars, diskVars
<1>2. ASSUME NEW d \in Conns, ClientAsks(d)
      PROVE  Rejected(c)' /\ UNCHANGED diskVars /\ s2c' = s2c
  <2>1. PICK m \in Requests[d] : ClientSend(d, m)
    BY <1>2 DEF ClientAsks
  <2>2. m \in Request /\ c2s[c] \in Seq(Request)
    BY <2>1, RequestsAssumption
  <2>3. UNCHANGED <<sock, cut, s2c, diskVars>>
    BY <1>2, <2>1 DEF ClientAsks, ClientSend, serverVars, diskVars
  <2>4. c2s'[c] = c2s[c] \/ (~Broken(c) /\ c2s'[c] = Append(c2s[c], m))
    BY <2>1 DEF ClientSend
  <2>5. c2s[c] # << >> => /\ Append(c2s[c], m) # << >>
                          /\ Head(Append(c2s[c], m)) = Head(c2s[c])
    BY <2>2, AppendKeepsFront
  <2> QED  BY <2>3, <2>4, <2>5
<1>3. ASSUME NEW d \in Conns, ClientReads(d)
      PROVE  Rejected(c)' /\ UNCHANGED diskVars /\ Len(s2c'[c]) <= Len(s2c[c])
  <2>1. s2c[d] # << >> => Len(Tail(s2c[d])) = Len(s2c[d]) - 1 /\ Len(s2c[d]) \in Nat
    BY HeadTailProperties, LenProperties
  <2>2. s2c'[c] = s2c[c] \/ (d = c /\ s2c[d] # << >> /\ s2c'[c] = Tail(s2c[d]))
    BY <1>3 DEF ClientReads, ClientReceive
  <2>3. Len(s2c'[c]) <= Len(s2c[c])
    BY <1>0, <2>1, <2>2
  <2> QED  BY <1>3, <2>3 DEF ClientReads, ClientReceive, serverVars, diskVars
<1> QED  BY <1>0, <1>1, <1>2, <1>3 DEF ClientNext

\* The session at the cursor answers for itself alone.
LEMMA AnswerRejected ==
    ASSUME TypeInv, NEW d \in Conns, AnswerToClient(d), NEW c \in Conns, Rejected(c)
    PROVE  /\ Rejected(c)'
           /\ s2c'[c] = s2c[c]
           /\ d = c => UNCHANGED diskVars
<1> USE DEF TypeInv, ServerOK, Rejected, AtFront, Broken
<1>1. CASE DieOnMissingFile(d)
  BY <1>1 DEF DieOnMissingFile, Die
<1>2. CASE d # c /\ ~DieOnMissingFile(d)
  <2>1. /\ c2s'[c] = c2s[c] /\ s2c'[c] = s2c[c]
    BY <1>2 DEF AnswerToClient, AnswerBroken, AnswerIdle, RejectRequest, StoreUpload,
                RefuseUpload, IgnoreUpload, CheckDownload, SendDownloadPacket, IgnoreDownload,
                Stop, KeepOpen, SendReply, ReadRest
  <2>2. sock'[c] = sock[c] /\ cut' = cut
    BY <1>2 DEF AnswerToClient, AnswerBroken, AnswerIdle, RejectRequest, StoreUpload,
                RefuseUpload, IgnoreUpload, CheckDownload, SendDownloadPacket, IgnoreDownload,
                Stop, KeepOpen, Reads, FrameIsThere, ReadRest, Stamp
  <2> QED  BY <1>2, <2>1, <2>2 DEF Asked
<1>3. CASE d = c /\ ~DieOnMissingFile(d)
  <2>1. ~Reads(c) \/ ~Asked(c).trusted
    BY <1>3 DEF Reads, FrameIsThere
  <2>2. AnswerBroken(c) \/ AnswerIdle(c) \/ ReadRest(c) \/ RejectRequest(c)
    BY <1>3, <2>1 DEF AnswerToClient, StoreUpload, RefuseUpload, IgnoreUpload, CheckDownload,
                      SendDownloadPacket, IgnoreDownload, Wants
  <2>3. CASE AnswerBroken(c)
    BY <1>3, <2>3 DEF AnswerBroken, Stop
  <2>4. CASE AnswerIdle(c)
    BY <1>3, <2>4 DEF AnswerIdle, Stop
  <2>5. CASE RejectRequest(c)
    BY <1>3, <2>5 DEF RejectRequest, Stop
  <2>6. CASE ReadRest(c)
    BY <1>3, <2>6 DEF ReadRest, Stop
  <2> QED  BY <1>3, <2>2, <2>3, <2>4, <2>5, <2>6
<1> QED  BY <1>1, <1>2, <1>3

LEMMA ServerRejected ==
    ASSUME TypeInv, ServerNext, NEW c \in Conns, Rejected(c)
    PROVE  /\ mixed'[c] = {} => Rejected(c)'
           /\ s2c'[c] = s2c[c]
           /\ AtCursor(c) => UNCHANGED diskVars
<1>1. ASSUME NEW d \in Conns, AnswerToClient(d)
      PROVE  /\ Rejected(c)' /\ s2c'[c] = s2c[c]
             /\ AtCursor(c) => UNCHANGED diskVars
  <2>1. AtCursor(d)
    BY <1>1 DEF AnswerToClient, AnswerBroken, AnswerIdle, RejectRequest, StoreUpload,
                RefuseUpload, IgnoreUpload, CheckDownload, SendDownloadPacket, IgnoreDownload,
                DieOnMissingFile, Reads, FrameIsThere, ReadRest, Stamp
  <2>2. AtCursor(c) => d = c
    BY <2>1 DEF AtCursor
  <2> QED  BY <1>1, <2>2, AnswerRejected
<1> USE DEF TypeInv, ServerOK, Rejected, AtFront, Broken, Asked
<1>2. CASE WakeAndLock \/ EraseTimedOut
  BY <1>2 DEF WakeAndLock, EraseTimedOut, linkVars, diskVars
<1>3. CASE Crash \/ Restart
  BY <1>3 DEF Crash, Die, Restart, linkVars, diskVars
<1>4. ASSUME NEW d \in Conns, PassTime(d) \/ CutLink(d) \/ AcceptThread(d)
      PROVE  /\ Rejected(c)' /\ s2c'[c] = s2c[c]
             /\ UNCHANGED diskVars
  BY <1>4 DEF PassTime, CutLink, Cut, AcceptThread, linkVars, serverVars, diskVars, SplitFrame
<1>5. ASSUME NEW d \in Conns, SplitFrame(d)
      PROVE  /\ mixed'[c] = {} => Rejected(c)'
             /\ s2c'[c] = s2c[c] /\ UNCHANGED diskVars
  <2> USE <1>5, SplitFacts DEF diskVars
  <2>1. UNCHANGED <<sock, cut, s2c, diskVars>>
    OBVIOUS
  <2>2. CASE d # c
    BY <2>1, <2>2
  <2>3. CASE d = c
    <3>1. /\ c2s[c] # << >> /\ c2s'[c] # << >> /\ ~Asked(c).trusted
          /\ mixed'[c] = IF Asked(c)'.trusted /\ Asked(c)' # Asked(c)
                         THEN {Asked(c).flags} ELSE mixed[c]
      BY <2>3
    <3> QED  BY <2>1, <3>1
  <2> QED  BY <2>1, <2>2, <2>3
<1> QED  BY <1>1, <1>2, <1>3, <1>4, <1>5 DEF ServerNext, HandleClientsThread, Environment

LEMMA StepInv ==
    ASSUME Inv, [Next]_serviceVars
    PROVE  /\ Inv'
           /\ \A c \in denied : mixed[c] = {} => /\ Len(s2c'[c]) <= Len(s2c[c])
                                                 /\ AtCursor(c) => UNCHANGED diskVars
<1>1. TypeInv'
  BY StepType DEF Inv
<1>2. \A c \in Conns : Len(s2c[c]) \in Nat
  BY LenProperties DEF Inv, TypeInv, ServerOK
<1>3. CASE UNCHANGED serviceVars
  <2>1. UNCHANGED <<sock, cut, c2s, s2c, mixed, denied, diskVars>>
    BY <1>3 DEF serviceVars, linkVars, serverVars, readerVars
  <2> QED  BY <1>1, <1>2, <2>1 DEF Inv, Rejected, AtFront, Asked, Broken
<1>4. CASE Next
  <2>1. denied' = denied \cup {c \in Conns : AtFront(c)}
    BY <1>4 DEF Next
  <2>2. \A c \in denied' : c \in Conns /\ (mixed[c] = {} => Rejected(c))
    BY <2>1 DEF Inv, TypeInv, Carrying, Rejected, AtFront
  <2>3. ASSUME NEW c \in Conns, Rejected(c)
        PROVE  /\ mixed'[c] = {} => Rejected(c)'
               /\ Len(s2c'[c]) <= Len(s2c[c])
               /\ AtCursor(c) => UNCHANGED diskVars
    BY <1>2, <1>4, <2>3, ClientRejected, ServerRejected DEF Next, Inv
  <2>4. \A c \in Conns : mixed'[c] = {} => mixed[c] = {}
    <3>1. CASE ServerNext
      BY <3>1, ReaderMoves, SplitFacts DEF Inv, TypeInv, ServerOK, Reads
    <3>2. CASE ClientNext
      BY <3>2 DEF ClientNext, ClientConnects, ClientAsks, ClientReads, serverVars, readerVars
    <3> QED  BY <1>4, <3>1, <3>2 DEF Next
  <2> QED  BY <1>1, <2>1, <2>2, <2>3, <2>4 DEF Inv
<1> QED  BY <1>3, <1>4

LEMMA InitInv == Init => Inv
BY InitType DEF Inv, Init

\* Whatever a client sends behind a request the server rejected, or later: no
\* reply reaches it and no file changes on its behalf, unless a short read had
\* completed one of its packets with the credentials of the packet before.
THEOREM RejectedClientsStayOut == Spec => DeniedStaysOut
<1>1. Inv /\ [Next]_serviceVars =>
        [\A c \in denied : mixed[c] = {} => /\ Len(s2c'[c]) <= Len(s2c[c])
                                            /\ AtCursor(c) => UNCHANGED diskVars]_serviceVars
  BY StepInv
<1>2. Inv /\ [Next]_serviceVars => Inv'
  BY StepInv
<1> QED  BY <1>1, <1>2, InitInv, PTL DEF Spec, DeniedStaysOut

-----------------------------------------------------------------------------
(***************************************************************************)
(* Stored content.                                                         *)
(***************************************************************************)
LEMMA PrefixOfItself ==
    ASSUME NEW S, NEW q \in Seq(S)
    PROVE  IsPrefix(q, q)
BY LenProperties DEF IsPrefix

LEMMA PrefixOfConcat ==
    ASSUME NEW S, NEW q \in Seq(S), NEW r \in Seq(S)
    PROVE  IsPrefix(q, q \o r)
<1> DEFINE n == Len(q)
           t == q \o r
<1>1. n \in Nat /\ t \in Seq(S) /\ n <= Len(t) /\ \A i \in 1..n : t[i] = q[i] /\ q[i] \in S
  BY LenProperties, ConcatProperties, ElementOfSeq
<1> HIDE DEF t
<1>2. /\ SubSeq(t, 1, n) \in Seq(S) /\ Len(SubSeq(t, 1, n)) = n
      /\ \A i \in 1..n : SubSeq(t, 1, n)[i] = t[i]
  <2>1. n \in 0..Len(t)
    BY <1>1, LenProperties
  <2> QED  BY <1>1, <2>1, PrefixFacts
<1>3. SubSeq(q, 1, n) = q
  BY SubSeqFull
<1>4. SubSeq(t, 1, n) = q
  BY <1>1, <1>2, SeqEqual
<1> QED  BY <1>1, <1>3, <1>4 DEF IsPrefix, t

\* The only upload that cuts a file off is a first packet with overwrite set.
LEMMA StoringExtends ==
    ASSUME TypeInv, NEW c \in Conns, StoreUpload(c), NEW p \in Paths
    PROVE  \/ IsPrefix(files[p], files'[p])
           \/ /\ AtCursor(c) /\ c2s[c] # << >> /\ Target(c) = p
              /\ Asked(c).flags = "first" /\ Asked(c).overwrite
<1> USE DEF TypeInv
<1>1. AtCursor(c) /\ c2s[c] # << >> /\ UploadMode(c) \in {"truncate", "append"}
  BY DEF StoreUpload, Reads, FrameIsThere
<1>2. UploadMode(c) = "truncate" => Asked(c).flags = "first" /\ Asked(c).overwrite
  BY DEF UploadMode, OpenMode
<1>3. Asked(c).data \in Seq(Bytes) /\ files[p] \in Seq(Bytes)
  BY <1>1, AskedIsRequest DEF Request, ServerOK
<1>4. PICK w \in Written(Asked(c).data) :
        files' = [files EXCEPT ![Target(c)] =
                    IF UploadMode(c) = "truncate" THEN w ELSE @ \o w]
  BY DEF StoreUpload
<1>5. w \in Seq(Bytes)
  BY <1>3, <1>4, PrefixFacts DEF Written, Prefixes
<1>6. CASE p = Target(c)
  BY <1>1, <1>2, <1>3, <1>4, <1>5, <1>6, PrefixOfConcat DEF ServerOK
<1>7. CASE p # Target(c)
  BY <1>3, <1>4, <1>7, PrefixOfItself DEF ServerOK
<1> QED  BY <1>6, <1>7

LEMMA StepExtends ==
    ASSUME TypeInv, [Next]_serviceVars, NEW p \in Paths
    PROVE  \/ IsPrefix(files[p], files'[p])
           \/ \E c \in Conns : /\ AtCursor(c) /\ c2s[c] # << >> /\ Target(c) = p
                               /\ Asked(c).flags = "first" /\ Asked(c).overwrite
<1>1. files[p] \in Seq(Bytes) /\ IsPrefix(files[p], files[p])
  BY PrefixOfItself DEF TypeInv, ServerOK
<1>2. CASE \E c \in Conns : StoreUpload(c)
  BY <1>2, StoringExtends
<1>3. CASE files' = files
  BY <1>1, <1>3
<1>4. CASE ServerNext /\ ~\E c \in Conns : StoreUpload(c)
  <2>1. files' = files \/ Conns = {}
    BY <1>4, ServerMoves DEF TypeInv
  <2>2. Conns = {} => files' = files
    BY <1>4 DEF ServerNext, HandleClientsThread, Environment, WakeAndLock, EraseTimedOut, Crash,
                Die, Restart, diskVars
  <2> QED  BY <1>3, <2>1, <2>2
<1>5. CASE ClientNext \/ UNCHANGED serviceVars
  <2>1. files' = files
    BY <1>5 DEF ClientNext, ClientConnects, ClientAsks, ClientReads, serviceVars, serverVars,
                diskVars
  <2> QED  BY <1>3, <2>1
<1> QED  BY <1>2, <1>4, <1>5 DEF Next

\* With any number of sessions writing to the same stem, stored content is cut
\* off by nothing but the first packet of an upload that asks to overwrite.
THEOREM OnlyFirstPacketsDiscard == Spec => OnlyOverwriteDiscards
<1>1. TypeInv /\ [Next]_serviceVars =>
        [\A p \in Paths :
            IsPrefix(files[p], files'[p])
            \/ \E c \in Conns : /\ AtCursor(c) /\ c2s[c] # << >> /\ Target(c) = p
                                /\ Asked(c).flags = "first" /\ Asked(c).overwrite]_serviceVars
  BY StepExtends
<1>2. TypeInv /\ [Next]_serviceVars => TypeInv'
  BY StepType
<1> QED  BY <1>1, <1>2, InitType, PTL DEF Spec, OnlyOverwriteDiscards

-----------------------------------------------------------------------------
(***************************************************************************)
(* The list of sessions.                                                   *)
(***************************************************************************)
SentOK ==
    /\ sent \in [Conns -> Nat]
    /\ \A c \in Conns : sent[c] <= MaxSends[c]

ListInv == TypeInv /\ ListOK /\ SentOK /\ denied \subseteq Conns

LEMMA InitList == Init => ListInv
<1> SUFFICES ASSUME Init PROVE ListInv
  OBVIOUS
<1>1. clients = << >> /\ cursor = 0 /\ \A c \in Conns : sock[c] = "none"
  BY DEF Init, ServerInit, SessionsInit, LinkInit
<1>2. ListOK
  BY <1>1, EmptySeq DEF ListOK, NoneTwice
<1>3. SentOK /\ denied \subseteq Conns
  BY RequestsAssumption DEF Init, SentOK
<1> QED  BY <1>2, <1>3, InitType DEF ListInv

\* Clients connect, ask and read without touching the list.
LEMMA ClientList ==
    ASSUME TypeInv, ListOK, ClientNext
    PROVE  ListOK' /\ clients' = clients
<1>1. UNCHANGED <<clients, cursor>>
  BY DEF ClientNext, ClientConnects, ClientAsks, ClientReads, serverVars
<1>2. \A c \in Conns : sock'[c] = sock[c] \/ (sock[c] = "none" /\ sock'[c] = "backlog")
  BY DEF TypeInv, ServerOK, ClientNext, ClientConnects, Connect, ClientAsks, ClientSend,
         ClientReads, ClientReceive
<1> QED  BY <1>1, <1>2, ListKept DEF TypeInv

LEMMA StepSent ==
    ASSUME SentOK, denied \subseteq Conns, Next
    PROVE  SentOK' /\ denied' \subseteq Conns
<1>1. denied' \subseteq Conns
  BY DEF Next
<1>2. ASSUME NEW c \in Conns, ClientAsks(c)
      PROVE  SentOK'
  <2>1. MaxSends \in [Conns -> Nat] /\ sent[c] < MaxSends[c]
        /\ sent' = [sent EXCEPT ![c] = @ + 1]
    BY <1>2, RequestsAssumption DEF ClientAsks
  <2>2. sent[c] \in Nat /\ MaxSends[c] \in Nat
    BY <2>1 DEF SentOK
  <2>3. sent[c] + 1 \in Nat /\ sent[c] + 1 <= MaxSends[c]
    BY <2>1, <2>2
  <2> QED  BY <2>1, <2>3 DEF SentOK
<1>3. CASE UNCHANGED sent
  BY <1>1, <1>3 DEF SentOK
<1> QED  BY <1>1, <1>2, <1>3 DEF Next, ClientNext, ClientConnects, ClientReads

LEMMA StepList ==
    ASSUME ListInv, [Next]_serviceVars
    PROVE  /\ ListInv'
           /\ cursor \in 1..Len(clients) /\ up' => clients' = clients
<1> USE DEF ListInv
<1>1. TypeInv'
  BY StepType
<1>2. CASE ClientNext /\ Next
  BY <1>1, <1>2, ClientList, StepSent
<1>3. CASE ServerNext /\ Next
  BY <1>1, <1>3, ServerList, StepSent DEF TypeInv
<1>4. CASE UNCHANGED serviceVars
  <2>1. UNCHANGED <<clients, cursor, sock, sent, denied>>
    BY <1>4 DEF serviceVars, linkVars, serverVars
  <2> QED  BY <1>1, <2>1 DEF ListOK, NoneTwice, SentOK
<1> QED  BY <1>2, <1>3, <1>4 DEF Next

\* The values of the server's variables under any requests: statuses, queues,
\* files, and a cursor that never leaves the list by more than one place.
THEOREM ServiceTypes == Spec => []TypeOK
<1>1. ListInv /\ [Next]_serviceVars => ListInv'
  BY StepList
<1>2. ListInv => TypeOK
  BY DEF ListInv, TypeInv, ListOK, SentOK, TypeOK
<1> QED  BY <1>1, <1>2, InitList, PTL DEF Spec

\* Accepting and erasing, at any time, in any number: every open socket is the
\* one of a session of the list, and no session is in the list twice.
THEOREM SocketsAreListed == Spec => []OpenSocketsAreListed
<1>1. ListInv /\ [Next]_serviceVars => ListInv'
  BY StepList
<1>2. ListInv => OpenSocketsAreListed
  <2> SUFFICES ASSUME ListInv PROVE OpenSocketsAreListed
    OBVIOUS
  <2>1. IsInjective(clients)
    BY DEF ListInv, ListOK, NoneTwice, IsInjective
  <2>2. \A c : c \in ToSet(clients) <=> \E i \in DOMAIN clients : clients[i] = c
    BY DEF ToSet
  <2> QED  BY <2>1, <2>2 DEF ListInv, ListOK, OpenSocketsAreListed
<1> QED  BY <1>1, <1>2, InitList, PTL DEF Spec

\* The iterators of a pass of handle_clients_thread stay valid to its end.
THEOREM ListsAreStable == Spec => ListIsStableDuringPass
<1>1. ListInv /\ [Next]_serviceVars =>
        [(cursor \in 1..Len(clients) /\ up') => clients' = clients]_serviceVars
  BY StepList
<1>2. ListInv /\ [Next]_serviceVars => ListInv'
  BY StepList
<1> QED  BY <1>1, <1>2, InitList, PTL DEF Spec, ListIsStableDuringPass

\* Whoever has connected is in the hands of the server or can see that it is
\* over: with any requests, crashes and restarts no session is ever stranded.
THEOREM ClientsAreHeld == Spec => []NobodyIsForgotten
<1>1. Init => ListInv /\ Down
  BY InitList DEF Init, ServerInit, LinkInit, Down
<1>2. ListInv /\ Down /\ [Next]_serviceVars => (ListInv /\ Down)'
  <2> SUFFICES ASSUME ListInv, Down, [Next]_serviceVars PROVE Down'
    BY StepList
  <2>1. CASE ServerNext
    BY <2>1, ServerDown DEF ListInv, TypeInv
  <2>2. ASSUME NEW c \in Conns, ClientConnects(c) \/ ClientAsks(c) \/ ClientReads(c)
        PROVE  Down'
    BY <2>2 DEF ClientConnects, Connect, ClientAsks, ClientSend, ClientReads, ClientReceive,
         serverVars, Down
  <2>3. CASE UNCHANGED serviceVars
    BY <2>3 DEF Down, serviceVars, linkVars, serverVars
  <2> QED  BY <2>1, <2>2, <2>3 DEF Next, ClientNext
<1>3. ListInv /\ Down => NobodyIsForgotten
  BY HeldOrBroken DEF ListInv, TypeInv
<1> QED  BY <1>1, <1>2, <1>3, PTL DEF Spec
====
