---- MODULE SecftDownload_proofs ----
(***************************************************************************)
(* Proofs about downloads, for every number of streams, all remote paths   *)
(* (equal ones included), every content of both disks and every schedule.  *)
(***************************************************************************)
EXTENDS SecftDownload, SecftServer_proofs

\* One step of the client: of the application, the scheduler or a stream.
ClientStep(s) == StartStream(s) \/ Cancel(s) \/ Scheduler(s) \/ Download(s)

-----------------------------------------------------------------------------
(***************************************************************************)
(* Types.                                                                  *)
(***************************************************************************)
TypeInv == DownloadsOK /\ ServerOK

LEMMA InitType == Init => TypeInv
<1> SUFFICES ASSUME Init PROVE TypeInv
  OBVIOUS
<1>1. \A p \in Paths : p \in DOMAIN InitialFiles => InitialFiles[p] \in Seq(Bytes)
  BY DiskAssumption
<1>2. ServerOK
  BY <1>1, EmptySeq, DiskAssumption DEF Init, ServerInit, SessionsInit, LinkInit, ServerOK
<1>3. DownloadsOK
  BY DownloadsAssumption DEF Init, DownloadsOK, StatusValues, Places
<1> QED  BY <1>2, <1>3 DEF TypeInv

LEMMA LocalFileType ==
    ASSUME TypeInv, NEW s \in Conns, OpenLocalFile(s)
    PROVE  /\ DOMAIN local' \subseteq DOMAIN local \cup {remote[s]}
           /\ DOMAIN local \subseteq DOMAIN local'
           /\ local' \in [DOMAIN local' -> Seq(Bytes)]
           /\ \A p \in DOMAIN local : p # remote[s] => local'[p] = local[p]
<1>1. local \in [DOMAIN local -> Seq(Bytes)]
  BY DEF TypeInv, DownloadsOK
<1>2. local' = local \/ local' = Emptied(remote[s])
  BY DEF OpenLocalFile
<1>3. << >> \in Seq(Bytes)
  BY EmptySeq
<1> QED  BY <1>1, <1>2, <1>3 DEF Emptied

LEMMA AskType ==
    ASSUME TypeInv, NEW s \in Conns, NEW flags \in Flags
    PROVE  Ask(s, flags) \in Request
BY EmptySeq DEF Ask, Request, TypeInv, DownloadsOK

LEMMA SendType ==
    ASSUME TypeInv, NEW s \in Conns, NEW flags \in Flags, ClientSend(s, Ask(s, flags))
    PROVE  c2s' \in [Conns -> Seq(Request)]
<1>1. c2s[s] \in Seq(Request)
  BY DEF TypeInv, ServerOK
<1>2. Append(c2s[s], Ask(s, flags)) \in Seq(Request)
  BY <1>1, AskType, AppendProperties
<1> QED  BY <1>2 DEF ClientSend, TypeInv, ServerOK

\* A reply that was read had a status and a size.
LEMMA ReceiveType ==
    ASSUME TypeInv, NEW s \in Conns, ClientReceive(s)
    PROVE  /\ s2c' \in [Conns -> Seq(Reply)]
           /\ Head(s2c[s]).size \in Nat
           /\ UNCHANGED <<sock, cut, c2s>>
<1>1. s2c[s] \in Seq(Reply) /\ s2c[s] # << >>
  BY DEF TypeInv, ServerOK, ClientReceive
<1>2. Head(s2c[s]) \in Reply /\ Tail(s2c[s]) \in Seq(Reply)
  BY <1>1, HeadTailProperties
<1> QED  BY <1>2 DEF ClientReceive, Reply, TypeInv, ServerOK

LEMMA ClientType ==
    ASSUME TypeInv, NEW s \in Conns, ClientStep(s)
    PROVE  TypeInv'
<1> USE DEF TypeInv
<1>1. CASE StartStream(s) \/ Cancel(s) \/ Pick(s) \/ Launch(s)
  BY <1>1 DEF StartStream, Cancel, Pick, Launch, Goto, SetStatus, DownloadsOK, ServerOK,
              linkVars, serverVars, diskVars, historyVars, StatusValues, Places, readerVars
<1>2. CASE ConnectOk(s)
  BY <1>2 DEF ConnectOk, Connect, Goto, DownloadsOK, ServerOK, serverVars, diskVars, historyVars,
              Places, readerVars
<1>3. CASE ConnectFails(s) \/ TellRefused(s) \/ TestLocalFile(s) \/ TestLoop(s) \/ TellFailed(s)
  BY <1>3 DEF ConnectFails, TellRefused, TestLocalFile, TestLoop, TellFailed, NotifyFailed, Goto,
              SetStatus, DownloadsOK, ServerOK, linkVars, serverVars, diskVars, historyVars,
              StatusValues, Places, readerVars
<1>4. CASE SendCheck(s) \/ SendRequest(s)
  <2>1. c2s' \in [Conns -> Seq(Request)]
    BY <1>4, SendType DEF SendCheck, SendRequest, Flags
  <2> QED  BY <1>4, <2>1 DEF SendCheck, SendRequest, ClientSend, Goto, DownloadsOK, ServerOK,
                             serverVars, diskVars, historyVars, Places, readerVars
<1>5. CASE ReadCheck(s)
  BY <1>5, ReceiveType DEF ReadCheck, Goto, DownloadsOK, ServerOK, serverVars, diskVars,
                           historyVars, Places, readerVars
<1>6. CASE CheckFails(s) \/ ReadPacket(s)
  <2>1. s2c' \in [Conns -> Seq(Reply)] /\ UNCHANGED <<sock, cut, c2s>>
    BY <1>6, ReceiveType DEF CheckFails, ReadPacket, ClientReceiveFails, linkVars, ServerOK
  <2> QED  BY <1>6, <2>1 DEF CheckFails, ReadPacket, Goto, SetStatus, DownloadsOK, ServerOK,
                             serverVars, diskVars, historyVars, Places, StatusValues, readerVars
<1>7. CASE OpenLocalFile(s)
  <2>1. DOMAIN local' \subseteq Paths /\ local' \in [DOMAIN local' -> Seq(Bytes)]
    BY <1>7, LocalFileType DEF DownloadsOK
  <2> QED  BY <1>7, <2>1 DEF OpenLocalFile, Goto, SetStatus, DownloadsOK, ServerOK, linkVars,
                             serverVars, diskVars, historyVars, StatusValues, Places, readerVars
<1> QED  BY <1>1, <1>2, <1>3, <1>4, <1>5, <1>6, <1>7 DEF ClientStep, Scheduler, Download

\* The server, its disk and the end of the process leave the streams alone.
LEMMA OtherType ==
    ASSUME TypeInv,
           \/ HandleProcessEvent \/ Unhandled
           \/ \E p \in Paths : RemoteFileVanishes(p)
           \/ ServerNext /\ UNCHANGED <<handled, alive, cellVars, local, historyVars>>
           \/ UNCHANGED downloadVars
    PROVE  TypeInv'
<1> USE DEF TypeInv
<1>1. CASE HandleProcessEvent \/ Unhandled
  BY <1>1 DEF HandleProcessEvent, Unhandled, Abort, DownloadsOK, ServerOK, linkVars, serverVars,
              diskVars, cellVars, historyVars, readerVars
<1>2. ASSUME NEW p \in Paths, RemoteFileVanishes(p)
      PROVE  TypeInv'
  BY <1>2, EmptySeq DEF RemoteFileVanishes, DownloadsOK, ServerOK, linkVars, readerVars, cellVars,
                        historyVars
<1>3. CASE ServerNext /\ UNCHANGED <<handled, alive, cellVars, local, historyVars>>
  BY <1>3, ServerType DEF DownloadsOK, cellVars, historyVars
<1>4. CASE UNCHANGED downloadVars
  BY <1>4 DEF downloadVars, DownloadsOK, ServerOK, linkVars, serverVars, diskVars, cellVars,
              historyVars, readerVars
<1> QED  BY <1>1, <1>2, <1>3, <1>4

LEMMA StepType ==
    ASSUME TypeInv, [Next]_downloadVars
    PROVE  TypeInv'
BY ClientType, OtherType DEF Next, ClientStep

-----------------------------------------------------------------------------
(***************************************************************************)
(* Stop and wait: a thread that may still send has nothing under way.       *)
(***************************************************************************)
Sending == {"new", "queued", "picked", "connect", "check", "create", "open", "head", "request"}

WireOK(s) == OneAtATime(s) /\ (pc[s] \in Sending => Unused(s))
Wire == \A s \in Conns : WireOK(s)

LEMMA OwnLink ==
    ASSUME TypeInv, NEW s \in Conns, NEW t \in Conns, t # s, ClientStep(s)
    PROVE  /\ c2s'[t] = c2s[t] /\ s2c'[t] = s2c[t] /\ pc'[t] = pc[t]
           /\ status'[t] = status[t] /\ size'[t] = size[t]
<1> USE DEF TypeInv, DownloadsOK, ServerOK
<1>1. c2s'[t] = c2s[t] /\ s2c'[t] = s2c[t]
  BY DEF ClientStep, Scheduler, Download, StartStream, Cancel, Pick, Launch, ConnectOk,
         ConnectFails, SendCheck, ReadCheck, CheckFails, TellRefused, TestLocalFile,
         OpenLocalFile, TestLoop, TellFailed, SendRequest, ReadPacket,
         Connect, ClientSend, ClientReceive, ClientReceiveFails, linkVars
<1>2. pc'[t] = pc[t]
  BY DEF ClientStep, Scheduler, Download, StartStream, Cancel, Pick, Launch, ConnectOk,
         ConnectFails, SendCheck, ReadCheck, CheckFails, TellRefused, TestLocalFile,
         OpenLocalFile, TestLoop, TellFailed, SendRequest, ReadPacket, Goto
<1>3. status'[t] = status[t] /\ size'[t] = size[t]
  BY DEF ClientStep, Scheduler, Download, StartStream, Cancel, Pick, Launch, ConnectOk,
         ConnectFails, SendCheck, ReadCheck, CheckFails, TellRefused, TestLocalFile,
         OpenLocalFile, TestLoop, TellFailed, SendRequest, ReadPacket, SetStatus
<1> QED  BY <1>1, <1>2, <1>3

LEMMA SendWire ==
    ASSUME TypeInv, NEW s \in Conns, NEW flags \in Flags, Unused(s), ClientSend(s, Ask(s, flags))
    PROVE  OneAtATime(s)'
<1>1. s2c' = s2c /\ c2s'[s] \in {c2s[s], Append(c2s[s], Ask(s, flags))}
  BY DEF ClientSend, TypeInv, ServerOK
<1>2. /\ Append(<< >>, Ask(s, flags)) # << >>
      /\ Tail(Append(<< >>, Ask(s, flags))) = << >>
  BY AskType, AppendToEmpty
<1> QED  BY <1>1, <1>2 DEF Unused, OneAtATime

LEMMA ClientWire ==
    ASSUME TypeInv, Wire, NEW s \in Conns, ClientStep(s)
    PROVE  Wire'
<1> SUFFICES ASSUME NEW t \in Conns PROVE WireOK(t)'
  BY DEF Wire
<1>1. WireOK(t)
  BY DEF Wire
<1>2. CASE t # s
  BY <1>1, <1>2, OwnLink DEF WireOK, OneAtATime, Unused
<1>3. CASE t = s
  <2> USE <1>1, <1>3 DEF WireOK, Sending, TypeInv, DownloadsOK, ServerOK
  <2>1. CASE StartStream(s) \/ Cancel(s) \/ Pick(s) \/ Launch(s)
    BY <2>1 DEF StartStream, Cancel, Pick, Launch, Goto, linkVars, OneAtATime, Unused
  <2>2. CASE ConnectOk(s) \/ ConnectFails(s)
    BY <2>2 DEF ConnectOk, ConnectFails, Connect, Goto, linkVars, OneAtATime, Unused
  <2>3. CASE SendCheck(s) \/ SendRequest(s)
    <3>1. Unused(s) /\ pc'[s] \notin Sending
      BY <2>3 DEF SendCheck, SendRequest, Goto
    <3>2. OneAtATime(s)'
      BY <2>3, <3>1, SendWire DEF SendCheck, SendRequest, Flags
    <3> QED  BY <3>1, <3>2
  <2>4. CASE ReadCheck(s)
    BY <2>4 DEF ReadCheck, ClientReceive, Goto, OneAtATime, Unused
  <2>5. CASE CheckFails(s) \/ ReadPacket(s)
    BY <2>5 DEF CheckFails, ReadPacket, ClientReceive, ClientReceiveFails, Goto, linkVars,
                OneAtATime
  <2>6. CASE TellRefused(s) \/ TestLocalFile(s) \/ OpenLocalFile(s) \/ TestLoop(s) \/ TellFailed(s)
    BY <2>6 DEF TellRefused, TestLocalFile, OpenLocalFile, TestLoop, TellFailed, Goto, linkVars,
                OneAtATime, Unused
  <2> QED  BY <2>1, <2>2, <2>3, <2>4, <2>5, <2>6 DEF ClientStep, Scheduler, Download
<1> QED  BY <1>2, <1>3

LEMMA OtherWire ==
    ASSUME TypeInv, Wire,
           \/ HandleProcessEvent \/ Unhandled
           \/ \E p \in Paths : RemoteFileVanishes(p)
           \/ ServerNext /\ UNCHANGED <<handled, alive, cellVars, local, historyVars>>
           \/ UNCHANGED downloadVars
    PROVE  Wire'
<1> SUFFICES ASSUME NEW s \in Conns PROVE WireOK(s)'
  BY DEF Wire
<1>1. WireOK(s) /\ ServerOK
  BY DEF Wire, TypeInv
<1>2. CASE ServerNext /\ UNCHANGED <<handled, alive, cellVars, local, historyVars>>
  BY <1>1, <1>2, ServerOneAtATime DEF WireOK, cellVars
<1>3. CASE \/ HandleProcessEvent \/ Unhandled
           \/ \E p \in Paths : RemoteFileVanishes(p)
           \/ UNCHANGED downloadVars
  BY <1>1, <1>3 DEF WireOK, OneAtATime, Unused, HandleProcessEvent, Unhandled, Abort,
                    RemoteFileVanishes, downloadVars, linkVars, cellVars
<1> QED  BY <1>2, <1>3

-----------------------------------------------------------------------------
(***************************************************************************)
(* What a stream leaves in its cell, in the directory and with the          *)
(* application.                                                            *)
(***************************************************************************)
\* A thread that got past the check knows the size the server confirmed.
Confirmed(s) ==
    pc[s] \in {"create", "open", "head", "request", "reply"} => size[s] \in Nat

\* Only the check and the local file set DOWNLOAD_FAILED.
Failing(s) ==
    /\ pc[s] \in {"new", "queued", "picked", "connect", "check", "checked"}
         => status[s] # "DOWNLOAD_FAILED"
    /\ pc[s] \in {"request", "reply", "done"} /\ status[s] = "DOWNLOAD_FAILED" /\ size[s] # 0
         => s \in told

\* The file that is about to be opened was not there at the start.
Opening(s) == pc[s] = "open" => remote[s] \notin DOMAIN LocalFiles

Running(s) == ~handled /\ pc[s] \notin {"new", "queued", "picked"} => s \in exposed

StreamInv == \A s \in Conns : Confirmed(s) /\ Failing(s) /\ Opening(s) /\ Running(s)

Inv ==
    /\ TypeInv /\ Wire /\ StreamInv
    /\ InitialLocalKept /\ NewFilesWereConfirmed /\ HandledMeansAlive

LEMMA InitInv == Init => Inv
<1> SUFFICES ASSUME Init PROVE Inv
  OBVIOUS
<1>1. Wire
  BY DEF Init, ServerInit, LinkInit, Wire, WireOK, OneAtATime, Unused
<1>2. StreamInv
  BY DEF Init, StreamInv, Confirmed, Failing, Opening, Running
<1>3. InitialLocalKept /\ NewFilesWereConfirmed /\ HandledMeansAlive
  BY DEF Init, InitialLocalKept, NewFilesWereConfirmed, HandledMeansAlive
<1> QED  BY <1>1, <1>2, <1>3, InitType DEF Inv

LEMMA ClientStreams ==
    ASSUME Inv, NEW s \in Conns, ClientStep(s)
    PROVE  StreamInv'
<1> SUFFICES ASSUME NEW t \in Conns
             PROVE  (Confirmed(t) /\ Failing(t) /\ Opening(t) /\ Running(t))'
  BY DEF StreamInv
<1> USE DEF Inv, TypeInv, DownloadsOK, StreamInv
<1>1. /\ UNCHANGED <<remote, handled>> /\ exposed \subseteq exposed' /\ told \subseteq told'
  BY DEF ClientStep, Scheduler, Download, StartStream, Cancel, Pick, Launch, ConnectOk,
         ConnectFails, SendCheck, ReadCheck, CheckFails, TellRefused, TestLocalFile,
         OpenLocalFile, TestLoop, TellFailed, SendRequest, ReadPacket, NotifyFailed, historyVars
<1>2. CASE t # s
  <2>1. pc'[t] = pc[t] /\ status'[t] = status[t] /\ size'[t] = size[t]
    BY <1>2, OwnLink
  <2> QED  BY <1>1, <2>1 DEF Confirmed, Failing, Opening, Running
<1>3. CASE t = s
  <2> USE <1>1, <1>3 DEF Confirmed, Failing, Opening, Running
  <2>1. CASE StartStream(s) \/ Cancel(s) \/ Pick(s) \/ Launch(s)
    BY <2>1 DEF StartStream, Cancel, Pick, Launch, Goto, SetStatus, historyVars
  <2>2. CASE ConnectOk(s) \/ ConnectFails(s) \/ SendCheck(s)
    BY <2>2 DEF ConnectOk, ConnectFails, SendCheck, Goto, historyVars
  <2>3. CASE ReadCheck(s)
    <3>1. Head(s2c[s]).size \in Nat /\ pc[s] = "checked" /\ pc'[s] = "create"
      BY <2>3, ReceiveType DEF ReadCheck, Goto
    <3>2. size'[s] \in Nat /\ UNCHANGED <<status, told, exposed>>
      BY <2>3, <3>1 DEF ReadCheck, historyVars
    <3> QED  BY <3>1, <3>2
  <2>4. CASE CheckFails(s)
    BY <2>4 DEF CheckFails, Goto, SetStatus, historyVars
  <2>5. CASE TellRefused(s)
    BY <2>5 DEF TellRefused, NotifyFailed, Goto
  <2>6. CASE TestLocalFile(s)
    BY <2>6 DEF TestLocalFile, InitialLocalKept, Goto, SetStatus, historyVars
  <2>7. CASE OpenLocalFile(s)
    BY <2>7 DEF OpenLocalFile, Goto, SetStatus, historyVars
  <2>8. CASE TestLoop(s)
    <3>1. size[s] \in Nat
      BY <2>8 DEF TestLoop, Goto
    <3> QED  BY <2>8, <3>1 DEF TestLoop, Goto, historyVars
  <2>9. CASE TellFailed(s)
    BY <2>9 DEF TellFailed, NotifyFailed, Goto
  <2>10. CASE SendRequest(s) \/ ReadPacket(s)
    BY <2>10 DEF SendRequest, ReadPacket, Goto, historyVars
  <2> QED  BY <2>1, <2>2, <2>3, <2>4, <2>5, <2>6, <2>7, <2>8, <2>9, <2>10
           DEF ClientStep, Scheduler, Download
<1> QED  BY <1>2, <1>3

\* The directory: only the opening of a confirmed stream changes it.
LEMMA ClientFiles ==
    ASSUME Inv, NEW s \in Conns, ClientStep(s)
    PROVE  InitialLocalKept' /\ NewFilesWereConfirmed'
<1> USE DEF Inv, TypeInv, DownloadsOK, StreamInv
<1>1. UNCHANGED remote /\ \A t \in Conns : size[t] >= 0 => size'[t] >= 0
  <2>1. CASE ReadCheck(s)
    BY <2>1, ReceiveType DEF ReadCheck
  <2>2. CASE ~ReadCheck(s)
    BY <2>2 DEF ClientStep, Scheduler, Download, StartStream, Cancel, Pick, Launch, ConnectOk,
         ConnectFails, SendCheck, CheckFails, TellRefused, TestLocalFile, OpenLocalFile,
         TestLoop, TellFailed, SendRequest, ReadPacket
  <2> QED  BY <2>1, <2>2
<1>2. CASE OpenLocalFile(s)
  <2>1. remote[s] \notin DOMAIN LocalFiles /\ size[s] >= 0
    BY <1>2 DEF OpenLocalFile, Goto, Opening, Confirmed
  <2>2. /\ DOMAIN local' \subseteq DOMAIN local \cup {remote[s]}
        /\ DOMAIN local \subseteq DOMAIN local'
        /\ \A p \in DOMAIN local : p # remote[s] => local'[p] = local[p]
    BY <1>2, LocalFileType
  <2>3. InitialLocalKept'
    BY <2>1, <2>2 DEF InitialLocalKept
  <2>4. NewFilesWereConfirmed'
    BY <1>1, <2>1, <2>2 DEF NewFilesWereConfirmed
  <2> QED  BY <2>3, <2>4
<1>3. CASE ~OpenLocalFile(s)
  <2>1. local' = local
    BY <1>3 DEF ClientStep, Scheduler, Download, StartStream, Cancel, Pick, Launch, ConnectOk,
         ConnectFails, SendCheck, ReadCheck, CheckFails, TellRefused, TestLocalFile,
         TestLoop, TellFailed, SendRequest, ReadPacket
  <2> QED  BY <1>1, <2>1 DEF InitialLocalKept, NewFilesWereConfirmed
<1> QED  BY <1>2, <1>3

LEMMA ClientAlive ==
    ASSUME Inv, NEW s \in Conns, ClientStep(s)
    PROVE  HandledMeansAlive'
BY DEF Inv, HandledMeansAlive, ClientStep, Scheduler, Download, StartStream, Cancel, Pick, Launch,
       ConnectOk, ConnectFails, SendCheck, ReadCheck, CheckFails, TellRefused, TestLocalFile,
       OpenLocalFile, TestLoop, TellFailed, SendRequest, ReadPacket, NotifyFailed, historyVars

LEMMA OtherInv ==
    ASSUME Inv,
           \/ HandleProcessEvent \/ Unhandled
           \/ \E p \in Paths : RemoteFileVanishes(p)
           \/ ServerNext /\ UNCHANGED <<handled, alive, cellVars, local, historyVars>>
           \/ UNCHANGED downloadVars
    PROVE  StreamInv' /\ InitialLocalKept' /\ NewFilesWereConfirmed' /\ HandledMeansAlive'
<1> USE DEF Inv, StreamInv, Confirmed, Failing, Opening, Running, InitialLocalKept,
            NewFilesWereConfirmed, HandledMeansAlive
<1>1. CASE HandleProcessEvent
  BY <1>1 DEF HandleProcessEvent, cellVars, historyVars
<1>2. CASE Unhandled
  <2>1. UNCHANGED <<handled, cellVars, local, historyVars>>
    BY <1>2 DEF Unhandled, Abort
  <2>2. PICK s \in Conns : pc[s] \in {"refused", "head"} /\ ~handled
    BY <1>2 DEF Unhandled, Abort
  <2>3. exposed # {}
    BY <2>2
  <2> QED  BY <2>1, <2>3 DEF cellVars, historyVars
<1>3. CASE \E p \in Paths : RemoteFileVanishes(p)
  BY <1>3 DEF RemoteFileVanishes, cellVars, historyVars
<1>4. CASE UNCHANGED <<handled, alive, cellVars, local, historyVars>>
  BY <1>4 DEF cellVars, historyVars
<1>5. CASE UNCHANGED downloadVars
  BY <1>4, <1>5 DEF downloadVars
<1> QED  BY <1>1, <1>2, <1>3, <1>4, <1>5

LEMMA StepInv ==
    ASSUME Inv, [Next]_downloadVars
    PROVE  Inv'
<1>1. TypeInv'
  BY StepType DEF Inv
<1>2. CASE \E s \in Conns : ClientStep(s)
  BY <1>1, <1>2, ClientWire, ClientStreams, ClientFiles, ClientAlive DEF Inv
<1>3. CASE ~\E s \in Conns : ClientStep(s)
  BY <1>1, <1>3, OtherWire, OtherInv DEF Inv, Next, ClientStep
<1> QED  BY <1>2, <1>3

\* The invariant the theorems below rest on holds in every reachable state.
THEOREM DownloadInvariant == Spec => []Inv
BY InitInv, StepInv, PTL DEF Spec

-----------------------------------------------------------------------------
\* Every variable keeps its type and every exchange is stop and wait: the reply
\* the check or request_packet reads is the one to its own request.
THEOREM DownloadTypes == Spec => []TypeOK
<1>1. Inv => TypeOK
  <2> SUFFICES ASSUME Inv, NEW s \in Conns
               PROVE  Len(c2s[s]) + Len(s2c[s]) <= 1
    BY DEF Inv, TypeInv, TypeOK
  <2> QED  BY OneAtATimeCounts DEF Inv, TypeInv, Wire, WireOK
<1> QED  BY <1>1, DownloadInvariant, PTL

\* No download changes a file that was in the client's directory before: what
\* create_download_file may truncate was created by another download.
THEOREM DownloadsKeepLocalFiles == Spec => []InitialLocalKept
<1>1. Inv => InitialLocalKept
  BY DEF Inv
<1> QED  BY <1>1, DownloadInvariant, PTL

\* The files downloads leave in the directory were confirmed by the server.
THEOREM DownloadsAreConfirmed == Spec => []NewFilesWereConfirmed
<1>1. Inv => NewFilesWereConfirmed
  BY DEF Inv
<1> QED  BY <1>1, DownloadInvariant, PTL

\* A failed download of a file with content does not end in silence.
THEOREM FailedDownloadsAreTold == Spec => []FailureIsTold
<1>1. Inv => FailureIsTold
  BY DEF Inv, StreamInv, Failing, FailureIsTold
<1> QED  BY <1>1, DownloadInvariant, PTL

\* callback_map->at throws only in an application that was late to register.
THEOREM EarlyHandlersKeepAlive == Spec => []HandledMeansAlive
<1>1. Inv => HandledMeansAlive
  BY DEF Inv
<1> QED  BY <1>1, DownloadInvariant, PTL

-----------------------------------------------------------------------------
(***************************************************************************)
(* Who waits for the server, which may die, lose files and be started again. *)
(***************************************************************************)
Connected == {"check", "checked", "refused", "create", "open", "head", "request", "reply"}
Linked(s) == pc[s] \in Connected => sock[s] # "none"

HeldInv == TypeInv /\ ListOK /\ Down /\ \A s \in Conns : Linked(s)

LEMMA StepHeld ==
    ASSUME HeldInv, [Next]_downloadVars
    PROVE  HeldInv'
<1> USE DEF HeldInv
<1>1. TypeInv' /\ ServerOK /\ DownloadsOK
  BY StepType DEF TypeInv
<1>2. CASE UNCHANGED <<up, clients, cursor, sock, pc>>
  BY <1>1, <1>2 DEF ListOK, NoneTwice, Down, Linked
<1>3. CASE ServerNext /\ UNCHANGED <<handled, alive, cellVars, local, historyVars>>
  <2>1. ListOK' /\ Down'
    BY <1>1, <1>3, ServerList, ServerDown
  <2>2. \A s \in Conns : Linked(s)'
    BY <1>1, <1>3, ConnectionsStay DEF Linked, cellVars
  <2> QED  BY <1>1, <2>1, <2>2
<1>4. CASE HandleProcessEvent \/ Unhandled \/ \E p \in Paths : RemoteFileVanishes(p)
  BY <1>2, <1>4 DEF HandleProcessEvent, Unhandled, Abort, RemoteFileVanishes, linkVars, serverVars,
                    cellVars
<1>5. ASSUME NEW s \in Conns, ConnectOk(s)
      PROVE  HeldInv'
  <2>1. /\ up /\ UNCHANGED <<up, clients, cursor>> /\ sock[s] = "none"
        /\ sock' = [sock EXCEPT ![s] = "backlog"] /\ pc' = [pc EXCEPT ![s] = "check"]
    BY <1>5 DEF ConnectOk, Connect, Goto, serverVars
  <2>2. \A c \in Conns : sock'[c] = sock[c] \/ (sock[c] = "none" /\ sock'[c] = "backlog")
    BY <1>1, <2>1 DEF ServerOK
  <2>3. ListOK'
    BY <1>1, <2>1, <2>2, ListKept
  <2> QED  BY <1>1, <2>1, <2>2, <2>3 DEF Down, Linked, DownloadsOK, ServerOK
<1>6. ASSUME NEW s \in Conns, ClientStep(s), ~ConnectOk(s)
      PROVE  HeldInv'
  <2>1. UNCHANGED <<up, clients, cursor, sock>>
    BY <1>6 DEF ClientStep, Scheduler, Download, StartStream, Cancel, Pick, Launch, ConnectFails,
         SendCheck, ReadCheck, CheckFails, TellRefused, TestLocalFile, OpenLocalFile, TestLoop,
         TellFailed, SendRequest, ReadPacket, ClientSend, ClientReceive, ClientReceiveFails,
         linkVars, serverVars
  <2>2. /\ pc'[s] \in Connected => pc[s] \in Connected
        /\ \A t \in Conns \ {s} : pc'[t] = pc[t]
    BY <1>1, <1>6
    DEF ClientStep, Scheduler, Download, StartStream, Cancel, Pick, Launch, ConnectFails,
        SendCheck, ReadCheck, CheckFails, TellRefused, TestLocalFile, OpenLocalFile, TestLoop,
        TellFailed, SendRequest, ReadPacket, Goto, DownloadsOK, Connected
  <2> QED  BY <1>1, <2>1, <2>2 DEF ListOK, NoneTwice, Down, Linked
<1>7. CASE UNCHANGED downloadVars
  BY <1>2, <1>7 DEF downloadVars, linkVars, serverVars, cellVars
<1> QED  BY <1>3, <1>4, <1>5, <1>6, <1>7 DEF Next, ClientStep

\* check_remote_file and request_packet never wait for a server that has
\* forgotten their session.
THEOREM WaitingDownloadsAreHeld == Spec => []WaitingIsHeld
<1>1. Init => HeldInv
  <2> SUFFICES ASSUME Init PROVE HeldInv
    OBVIOUS
  <2>1. /\ clients = << >> /\ cursor = 0 /\ up
        /\ \A c \in Conns : sock[c] = "none" /\ pc[c] \notin Connected
    BY DEF Init, ServerInit, SessionsInit, LinkInit, Connected
  <2>2. ListOK
    BY <2>1, EmptySeq DEF ListOK, NoneTwice
  <2> QED  BY <2>1, <2>2, InitType DEF HeldInv, Down, Linked
<1>2. HeldInv /\ [Next]_downloadVars => HeldInv'
  BY StepHeld
<1>3. HeldInv => WaitingIsHeld
  <2> SUFFICES ASSUME HeldInv PROVE WaitingIsHeld
    OBVIOUS
  <2>1. NobodyIsForgotten
    BY HeldOrBroken DEF HeldInv, TypeInv
  <2> QED  BY <2>1 DEF HeldInv, Linked, Connected, NobodyIsForgotten, WaitingIsHeld
<1> QED  BY <1>1, <1>2, <1>3, PTL DEF Spec

-----------------------------------------------------------------------------
(***************************************************************************)
(* What the server tells a stream is true of the file it offered.           *)
(***************************************************************************)
DiskOK ==
    /\ present \subseteq DOMAIN InitialFiles
    /\ \A p \in present : files[p] = InitialFiles[p]

AsksFor(m, s) == m.kind = "download" /\ m.path = remote[s]

HonestTo(s) ==
    /\ c2s[s] # << >> => AsksFor(Asked(s), s)
    /\ \A m \in buffer[s] : AsksFor(m, s)
    /\ s2c[s] # << >> /\ Head(s2c[s]).status = "exists" =>
         /\ remote[s] \in DOMAIN InitialFiles
         /\ Head(s2c[s]).size = Len(InitialFiles[remote[s]])

Honest == DiskOK /\ \A s \in Conns : HonestTo(s)

\* An answer, which is "exists" only for a file that is there.
TrueAnswer(s) ==
    /\ c2s[s] # << >> /\ c2s'[s] \in {<< >>, Tail(c2s[s])}
    /\ \E st \in Status, n \in Nat :
         /\ s2c'[s] = Append(s2c[s], Answer(st, n))
         /\ st = "exists" => Asked(s).path \in present /\ n = Len(files[Asked(s).path])

\* With nothing but download requests under way the server writes no file, and
\* answers one of them or none, or has read a part of one.
LEMMA ServerAnswers ==
    ASSUME ServerOK, ServerNext, NEW s \in Conns,
           \A c \in Conns : c2s[c] # << >> => Asked(c).kind = "download"
    PROVE  /\ UNCHANGED <<present, files>>
           /\ NoAnswer(s) \/ SplitFrame(s) \/ TrueAnswer(s)
<1> USE DEF ServerOK
<1>1. CASE WakeAndLock \/ Restart \/ EraseTimedOut \/ Crash
  BY <1>1 DEF WakeAndLock, Restart, EraseTimedOut, Crash, Die, NoAnswer, linkVars, diskVars
<1>2. ASSUME NEW c \in Conns, AcceptThread(c) \/ PassTime(c) \/ CutLink(c)
      PROVE  UNCHANGED <<present, files>> /\ NoAnswer(s)
  BY <1>2 DEF AcceptThread, PassTime, CutLink, Cut, NoAnswer, linkVars, serverVars, diskVars
<1>3. ASSUME NEW c \in Conns, AnswerToClient(c)
      PROVE  /\ UNCHANGED <<present, files>>
             /\ NoAnswer(s) \/ TrueAnswer(s)
  <2>1. CASE \/ AnswerBroken(c) \/ AnswerIdle(c) \/ ReadRest(c) \/ RejectRequest(c)
             \/ DieOnMissingFile(c)
    BY <2>1 DEF AnswerBroken, AnswerIdle, RejectRequest, DieOnMissingFile, Die, Stop, NoAnswer,
                diskVars, ReadRest
  <2>2. CASE IgnoreUpload(c) \/ IgnoreDownload(c)
    BY <2>2 DEF IgnoreUpload, IgnoreDownload, Reads, KeepOpen, NoAnswer, diskVars, FrameIsThere
  <2>3. ~StoreUpload(c) /\ ~RefuseUpload(c)
    BY DEF StoreUpload, RefuseUpload, Reads, Wants, FrameIsThere
  <2>4. ASSUME NEW st \in Status, NEW n \in Nat, SendReply(c, st, n), Stop(c) \/ KeepOpen(c),
               c2s[c] # << >>,
               st = "exists" => Asked(c).path \in present /\ n = Len(files[Asked(c).path])
        PROVE  NoAnswer(s) \/ TrueAnswer(s)
    <3>1. CASE s # c
      BY <2>4, <3>1 DEF SendReply, Stop, KeepOpen, NoAnswer
    <3>2. CASE s = c
      <4>1. c2s'[c] \in {<< >>, Tail(c2s[c])}
        BY <2>4 DEF Stop, KeepOpen
      <4>2. s2c'[c] = s2c[c] \/ s2c'[c] = Append(s2c[c], Answer(st, n))
        BY <2>4 DEF SendReply
      <4> QED  BY <2>4, <3>2, <4>1, <4>2 DEF NoAnswer, TrueAnswer
    <3> QED  BY <3>1, <3>2
  <2>5. CASE CheckDownload(c)
    <3>1. /\ c2s[c] # << >> /\ (Stop(c) \/ KeepOpen(c)) /\ UNCHANGED <<present, files>>
          /\ \/ Asked(c).path \in present /\ SendReply(c, "exists", Len(files[Asked(c).path]))
             \/ SendReply(c, "not_found", 0)
      BY <2>5 DEF CheckDownload, Reads, diskVars, FrameIsThere
    <3>2. /\ Asked(c).path \in present => Len(files[Asked(c).path]) \in Nat
          /\ "not_found" \in Status /\ "exists" \in Status /\ 0 \in Nat
      BY LenProperties DEF Status
    <3>3. CASE SendReply(c, "not_found", 0)
      BY <2>4, <3>1, <3>2, <3>3
    <3>4. CASE Asked(c).path \in present /\ SendReply(c, "exists", Len(files[Asked(c).path]))
      BY <2>4, <3>1, <3>2, <3>4
    <3> QED  BY <3>1, <3>3, <3>4
  <2>6. CASE SendDownloadPacket(c)
    <3>1. /\ c2s[c] # << >> /\ Stop(c) /\ UNCHANGED <<present, files>>
          /\ \/ SendReply(c, "open_error", 0) \/ SendReply(c, "read_error", 0)
             \/ UNCHANGED s2c
      BY <2>6 DEF SendDownloadPacket, Reads, diskVars, FrameIsThere
    <3>2. CASE UNCHANGED s2c
      BY <3>1, <3>2 DEF Stop, NoAnswer
    <3> QED  BY <2>4, <3>1, <3>2 DEF Status
  <2> QED  BY <1>3, <2>1, <2>2, <2>3, <2>5, <2>6 DEF AnswerToClient
<1>4. ASSUME NEW c \in Conns, SplitFrame(c)
      PROVE  UNCHANGED <<present, files>> /\ (NoAnswer(s) \/ SplitFrame(s))
  BY <1>4, SplitFacts DEF NoAnswer
<1> QED  BY <1>1, <1>2, <1>3, <1>4 DEF ServerNext, HandleClientsThread, Environment

\* Nothing new under way on the connection.
LEMMA HonestKept ==
    ASSUME ServerOK, NEW s \in Conns, OneAtATime(s), HonestTo(s), remote' = remote,
           \A m \in buffer'[s] : AsksFor(m, s),
           \/ NoAnswer(s)
           \/ c2s'[s] = c2s[s] /\ s2c'[s] = << >>
    PROVE  HonestTo(s)'
<1>1. c2s'[s] \in {c2s[s], << >>} /\ s2c'[s] \in {s2c[s], << >>}
  BY DEF NoAnswer, OneAtATime
<1> QED  BY <1>1 DEF HonestTo, Asked, AsksFor

\* What the parser makes of a part of a request asks for the same file.
LEMMA SplitHonest ==
    ASSUME ServerOK, NEW s \in Conns, HonestTo(s), remote' = remote, SplitFrame(s)
    PROVE  HonestTo(s)'
<1> DEFINE m == Asked(s)
           x == Asked(s)'
<1>1. /\ m \in Request /\ x \in Parsed(m, buffer[s]) /\ buffer[s] \in SUBSET Request
      /\ s2c'[s] = s2c[s] /\ buffer'[s] = buffer[s] /\ AsksFor(m, s)
      /\ m.data \in Seq(Bytes) /\ \A old \in buffer[s] : old.data \in Seq(Bytes)
  BY SplitFacts DEF HonestTo, Request
<1> HIDE DEF m, x
<1>2. x \in buffer[s] \/ Alike(x, m)
  BY <1>1, ParsedFacts
<1>3. AsksFor(x, s)
  BY <1>1, <1>2 DEF HonestTo, AsksFor, Alike
<1> QED  BY <1>1, <1>3 DEF HonestTo, AsksFor, x

LEMMA ServerHonest ==
    ASSUME Inv, Honest, ServerNext, UNCHANGED <<handled, alive, cellVars, local, historyVars>>
    PROVE  Honest'
<1>1. ServerOK /\ DiskOK /\ remote' = remote
  BY DEF Inv, TypeInv, Honest, cellVars
<1>2. \A c \in Conns : c2s[c] # << >> => Asked(c).kind = "download"
  BY DEF Honest, HonestTo, AsksFor
<1>3. ASSUME NEW s \in Conns
      PROVE  UNCHANGED <<present, files>> /\ HonestTo(s)'
  <2>1. HonestTo(s) /\ OneAtATime(s)
    BY DEF Honest, Inv, Wire, WireOK
  <2>2. UNCHANGED <<present, files>> /\ (NoAnswer(s) \/ SplitFrame(s) \/ TrueAnswer(s))
    BY <1>1, <1>2, ServerAnswers
  <2>4. CASE SplitFrame(s)
    BY <1>1, <2>1, <2>2, <2>4, SplitHonest
  <2>5. \A m \in buffer'[s] : SplitFrame(s) \/ AsksFor(m, s)
    <3>1. CASE Reads(s)
      <4>1. c2s[s] # << >> /\ buffer'[s] = {Asked(s)}
        BY <1>1, <3>1 DEF Reads, FrameIsThere, ServerOK
      <4> QED  BY <2>1, <4>1 DEF HonestTo
    <3> QED  BY <1>1, <2>1, <3>1, ReaderMoves DEF HonestTo
  <2>3. CASE TrueAnswer(s)
    <3>1. PICK st \in Status, n \in Nat :
            /\ s2c'[s] = Append(s2c[s], Answer(st, n))
            /\ st = "exists" => Asked(s).path \in present /\ n = Len(files[Asked(s).path])
      BY <2>3 DEF TrueAnswer
    <3>2. s2c[s] = << >> /\ c2s'[s] = << >> /\ Asked(s).path = remote[s]
      BY <2>1, <2>3 DEF TrueAnswer, OneAtATime, HonestTo, AsksFor
    <3>3. Answer(st, n) \in Reply /\ Answer(st, n).status = st /\ Answer(st, n).size = n
      BY DEF Answer, Reply
    <3>4. Head(s2c'[s]) = Answer(st, n)
      BY <3>1, <3>2, <3>3, AppendToEmpty
    <3>5. st = "exists" => /\ remote[s] \in DOMAIN InitialFiles
                           /\ n = Len(InitialFiles[remote[s]])
      BY <1>1, <3>1, <3>2 DEF DiskOK
    <3>6. ~SplitFrame(s)
      BY <1>1, <3>2, SplitFacts
    <3> QED  BY <1>1, <2>2, <2>5, <3>2, <3>3, <3>4, <3>5, <3>6 DEF HonestTo, AsksFor
  <2> QED  BY <1>1, <2>1, <2>2, <2>3, <2>4, <2>5, HonestKept
<1>4. UNCHANGED <<present, files>> \/ Conns = {}
  BY <1>3
<1>5. Conns = {} => UNCHANGED <<present, files>>
  BY DEF ServerNext, HandleClientsThread, Environment, WakeAndLock, Restart, EraseTimedOut, Crash,
         Die, diskVars
<1> QED  BY <1>1, <1>3, <1>4, <1>5 DEF Honest, DiskOK

LEMMA ClientHonest ==
    ASSUME Inv, Honest, NEW s \in Conns, ClientStep(s)
    PROVE  Honest'
<1>1. UNCHANGED <<present, files, remote, buffer>>
  BY DEF ClientStep, Scheduler, Download, StartStream, Cancel, Pick, Launch, ConnectOk,
         ConnectFails, SendCheck, ReadCheck, CheckFails, TellRefused, TestLocalFile,
         OpenLocalFile, TestLoop, TellFailed, SendRequest, ReadPacket, serverVars, diskVars,
         readerVars
<1>2. ASSUME NEW t \in Conns
      PROVE  HonestTo(t)'
  <2>1. HonestTo(t) /\ OneAtATime(t) /\ WireOK(t) /\ TypeInv /\ ServerOK
    BY DEF Honest, Inv, Wire, WireOK, TypeInv
  <2>0. \A m \in buffer'[t] : AsksFor(m, t)
    BY <1>1, <2>1 DEF HonestTo
  <2>2. CASE t # s
    BY <1>1, <2>0, <2>1, <2>2, OwnLink, HonestKept DEF NoAnswer
  <2>3. CASE t = s /\ (SendCheck(s) \/ SendRequest(s))
    <3>1. PICK flags \in Flags : ClientSend(s, Ask(s, flags))
      BY <2>3 DEF SendCheck, SendRequest, Flags
    <3>2. c2s[s] = << >> /\ s2c[s] = << >>
      BY <2>1, <2>3 DEF SendCheck, SendRequest, Goto, WireOK, Sending, Unused
    <3>3. s2c'[s] = << >> /\ c2s'[s] \in {<< >>, Append(<< >>, Ask(s, flags))}
      BY <2>1, <3>1, <3>2 DEF ClientSend, ServerOK
    <3>4. /\ Head(Append(<< >>, Ask(s, flags))) = Ask(s, flags)
          /\ Ask(s, flags).kind = "download" /\ Ask(s, flags).path = remote[s]
      BY <2>1, AskType, AppendToEmpty DEF Ask
    <3> QED  BY <1>1, <2>0, <2>3, <3>3, <3>4 DEF HonestTo, Asked, AsksFor
  <2>4. CASE t = s /\ ClientReceive(s)
    <3>1. c2s'[s] = c2s[s] /\ s2c'[s] = << >>
      BY <2>1, <2>4 DEF ClientReceive, OneAtATime, ServerOK
    <3> QED  BY <1>1, <2>0, <2>1, <2>4, <3>1, HonestKept
  <2>5. CASE t = s /\ ~SendCheck(s) /\ ~SendRequest(s) /\ ~ClientReceive(s)
    <3>1. c2s' = c2s /\ s2c' = s2c
      BY <2>5 DEF ClientStep, Scheduler, Download, StartStream, Cancel, Pick, Launch, ConnectOk,
         ConnectFails, ReadCheck, CheckFails, TellRefused, TestLocalFile, OpenLocalFile,
         TestLoop, TellFailed, ReadPacket, Connect, ClientReceiveFails, linkVars
    <3> QED  BY <1>1, <2>0, <2>1, <2>5, <3>1, HonestKept DEF NoAnswer
  <2> QED  BY <2>2, <2>3, <2>4, <2>5
<1> QED  BY <1>1, <1>2 DEF Honest, DiskOK

LEMMA StepHonest ==
    ASSUME Inv, Honest, [Next]_downloadVars
    PROVE  Honest'
<1>1. CASE HandleProcessEvent \/ Unhandled \/ UNCHANGED downloadVars
  BY <1>1 DEF HandleProcessEvent, Unhandled, Abort, downloadVars, linkVars, serverVars, diskVars,
              cellVars, Honest, DiskOK, HonestTo, Asked, AsksFor, readerVars
<1>2. ASSUME NEW p \in Paths, RemoteFileVanishes(p)
      PROVE  Honest'
  <2>1. /\ present' = present \ {p} /\ files' = [files EXCEPT ![p] = << >>]
        /\ UNCHANGED <<c2s, s2c, remote, buffer>> /\ files \in [Paths -> Seq(Bytes)]
        /\ present \subseteq Paths
    BY <1>2 DEF RemoteFileVanishes, linkVars, readerVars, cellVars, Inv, TypeInv, ServerOK
  <2>2. DiskOK'
    BY <2>1 DEF Honest, DiskOK
  <2> QED  BY <2>1, <2>2 DEF Honest, HonestTo, Asked, AsksFor
<1> QED  BY <1>1, <1>2, ServerHonest, ClientHonest DEF Next, ClientStep

LEMMA InitHonest == Init => Honest
<1> SUFFICES ASSUME Init PROVE Honest
  OBVIOUS
<1>1. DiskOK
  BY DiskAssumption DEF Init, ServerInit, DiskOK
<1> QED  BY <1>1 DEF Init, ServerInit, LinkInit, Honest, HonestTo

-----------------------------------------------------------------------------
(***************************************************************************)
(* The refinement of DownloadContract.                                     *)
(***************************************************************************)

\* A thread that moves moves its stream's stage, or leaves all stages alone.
LEMMA GotoStage ==
    ASSUME TypeInv, NEW s \in Conns, NEW from, NEW to, Goto(s, from, to)
    PROVE  /\ Stages[s] = StageOf(from)
           /\ Stages' = [Stages EXCEPT ![s] = StageOf(to)]
           /\ StageOf(from) = StageOf(to) => Stages' = Stages
<1>1. pc \in [Conns -> Places] /\ pc[s] = from /\ pc' = [pc EXCEPT ![s] = to]
  BY DEF TypeInv, DownloadsOK, Goto
<1>2. Stages' = [t \in Conns |-> IF t = s THEN StageOf(to) ELSE StageOf(pc[t])]
  BY <1>1 DEF Stages
<1>3. \A t \in Conns : Stages[t] = StageOf(pc[t])
  BY DEF Stages
<1>4. Stages = [t \in Conns |-> StageOf(pc[t])]
  BY DEF Stages
<1> QED  BY <1>1, <1>2, <1>3, <1>4

LEMMA FailedStep ==
    ASSUME TypeInv, NEW s \in Conns, NEW value, SetStatus(s, value)
    PROVE  /\ value = "DOWNLOAD_FAILED" => Failed' = Failed \cup {s}
           /\ value # "DOWNLOAD_FAILED" => Failed' = Failed \ {s}
           /\ value # "DOWNLOAD_FAILED" /\ status[s] # "DOWNLOAD_FAILED" => Failed' = Failed
<1>1. /\ status'[s] = value /\ \A t \in Conns \ {s} : status'[t] = status[t]
  BY DEF SetStatus, TypeInv, DownloadsOK
<1> QED  BY <1>1 DEF Failed

\* Before it has an answer, and between two packets, a thread does nothing the
\* contract speaks of.
LEMMA QuietRefines ==
    ASSUME Inv, NEW s \in Conns,
           \/ StartStream(s) \/ Pick(s) \/ Launch(s) \/ ConnectOk(s) \/ SendCheck(s)
           \/ SendRequest(s)
    PROVE  UNCHANGED Contract!vars
<1>1. UNCHANGED <<remote, size, told, local, handled, alive>>
  BY DEF StartStream, Pick, Launch, ConnectOk, SendCheck, SendRequest, historyVars
<1>2. Stages' = Stages
  BY GotoStage DEF StartStream, Pick, Launch, ConnectOk, SendCheck, SendRequest, StageOf, Inv
<1>3. Failed' = Failed
  <2>1. CASE StartStream(s) \/ Launch(s)
    <3>1. status[s] # "DOWNLOAD_FAILED"
      BY <2>1 DEF StartStream, Launch, Goto, Inv, StreamInv, Failing
    <3> QED  BY <2>1, <3>1, FailedStep DEF StartStream, Launch, Inv
  <2>2. CASE Pick(s) \/ ConnectOk(s) \/ SendCheck(s) \/ SendRequest(s)
    BY <2>2 DEF Pick, ConnectOk, SendCheck, SendRequest, Failed
  <2> QED  BY <2>1, <2>2
<1> QED  BY <1>1, <1>2, <1>3 DEF Contract!vars

\* The check.
LEMMA CheckRefines ==
    ASSUME Inv, Honest, NEW s \in Conns,
           ConnectFails(s) \/ ReadCheck(s) \/ CheckFails(s) \/ TellRefused(s)
    PROVE  Contract!Drop(s) \/ Contract!Confirm(s) \/ Contract!Refuse(s) \/ Contract!TellRefused(s)
<1> USE DEF Inv
<1>1. UNCHANGED <<remote, local, handled, alive>> /\ alive
  BY DEF ConnectFails, ReadCheck, CheckFails, TellRefused, Goto, historyVars
<1>2. CASE ConnectFails(s)
  <2>1. Stages[s] = "asking" /\ Stages' = [Stages EXCEPT ![s] = "over"]
    BY <1>2, GotoStage DEF ConnectFails, StageOf
  <2> QED  BY <1>1, <1>2, <2>1
           DEF ConnectFails, historyVars, Failed, Contract!Drop, Contract!Move
<1>3. CASE ReadCheck(s)
  <2>1. Stages[s] = "asking" /\ Stages' = [Stages EXCEPT ![s] = "confirmed"]
    BY <1>3, GotoStage DEF ReadCheck, StageOf
  <2>2. /\ remote[s] \in DOMAIN InitialFiles
        /\ size' = [size EXCEPT ![s] = Len(InitialFiles[remote[s]])]
    BY <1>3 DEF ReadCheck, ClientReceive, Honest, HonestTo
  <2> QED  BY <1>1, <1>3, <2>1, <2>2
           DEF ReadCheck, historyVars, Failed, Contract!Confirm, Contract!Move
<1>4. CASE CheckFails(s)
  <2>1. Stages[s] = "asking" /\ Stages' = [Stages EXCEPT ![s] = "refused"]
    BY <1>4, GotoStage DEF CheckFails, StageOf
  <2>2. Failed' = Failed \cup {s}
    BY <1>4, FailedStep DEF CheckFails
  <2> QED  BY <1>1, <1>4, <2>1, <2>2
           DEF CheckFails, historyVars, Contract!Refuse, Contract!Move
<1>5. CASE TellRefused(s)
  <2>1. Stages[s] = "refused" /\ Stages' = [Stages EXCEPT ![s] = "over"]
    BY <1>5, GotoStage DEF TellRefused, StageOf
  <2> QED  BY <1>1, <1>5, <2>1
           DEF TellRefused, NotifyFailed, Failed, Contract!TellRefused, Contract!Move
<1> QED  BY <1>2, <1>3, <1>4, <1>5

\* The local file.  The one that is opened was not there at the start, also
\* when another stream has created it since the test.
LEMMA FileRefines ==
    ASSUME Inv, NEW s \in Conns, TestLocalFile(s) \/ OpenLocalFile(s)
    PROVE  Contract!Create(s) \/ Contract!Decline(s) \/ UNCHANGED Contract!vars
<1> USE DEF Inv
<1>1. UNCHANGED <<remote, size, told, handled, alive>> /\ alive
  BY DEF TestLocalFile, OpenLocalFile, Goto, historyVars
<1>2. CASE TestLocalFile(s) /\ remote[s] \in DOMAIN local
  <2>1. Stages[s] = "confirmed" /\ Stages' = [Stages EXCEPT ![s] = "settled"]
    BY <1>2, GotoStage DEF TestLocalFile, StageOf
  <2>2. Failed' = Failed \cup {s}
    BY <1>2, FailedStep DEF TestLocalFile
  <2> QED  BY <1>1, <1>2, <2>1, <2>2 DEF TestLocalFile, Contract!Decline, Contract!Move
<1>3. CASE TestLocalFile(s) /\ remote[s] \notin DOMAIN local
  <2>1. Stages' = Stages
    BY <1>3, GotoStage DEF TestLocalFile, StageOf
  <2> QED  BY <1>1, <1>3, <2>1 DEF TestLocalFile, Failed, Contract!vars
<1>4. CASE OpenLocalFile(s)
  <2>1. Stages[s] = "confirmed" /\ Stages' = [Stages EXCEPT ![s] = "settled"]
    BY <1>4, GotoStage DEF OpenLocalFile, StageOf
  <2>2. CASE remote[s] \in Uncreatable
    <3>1. Failed' = Failed \cup {s} /\ local' = local
      BY <1>4, <2>2, FailedStep DEF OpenLocalFile
    <3> QED  BY <1>1, <2>1, <3>1 DEF Contract!Decline, Contract!Move
  <2>3. CASE remote[s] \notin Uncreatable
    <3>1. Failed' = Failed /\ local' = Emptied(remote[s])
      BY <1>4, <2>3 DEF OpenLocalFile, Failed
    <3>2. remote[s] \notin DOMAIN LocalFiles
      BY <1>4 DEF OpenLocalFile, Goto, StreamInv, Opening
    <3> QED  BY <1>1, <2>1, <3>1, <3>2 DEF Emptied, Contract!Create, Contract!Move
  <2> QED  BY <2>2, <2>3
<1> QED  BY <1>2, <1>3, <1>4

\* The loop.
LEMMA LoopRefines ==
    ASSUME Inv, NEW s \in Conns, TestLoop(s) \/ TellFailed(s) \/ ReadPacket(s)
    PROVE  Contract!TellFailed(s) \/ Contract!End(s) \/ UNCHANGED Contract!vars
<1> USE DEF Inv
<1>1. UNCHANGED <<remote, size, local, handled, alive, status>> /\ alive
  BY DEF TestLoop, TellFailed, ReadPacket, Goto, historyVars
<1>2. Failed' = Failed
  BY <1>1 DEF Failed
<1>3. CASE TestLoop(s)
  <2>1. told' = told
    BY <1>3 DEF TestLoop, historyVars
  <2>2. CASE size[s] > 0
    <3>1. Stages' = Stages
      BY <1>3, <2>2, GotoStage DEF TestLoop, StageOf
    <3> QED  BY <1>1, <1>2, <2>1, <3>1 DEF Contract!vars
  <2>3. CASE ~(size[s] > 0)
    <3>1. Stages[s] = "settled" /\ Stages' = [Stages EXCEPT ![s] = "over"]
      BY <1>3, <2>3, GotoStage DEF TestLoop, StageOf
    <3> QED  BY <1>1, <1>2, <2>1, <2>3, <3>1 DEF Contract!End, Contract!Move
  <2> QED  BY <2>2, <2>3
<1>4. CASE TellFailed(s)
  <2>1. Stages[s] = "settled" /\ Stages' = Stages
    BY <1>4, GotoStage DEF TellFailed, StageOf
  <2>2. s \in Failed /\ size[s] > 0 /\ handled /\ told' = told \cup {s}
    BY <1>4 DEF TellFailed, NotifyFailed, Failed
  <2> QED  BY <1>1, <1>2, <2>1, <2>2 DEF Contract!TellFailed
<1>5. CASE ReadPacket(s)
  <2>1. Stages[s] = "settled" /\ Stages' = [Stages EXCEPT ![s] = "over"]
    BY <1>5, GotoStage DEF ReadPacket, StageOf
  <2>2. s \in Failed /\ size[s] > 0 => s \in told
    BY <1>5 DEF ReadPacket, Goto, StreamInv, Failing, Failed
  <2>3. told' = told
    BY <1>5 DEF ReadPacket, historyVars
  <2> QED  BY <1>1, <1>2, <2>1, <2>2, <2>3 DEF Contract!End, Contract!Move
<1> QED  BY <1>3, <1>4, <1>5

LEMMA CancelRefines ==
    ASSUME Inv, NEW s \in Conns, Cancel(s)
    PROVE  Contract!Cancel(s)
<1>1. Failed' = Failed \ {s}
  BY FailedStep DEF Cancel, Inv
<1>2. Stages' = Stages
  BY DEF Cancel, Stages
<1> QED  BY <1>1, <1>2 DEF Cancel, Contract!Cancel

LEMMA StepRefines ==
    ASSUME Inv, Honest, [Next]_downloadVars
    PROVE  [Contract!Next]_(Contract!vars)
<1>1. ASSUME NEW s \in Conns, ClientStep(s)
      PROVE  [Contract!Next]_(Contract!vars)
  BY <1>1, QuietRefines, CheckRefines, FileRefines, LoopRefines, CancelRefines
  DEF ClientStep, Scheduler, Download, Contract!Next
<1>2. CASE HandleProcessEvent
  <2>1. Stages' = Stages /\ Failed' = Failed
    BY <1>2 DEF HandleProcessEvent, cellVars, Stages, Failed
  <2>2. Contract!Listen
    BY <1>2, <2>1 DEF HandleProcessEvent, cellVars, historyVars, Contract!Listen
  <2> QED  BY <2>2 DEF Contract!Next
<1>3. CASE Unhandled
  <2>1. Stages' = Stages /\ Failed' = Failed
    BY <1>3 DEF Unhandled, Abort, cellVars, Stages, Failed
  <2>2. PICK s \in Conns : pc[s] = "refused" \/ (pc[s] = "head" /\ size[s] > 0
                                                   /\ status[s] = "DOWNLOAD_FAILED")
    BY <1>3 DEF Unhandled
  <2>3. Stages[s] = "refused" \/ (Stages[s] = "settled" /\ s \in Failed /\ size[s] > 0)
    BY <2>2 DEF Stages, StageOf, Failed
  <2>4. Contract!Die
    BY <1>3, <2>1, <2>3 DEF Unhandled, Abort, cellVars, historyVars, Contract!Die
  <2> QED  BY <2>4 DEF Contract!Next
<1>4. CASE UNCHANGED <<handled, alive, cellVars, local, historyVars>>
  BY <1>4 DEF cellVars, historyVars, Stages, Failed, Contract!vars
<1>5. CASE \E p \in Paths : RemoteFileVanishes(p)
  BY <1>4, <1>5 DEF RemoteFileVanishes
<1> QED  BY <1>1, <1>2, <1>3, <1>4, <1>5 DEF Next, ClientStep, downloadVars

\* The downloads implement the contract: through lost connections, crashes and
\* restarts of the server, files that vanish from its disk between two answers,
\* cancels, late handlers and any number of streams of one path, a local file
\* is made only new, empty, and for a file the server had offered with the size
\* the stream was told.
THEOREM DownloadsKeepContract == Spec => KeepsDownloadContract
<1>1. Init => Contract!Init
  <2> SUFFICES ASSUME Init PROVE Contract!Init
    OBVIOUS
  <2>1. Stages = [s \in Conns |-> "asking"]
    BY DEF Init, Stages, StageOf
  <2>2. Failed = {}
    BY DEF Init, Failed
  <2> QED  BY <2>1, <2>2 DEF Init, Contract!Init
<1>2. Inv /\ Honest /\ [Next]_downloadVars => Honest' /\ [Contract!Next]_(Contract!vars)
  BY StepHonest, StepRefines
<1> QED  BY <1>1, <1>2, InitHonest, DownloadInvariant, PTL
         DEF Spec, KeepsDownloadContract, Contract!Spec
====
