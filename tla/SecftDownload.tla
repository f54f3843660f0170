---- MODULE SecftDownload ----
(***************************************************************************)
(* Downloads of the SDK client (src/sdk/client/secclient) from the SDK      *)
(* server.  The application registers its handlers (secft_handle_event),    *)
(* starts download streams and may cancel them; every stream runs _download *)
(* in a thread of its own.  The server's get_packet is a stub, so no reply  *)
(* ever carries a packet: request_packet always ends in its default branch. *)
(***************************************************************************)
EXTENDS SecftServer

CONSTANTS
    Remotes,        \* the remote paths the streams may ask for, as functions on Conns
    LocalFiles,     \* the files in the client's directory at the start, by path
    Uncreatable,    \* paths the client cannot create a file at
    Removable,      \* files that may disappear from the server's disk
    Cancellable     \* bound: streams the application may cancel, once each

ASSUME DownloadsAssumption ==
    /\ Remotes \subseteq [Conns -> Paths]
    /\ DOMAIN LocalFiles \subseteq Paths
    /\ LocalFiles \in [DOMAIN LocalFiles -> Seq(Bytes)]
    /\ Uncreatable \subseteq Paths /\ Removable \subseteq Paths
    /\ Cancellable \subseteq Conns

VARIABLES
    handled,    \* a handler is registered for SEC_EVENT_PROCESS
    alive,      \* the application's process runs
    remote,     \* item.remote_path
    status,     \* item.stream_status
    size,       \* item.size: -1 until the server told it
    pc,         \* where the stream's thread is
    local,      \* the files in the client's directory: path and content
    told,       \* streams the application was told have failed
    asked,      \* history: streams the application cancelled
    exposed     \* history: streams whose thread ran before a handler was registered

cellVars == <<remote, status, size, pc>>
historyVars == <<told, asked, exposed>>
downloadVars == <<linkVars, serverVars, handled, alive, cellVars, local, historyVars>>

Init ==
    /\ ServerInit
    /\ handled = FALSE /\ alive = TRUE
    /\ remote \in Remotes
    /\ status = [s \in Conns |-> "NONE"]
    /\ size = [s \in Conns |-> -1]
    /\ pc = [s \in Conns |-> "new"]
    /\ local = LocalFiles
    /\ told = {} /\ asked = {} /\ exposed = {}

Goto(s, from, to) ==
    /\ alive
    /\ pc[s] = from
    /\ pc' = [pc EXCEPT ![s] = to]

SetStatus(s, value) == status' = [status EXCEPT ![s] = value]

(***************************************************************************)
(* The application.                                                        *)
(***************************************************************************)
\* The process event is not in the map until its handler is registered.
HandleProcessEvent ==
    /\ alive /\ ~handled
    /\ handled' = TRUE
    /\ UNCHANGED <<linkVars, serverVars, alive, cellVars, local, historyVars>>

\* check_download_stream finds nothing to refuse; add_task files the cell.
StartStream(s) ==
    /\ Goto(s, "new", "queued")
    /\ SetStatus(s, "START_DOWNLOAD")
    /\ UNCHANGED <<linkVars, serverVars, handled, alive, remote, size, local, historyVars>>

\* secft_cell::stop writes the status of an upload, whatever the stream is.
Cancel(s) ==
    /\ alive /\ s \in Cancellable \ asked /\ pc[s] # "new"
    /\ SetStatus(s, "UPLOAD_CANCELED")
    /\ asked' = asked \cup {s}
    /\ UNCHANGED <<linkVars, serverVars, handled, alive, remote, size, pc, local, told, exposed>>

(***************************************************************************)
(* The scheduler thread.                                                   *)
(***************************************************************************)
Pick(s) ==
    /\ status[s] = "START_DOWNLOAD"
    /\ Goto(s, "queued", "picked")
    /\ UNCHANGED <<linkVars, serverVars, handled, alive, remote, status, size, local, historyVars>>

Launch(s) ==
    /\ Goto(s, "picked", "connect")
    /\ SetStatus(s, "DOWNLOADING")
    /\ exposed' = IF handled THEN exposed ELSE exposed \cup {s}
    /\ UNCHANGED <<linkVars, serverVars, handled, alive, remote, size, local, told, asked>>

(***************************************************************************)
(* _download, in the stream's thread.                                      *)
(***************************************************************************)
ConnectOk(s) ==
    /\ Goto(s, "connect", "check")
    /\ up /\ Connect(s)
    /\ UNCHANGED <<serverVars, handled, alive, remote, status, size, local, historyVars>>

\* Only a system event tells of it.
ConnectFails(s) ==
    /\ Goto(s, "connect", "done")
    /\ ~up \/ "cut" \in Faults
    /\ UNCHANGED <<linkVars, serverVars, handled, alive, remote, status, size, local, historyVars>>

Ask(s, flags) ==
    [trusted |-> TRUE, kind |-> "download", path |-> remote[s], flags |-> flags,
     overwrite |-> FALSE, data |-> << >>]

\* check_remote_file.  The result of send_request is not looked at.
SendCheck(s) ==
    /\ Goto(s, "check", "checked")
    /\ ClientSend(s, Ask(s, "first"))
    /\ UNCHANGED <<serverVars, handled, alive, remote, status, size, local, historyVars>>

ReadCheck(s) ==
    /\ Goto(s, "checked", "create")
    /\ ClientReceive(s) /\ Head(s2c[s]).status = "exists"
    /\ size' = [size EXCEPT ![s] = Head(s2c[s]).size]
    /\ UNCHANGED <<serverVars, handled, alive, remote, status, local, historyVars>>

CheckFails(s) ==
    /\ Goto(s, "checked", "refused")
    /\ \/ ClientReceive(s) /\ Head(s2c[s]).status # "exists"
       \/ ClientReceiveFails(s)
    /\ SetStatus(s, "DOWNLOAD_FAILED")
    /\ UNCHANGED <<serverVars, handled, alive, remote, size, local, historyVars>>

\* callback_map->at throws in the stream's thread, which ends the process.
Abort ==
    /\ ~handled
    /\ alive' = FALSE
    /\ cut' = cut \cup {c \in Conns : sock[c] \in {"backlog", "open"}}
    /\ UNCHANGED <<sock, c2s, s2c, serverVars, handled, cellVars, local, historyVars>>

NotifyFailed(s) ==
    /\ handled
    /\ told' = told \cup {s}

TellRefused(s) ==
    /\ Goto(s, "refused", "done")
    /\ NotifyFailed(s)
    /\ UNCHANGED <<linkVars, serverVars, handled, alive, remote, status, size, local, asked, exposed>>

\* Slip: an existing file is opened, and so cut off, like a new one.
TestLocalFileSlip(s) ==
    /\ Goto(s, "create", "open")
    /\ UNCHANGED <<linkVars, serverVars, handled, alive, remote, status, size, local, historyVars>>

\* create_download_file, up to the test of exists ...
TestLocalFile(s) ==
    /\ IF remote[s] \in DOMAIN local
       THEN Goto(s, "create", "head") /\ SetStatus(s, "DOWNLOAD_FAILED")
       ELSE Goto(s, "create", "open") /\ UNCHANGED status
    /\ UNCHANGED <<linkVars, serverVars, handled, alive, remote, size, local, historyVars>>

\* The directory with a new file, or with this file cut off.
Emptied(path) ==
    [p \in DOMAIN local \cup {path} |-> IF p = path THEN << >> ELSE local[p]]

\* ... and from there on.  Another stream may have created the file in between.
OpenLocalFile(s) ==
    /\ Goto(s, "open", "head")
    /\ IF remote[s] \in Uncreatable
       THEN SetStatus(s, "DOWNLOAD_FAILED") /\ UNCHANGED local
       ELSE UNCHANGED status /\ local' = Emptied(remote[s])
    /\ UNCHANGED <<linkVars, serverVars, handled, alive, remote, size, historyVars>>

\* Slip: a failed stream goes on untold.
TestLoopSlip(s) ==
    /\ Goto(s, "head", IF size[s] > 0 THEN "request" ELSE "done")
    /\ UNCHANGED <<linkVars, serverVars, handled, alive, remote, status, size, local, historyVars>>

\* The loop: a failed stream is told of.  What the switch decides is lost, as
\* continue_download is overwritten by the request that follows in any case.
TestLoop(s) ==
    /\ size[s] > 0 => status[s] # "DOWNLOAD_FAILED"
    /\ Goto(s, "head", IF size[s] > 0 THEN "request" ELSE "done")
    /\ UNCHANGED <<linkVars, serverVars, handled, alive, remote, status, size, local, historyVars>>

TellFailed(s) ==
    /\ size[s] > 0 /\ status[s] = "DOWNLOAD_FAILED"
    /\ Goto(s, "head", "request")
    /\ NotifyFailed(s)
    /\ UNCHANGED <<linkVars, serverVars, handled, alive, remote, status, size, local, asked, exposed>>

\* Slip: the request is sent again before its reply.
SendRequestSlip(s) ==
    /\ Goto(s, "request", "request")
    /\ ClientSend(s, Ask(s, "packet"))
    /\ UNCHANGED <<serverVars, handled, alive, remote, status, size, local, historyVars>>

\* request_packet.  Its send may fail unseen, too.
SendRequest(s) ==
    /\ Goto(s, "request", "reply")
    /\ ClientSend(s, Ask(s, "packet"))
    /\ UNCHANGED <<serverVars, handled, alive, remote, status, size, local, historyVars>>

\* Slip: a reply without a packet is asked for again.
ReadPacketSlip(s) ==
    /\ Goto(s, "reply", "request")
    /\ ClientReceive(s) \/ ClientReceiveFails(s)
    /\ UNCHANGED <<serverVars, handled, alive, remote, status, size, local, historyVars>>

\* Whatever was read, or nothing: flags is 0, and the loop ends.
ReadPacket(s) ==
    /\ Goto(s, "reply", "done")
    /\ ClientReceive(s) \/ ClientReceiveFails(s)
    /\ UNCHANGED <<serverVars, handled, alive, remote, status, size, local, historyVars>>

Unhandled ==
    /\ alive
    /\ \E s \in Conns : pc[s] = "refused" \/ (pc[s] = "head" /\ size[s] > 0
                                                /\ status[s] = "DOWNLOAD_FAILED")
    /\ Abort

(***************************************************************************)
(* The server's disk.                                                      *)
(***************************************************************************)
RemoteFileVanishes(p) ==
    /\ p \in Removable \cap present
    /\ present' = present \ {p}
    /\ files' = [files EXCEPT ![p] = << >>]
    /\ UNCHANGED <<linkVars, up, clients, cursor, stamped, quiet, readerVars, handled, alive,
                   cellVars, local, historyVars>>

Scheduler(s) == Pick(s) \/ Launch(s)

Download(s) ==
    \/ ConnectOk(s) \/ ConnectFails(s)
    \/ SendCheck(s) \/ ReadCheck(s) \/ CheckFails(s) \/ TellRefused(s)
    \/ TestLocalFile(s) \/ OpenLocalFile(s) \/ TestLoop(s) \/ TellFailed(s)
    \/ SendRequest(s) \/ ReadPacket(s)

Next ==
    \/ HandleProcessEvent \/ Unhandled
    \/ \E s \in Conns : StartStream(s) \/ Cancel(s) \/ Scheduler(s) \/ Download(s)
    \/ \E p \in Paths : RemoteFileVanishes(p)
    \/ ServerNext /\ UNCHANGED <<handled, alive, cellVars, local, historyVars>>

Spec == Init /\ [][Next]_downloadVars

\* The scheduler, the threads of the streams and the server keep running.
FairSpec ==
    /\ Spec
    /\ ServerFairness
    /\ WF_downloadVars(Unhandled)
    /\ \A s \in Conns : WF_downloadVars(Scheduler(s)) /\ WF_downloadVars(Download(s))

-----------------------------------------------------------------------------
StatusValues == {"NONE", "START_DOWNLOAD", "DOWNLOADING", "DOWNLOAD_FAILED", "UPLOAD_CANCELED"}
Places == {"new", "queued", "picked", "connect", "check", "checked", "refused", "create",
           "open", "head", "request", "reply", "done"}

DownloadsOK ==
    /\ handled \in BOOLEAN /\ alive \in BOOLEAN
    /\ remote \in [Conns -> Paths]
    /\ status \in [Conns -> StatusValues]
    /\ size \in [Conns -> Nat \cup {-1}]
    /\ pc \in [Conns -> Places]
    /\ DOMAIN local \subseteq Paths /\ local \in [DOMAIN local -> Seq(Bytes)]
    /\ told \subseteq Conns /\ asked \subseteq Cancellable /\ exposed \subseteq Conns

\* Types, and stop-and-wait: the check and the packet request are never both
\* under way, so the reply that is read answers the request that was sent.
TypeOK ==
    /\ DownloadsOK /\ ServerOK
    /\ \A s \in Conns : Len(c2s[s]) + Len(s2c[s]) <= 1

\* Whatever the streams do at the same time, a file that was in the client's
\* directory before them keeps its content: create_download_file truncates
\* only what no stream found there, and request_packet appends nothing.
InitialLocalKept ==
    \A p \in DOMAIN LocalFiles : p \in DOMAIN local /\ local[p] = LocalFiles[p]

\* A download the server did not confirm leaves no local file behind: each
\* file that is new was confirmed for a stream (check_remote_file returned 0).
NewFilesWereConfirmed ==
    \A p \in DOMAIN local \ DOMAIN LocalFiles :
        \E s \in Conns : remote[s] = p /\ size[s] >= 0

\* A stream whose thread ended with DOWNLOAD_FAILED, of a remote file with
\* content, was told to the application (the loop, the only place that tells of
\* a failed local file, is not entered for an empty one).
FailureIsTold ==
    \A s \in Conns :
        (pc[s] = "done" /\ status[s] = "DOWNLOAD_FAILED" /\ size[s] # 0) => s \in told

\* An application that registers its process handler before a stream runs is
\* not ended by a failed download, in whatever order the streams fail.
HandledMeansAlive == exposed = {} => alive

\* What the contract of downloads sees of the place of a stream's thread.
StageOf(place) ==
    CASE place \in {"create", "open"}           -> "confirmed"
      [] place \in {"head", "request", "reply"} -> "settled"
      [] place = "refused"                      -> "refused"
      [] place = "done"                         -> "over"
      [] OTHER                                  -> "asking"

Stages == [s \in Conns |-> StageOf(pc[s])]
Failed == {s \in Conns : status[s] = "DOWNLOAD_FAILED"}

Contract == INSTANCE DownloadContract WITH
    Streams <- Conns, Offered <- InitialFiles, Kept <- LocalFiles,
    stage <- Stages, failed <- Failed, listening <- handled

\* The downloads implement the contract: across lost connections, a server that
\* dies or loses the file between its two answers, and streams of one path that
\* test for it before either opens it.
KeepsDownloadContract == Contract!Spec

\* A thread that reads has its reply, or can see that none will come, or its
\* session is one the server will answer or time out.
WaitingIsHeld ==
    \A s \in Conns :
        pc[s] \in {"checked", "reply"} => s2c[s] # << >> \/ Held(s) \/ Broken(s)

\* Every download comes to an end while the application lives, through a server
\* that ends (of a file that vanished between check and request) and starts again
\* and sessions it closes: the thread ends or a cancel withdrew it.
EveryDownloadEnds ==
    \A s \in Conns :
        pc[s] = "queued" ~>
            (~alive \/ pc[s] = "done" \/ (pc[s] = "queued" /\ status[s] = "UPLOAD_CANCELED"))
====
