---- MODULE SecftUpload ----
(***************************************************************************)
(* Uploads of the SDK client (src/sdk/client/secclient) to the SDK server. *)
(* Every stream is a secft_cell with a thread of its own that runs _upload; *)
(* the scheduler thread starts it and the application may cancel it at any *)
(* moment, without a lock.  A stream uses one connection, so streams are   *)
(* the connections of the server.                                          *)
(***************************************************************************)
EXTENDS SecftServer

CONSTANTS
    Path,       \* the local path of every stream, sent as the upload path
    Content,    \* the bytes of the local file (Size of them are there at the start)
    Size,       \* item.size, taken when the stream is started
    Trusted,    \* streams whose user and token the server knows
    LocalSizes, \* sizes the local file may change to while it is uploaded
    Cancellable \* bound: streams the application may cancel, once each

Missing == -1   \* the local file cannot be opened
NotAsked == -1  \* no cancel so far

ASSUME StreamsAssumption ==
    /\ Path \in [Conns -> Paths]
    /\ Content \in [Conns -> Seq(Bytes)]
    /\ Size \in [Conns -> Nat] /\ \A s \in Conns : Size[s] <= Len(Content[s])
    /\ Trusted \subseteq Conns /\ Cancellable \subseteq Conns
    /\ LocalSizes \in [Conns -> SUBSET Int]
    /\ \A s \in Conns : LocalSizes[s] \subseteq {Missing} \cup 0..Len(Content[s])

VARIABLES
    status,     \* item.stream_status
    offset,     \* item.offset: what get_packet has read
    pc,         \* where the stream's thread is
    local,      \* the size of the local file now, or Missing
    reported,   \* the offset in the last sec_process_upload event
    notices,    \* final events: "failed", "uploaded"
    asked,      \* history: the offset when the application cancelled
    overtaken,  \* history: streams whose cancel fell between a test and a write of status
    handled,    \* a handler is registered for SEC_EVENT_PROCESS
    alive       \* the application's process runs

appVars == <<asked, overtaken, handled, alive>>
cellVars == <<status, offset, pc, local, reported, notices, appVars>>
uploadVars == <<linkVars, serverVars, cellVars>>

Init ==
    /\ ServerInit
    /\ status = [s \in Conns |-> "START_UPLOAD"]
    /\ offset = [s \in Conns |-> 0]
    /\ pc = [s \in Conns |-> "queued"]
    /\ local = Size
    /\ reported = [s \in Conns |-> 0]
    /\ notices = [s \in Conns |-> {}]
    /\ asked = [s \in Conns |-> NotAsked]
    /\ overtaken = {}
    /\ handled \in (IF "deaf" \in Faults THEN BOOLEAN ELSE {TRUE})
    /\ alive = TRUE

Goto(s, from, to) ==
    /\ alive
    /\ pc[s] = from
    /\ pc' = [pc EXCEPT ![s] = to]

SetStatus(s, value) == status' = [status EXCEPT ![s] = value]

\* The process event is looked up in callback_map before its handler is called.
Tell(s, notice) ==
    /\ handled
    /\ notices' = [notices EXCEPT ![s] = @ \cup {notice}]

(***************************************************************************)
(* The scheduler thread: it reads the status, writes it, starts the thread. *)
(***************************************************************************)
Pick(s) ==
    /\ status[s] = "START_UPLOAD"
    /\ Goto(s, "queued", "picked")
    /\ UNCHANGED <<linkVars, serverVars, status, offset, local, reported, notices, appVars>>

Launch(s) ==
    /\ Goto(s, "picked", "connect")
    /\ SetStatus(s, "UPLOADING")
    /\ UNCHANGED <<linkVars, serverVars, offset, local, reported, notices, appVars>>

(***************************************************************************)
(* _upload, in the stream's thread.                                        *)
(***************************************************************************)
ConnectOk(s) ==
    /\ Goto(s, "connect", "head")
    /\ up /\ Connect(s)
    /\ UNCHANGED <<serverVars, status, offset, local, reported, notices, appVars>>

\* Only a system event tells of it; status stays UPLOADING.
ConnectFails(s) ==
    /\ Goto(s, "connect", "done")
    /\ ~up \/ "cut" \in Faults
    /\ UNCHANGED <<linkVars, serverVars, status, offset, local, reported, notices, appVars>>

\* Slip: the loop does not look for a cancel.
StopsSlip == {"UPLOAD_PAUSED", "UPLOADED"}
Stops == {"UPLOAD_CANCELED", "UPLOAD_PAUSED", "UPLOADED"}
GoesOn(s) == offset[s] < Size[s] /\ status[s] \notin Stops

TestLoop(s) ==
    /\ Goto(s, "head", IF GoesOn(s) THEN "mark" ELSE "end")
    /\ UNCHANGED <<linkVars, serverVars, status, offset, local, reported, notices, appVars>>

MarkUploading(s) ==
    /\ Goto(s, "mark", "send")
    /\ SetStatus(s, "UPLOADING")
    /\ UNCHANGED <<linkVars, serverVars, offset, local, reported, notices, appVars>>

\* get_packet: what it reads at the offset, and the request it makes of it.
ReadBytes(s) ==
    IF local[s] = Missing THEN << >>
    ELSE NextChunk(SubSeq(Content[s], 1, local[s]), offset[s])

GetPacket(s) ==
    LET len == Len(ReadBytes(s)) IN
    IF local[s] = Missing THEN BlankRequest(s \in Trusted, Path[s])
    ELSE UploadRequest(s \in Trusted, Path[s],
                       PacketFlags(offset[s] + len, len, Size[s]), ReadBytes(s))

Advance(s) == offset' = [offset EXCEPT ![s] = @ + Len(ReadBytes(s))]

\* Slip: the next packet is sent without waiting for the reply.
SendPacketSlip(s) ==
    /\ Goto(s, "send", "head")
    /\ Advance(s)
    /\ ClientSend(s, GetPacket(s))
    /\ UNCHANGED <<serverVars, status, local, reported, notices, appVars>>

\* Slip: progress is reported when the packet is sent.
SendPacketEarlySlip(s) ==
    /\ Goto(s, "send", "reply")
    /\ Advance(s)
    /\ ClientSend(s, GetPacket(s))
    /\ reported' = [reported EXCEPT ![s] = offset'[s]]
    /\ UNCHANGED <<serverVars, status, local, notices, appVars>>

SendPacket(s) ==
    /\ Goto(s, "send", "reply")
    /\ Advance(s)
    /\ ClientSend(s, GetPacket(s))
    /\ UNCHANGED <<serverVars, status, local, reported, notices, appVars>>

SendFails(s) ==
    /\ Goto(s, "send", "end")
    /\ Advance(s)
    /\ ClientSendFails(s)
    /\ SetStatus(s, "UPLOAD_FAILED")
    /\ Tell(s, "failed")
    /\ UNCHANGED <<serverVars, local, reported, appVars>>

\* Progress is reported for every reply, whatever its status.
ReadReply(s) ==
    /\ Goto(s, "reply", "head")
    /\ ClientReceive(s)
    /\ handled
    /\ reported' = [reported EXCEPT ![s] = offset[s]]
    /\ UNCHANGED <<serverVars, status, offset, local, notices, appVars>>

\* Slip: a reply that cannot be read ends the loop without an event.
ReadFailsSlip(s) ==
    /\ Goto(s, "reply", "end")
    /\ ClientReceiveFails(s)
    /\ SetStatus(s, "UPLOAD_FAILED")
    /\ UNCHANGED <<serverVars, offset, local, reported, notices, appVars>>

ReadFails(s) ==
    /\ Goto(s, "reply", "end")
    /\ ClientReceiveFails(s)
    /\ SetStatus(s, "UPLOAD_FAILED")
    /\ Tell(s, "failed")
    /\ UNCHANGED <<serverVars, offset, local, reported, appVars>>

\* Slip: the status of a download, as in the code beside it.
FinishSlip(s) ==
    /\ Goto(s, "end", "done")
    /\ IF offset[s] = Size[s]
       THEN SetStatus(s, "DOWNLOADED") /\ Tell(s, "uploaded")
       ELSE UNCHANGED <<status, notices>>
    /\ UNCHANGED <<linkVars, serverVars, offset, local, reported, appVars>>

\* After the loop only the offset decides.
Finish(s) ==
    /\ Goto(s, "end", "done")
    /\ IF offset[s] = Size[s]
       THEN SetStatus(s, "UPLOADED") /\ Tell(s, "uploaded")
       ELSE UNCHANGED <<status, notices>>
    /\ UNCHANGED <<linkVars, serverVars, offset, local, reported, appVars>>

(***************************************************************************)
(* The application and the local disk.                                     *)
(***************************************************************************)
\* The process event is not in callback_map until its handler is registered.
HandleProcessEvent ==
    /\ alive /\ ~handled
    /\ handled' = TRUE
    /\ UNCHANGED <<linkVars, serverVars, status, offset, pc, local, reported, notices, asked,
                   overtaken, alive>>

\* The thread of s is about to tell of a failure, of progress or of the end.
AboutToTell(s) ==
    \/ pc[s] = "send" /\ Broken(s)
    \/ pc[s] = "reply" /\ (s2c[s] # << >> \/ Broken(s))
    \/ pc[s] = "end" /\ offset[s] = Size[s]

\* callback_map->at throws in the stream's thread, which ends the process.
Unhandled ==
    /\ alive /\ ~handled
    /\ \E s \in Conns : AboutToTell(s)
    /\ alive' = FALSE
    /\ cut' = cut \cup {c \in Conns : sock[c] \in {"backlog", "open"}}
    /\ UNCHANGED <<sock, c2s, s2c, serverVars, status, offset, pc, local, reported, notices,
                   asked, overtaken, handled>>

\* stop_task from the application's thread.
Cancel(s) ==
    /\ alive /\ s \in Cancellable /\ asked[s] = NotAsked
    /\ asked' = [asked EXCEPT ![s] = offset[s]]
    /\ overtaken' = IF pc[s] \in {"picked", "mark"} THEN overtaken \cup {s} ELSE overtaken
    /\ SetStatus(s, "UPLOAD_CANCELED")
    /\ UNCHANGED <<linkVars, serverVars, offset, pc, local, reported, notices, handled, alive>>

LocalFileChanges(s) ==
    /\ "local" \in Faults
    /\ \E n \in LocalSizes[s] : local' = [local EXCEPT ![s] = n]
    /\ UNCHANGED <<linkVars, serverVars, status, offset, pc, reported, notices, appVars>>

Scheduler(s) == Pick(s) \/ Launch(s)

Upload(s) ==
    \/ ConnectOk(s) \/ ConnectFails(s)
    \/ TestLoop(s) \/ MarkUploading(s)
    \/ SendPacket(s) \/ SendFails(s) \/ ReadReply(s) \/ ReadFails(s)
    \/ Finish(s)

Next ==
    \/ HandleProcessEvent \/ Unhandled
    \/ \E s \in Conns : Scheduler(s) \/ Upload(s) \/ Cancel(s) \/ LocalFileChanges(s)
    \/ ServerNext /\ UNCHANGED cellVars

Spec == Init /\ [][Next]_uploadVars

\* The scheduler, every upload thread and the server's threads keep running.
FairSpec ==
    /\ Spec
    /\ ServerFairness
    /\ WF_uploadVars(Unhandled)
    /\ \A s \in Conns : WF_uploadVars(Scheduler(s)) /\ WF_uploadVars(Upload(s))

-----------------------------------------------------------------------------
Stored(s) == files[Stem[Path[s]]]
FirstBytes(s, n) == SubSeq(Content[s], 1, n)

\* part is made of the first n bytes of whole, in their order, each at most once.
Thinned(part, whole, n) ==
    \E at \in [DOMAIN part -> 1..n] :
        /\ \A i, j \in DOMAIN part : i < j => at[i] < at[j]
        /\ \A i \in DOMAIN part : part[i] = whole[at[i]]

Initially(s) ==
    IF Stem[Path[s]] \in DOMAIN InitialFiles THEN InitialFiles[Stem[Path[s]]] ELSE << >>

\* Streams whose stored file is theirs alone and is replaced, not appended to:
\* a file of one packet goes out as "last", which appends.
Alone(s) == \A t \in Conns \ {s} : Stem[Path[t]] # Stem[Path[s]]
Replaces(s) == Size[s] > BufferSize \/ Initially(s) = << >>
Regular == {s \in Conns : Size[s] > 0 /\ Alone(s) /\ Replaces(s)}

StatusValues == {"START_UPLOAD", "UPLOADING", "UPLOADED", "UPLOAD_CANCELED", "UPLOAD_FAILED"}
Places == {"queued", "picked", "connect", "head", "mark", "send", "reply", "end", "done"}

CellsOK ==
    /\ status \in [Conns -> StatusValues]
    /\ offset \in [Conns -> Nat]
    /\ pc \in [Conns -> Places]
    /\ local \in [Conns -> Int]
    /\ \A s \in Conns : local[s] \in {Missing} \cup 0..Len(Content[s])
    /\ reported \in [Conns -> Nat]
    /\ notices \in [Conns -> SUBSET {"failed", "uploaded"}]
    /\ asked \in [Conns -> Nat \cup {NotAsked}]
    /\ overtaken \subseteq Conns
    /\ handled \in BOOLEAN /\ alive \in BOOLEAN

TypeOK == CellsOK /\ ServerOK

\* At most one packet or reply is under way on a connection, and only while
\* the thread waits for it or after it gave up, whole or read in part.  The 8192
\* byte buffers of both sides and the offset in progress events rely on it.
StopAndWait ==
    \A s \in Conns :
        /\ Len(c2s[s]) + Len(s2c[s]) <= 1
        /\ pc[s] \in {"queued", "picked", "connect", "head", "mark", "send"}
             => c2s[s] = << >> /\ s2c[s] = << >>

\* The file on the server is what has been reported, at most the one packet
\* under way further; before the first packet it is what was there before.
\* Resets, crashes, restarts, time-outs, cancels, short reads that the server
\* rejects and a local file that grows, is cut or disappears never leave a gap, a
\* repetition or a foreign byte in it.  The one thing that does is a short read of
\* a packet that still parses, with what the packet before left in the buffer.
StoredIsFront ==
    \A s \in Regular : mixed[s] = {} =>
        \/ Stored(s) = FirstBytes(s, reported[s])
        \/ Stored(s) = FirstBytes(s, offset[s])
        \/ reported[s] = 0 /\ Stored(s) = Initially(s)

\* A full disk can keep any part of a packet and no step looks: bytes are lost,
\* but what is kept is in the order of the local file, nothing twice, nothing
\* foreign and nothing that get_packet has not read, until the end, unless a
\* short read made another packet of one.
StoredIsThinned ==
    \A s \in Regular : mixed[s] = {} =>
        \/ Thinned(Stored(s), Content[s], offset[s])
        \/ reported[s] = 0 /\ Stored(s) = Initially(s)

\* Where a byte stored at path p may come from: a stream that goes there and a
\* position of its file up to its limit.  A stream of an empty file sends nothing.
Senders(p) == {s \in Conns : Size[s] > 0 /\ Stem[Path[s]] = p}
Origins(p, limit) == UNION {[by : {s}, at : 1..limit[s]] : s \in Senders(p)}

\* part is woven of these: the bytes of each stream in their order, each at most once.
Woven(part, p, limit) ==
    \E from \in [DOMAIN part -> Origins(p, limit)] :
        /\ \A i \in DOMAIN part : part[i] = Content[from[i].by][from[i].at]
        /\ \A i, j \in DOMAIN part :
             i < j /\ from[i].by = from[j].by => from[i].at < from[j].at

InitialAt(p) == IF p \in DOMAIN InitialFiles THEN InitialFiles[p] ELSE << >>
Behind(p, old) == SubSeq(files[p], Len(old) + 1, Len(files[p]))

\* Whatever path, also one that several streams share because the server cuts
\* paths down to their stem, and whatever the disk keeps: behind the old content,
\* or nothing, stands what the streams to it have read, their packets mixed but
\* each stream's bytes in order, none twice and none foreign, as long as no short
\* read made another packet of one of theirs.  A path that only empty files go to
\* is left as it was.
StoredIsWoven ==
    \A p \in Paths : (\A s \in Senders(p) : mixed[s] = {}) =>
        /\ \E old \in {<< >>, InitialAt(p)} :
             files[p] = old \o Behind(p, old) /\ Woven(Behind(p, old), p, offset)
        /\ Senders(p) = {} =>
             files[p] = InitialAt(p) /\ (p \in present <=> p \in DOMAIN InitialFiles)

\* An application that got "uploaded" and not "failed" can rely on it: the
\* whole file, as long as it was when the stream started, is on the server, also
\* if a short read made another packet of any but the last: the rest of that one
\* is rejected and the failure told.  Of the last packet nothing is told.
CleanUploadIsStored ==
    \A s \in Regular :
        notices[s] = {"uploaded"} /\ mixed[s] # {"last"} => Stored(s) = FirstBytes(s, Size[s])

\* "user_callback [is the callback after the file was uploaded successfully]"
\* (README.md, line 89): "uploaded" is told only about files that are stored.
UploadedMeansStored ==
    \A s \in Regular : "uploaded" \in notices[s] => Stored(s) = FirstBytes(s, Size[s])

\* "3. [upload again]" (README.md, line 96), with overwrite always set: a clean
\* upload leaves the new content, also of a file that fits in one packet.
SecondUploadReplaces ==
    \A s \in Conns :
        (Size[s] > 0 /\ Alone(s) /\ notices[s] = {"uploaded"})
            => Stored(s) = FirstBytes(s, Size[s])

\* A cancel that does not fall between a test and the following write of the
\* status takes effect after at most one more packet.
CancelIsPrompt ==
    \A s \in Conns \ overtaken :
        asked[s] # NotAsked => offset[s] <= asked[s] + BufferSize

\* The thread of an upload does not end in silence: unless the connection was
\* never made or the stream was cancelled, the application got a final event.
\* (A file smaller than a packet that grows is read past its noted size, and so is
\* one whose last packet grew and was taken for another one by a short read.)
EndIsTold ==
    \A s \in Conns :
        /\ pc[s] = "done" /\ sock[s] # "none" /\ asked[s] = NotAsked /\ mixed[s] = {}
        /\ Size[s] >= BufferSize \/ "local" \notin Faults
        => notices[s] # {}

\* What a short read did to a packet of the stream, for the contract.
SpoiledAt(flags) ==
    CASE flags = {}       -> "no"
      [] flags = {"last"} -> "last"
      [] OTHER            -> "early"

\* The uploads of regular streams implement the abstract contract, also when a
\* packet is read in part or the process event has no handler.
Contract == INSTANCE UploadContract WITH
    Streams <- Regular,
    Initial <- [s \in Regular |-> Initially(s)],
    stored <- [s \in Regular |-> Stored(s)],
    reported <- [s \in Regular |-> reported[s]],
    notices <- [s \in Regular |-> notices[s]],
    spoiled <- [s \in Regular |-> SpoiledAt(mixed[s])],
    listening <- handled

KeepsContract == Contract!Spec

\* A thread in read_reply has its reply, or can see that none will come, or its
\* session is one the server will answer or time out.
WaitingIsHeld ==
    \A s \in Conns : pc[s] = "reply" => s2c[s] # << >> \/ Held(s) \/ Broken(s)

\* The loop of _upload does not turn on the spot: a packet that was answered
\* brought the progress forward.  (Of a local file cut below the offset it does.)
RepliesAdvance ==
    [][\A s \in Conns : pc[s] = "reply" /\ pc'[s] = "head" => reported'[s] > reported[s]]_uploadVars

\* Every upload comes to an end, through resets, server crashes, packets read in
\* part and sessions the server closes: its thread ends, it was cancelled before it
\* began, or an event without a handler ended the application.
EveryUploadEnds ==
    \A s \in Conns :
        <>(~alive \/ pc[s] = "done" \/ (pc[s] = "queued" /\ status[s] = "UPLOAD_CANCELED"))
====
