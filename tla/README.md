# A model of protobuf_file_transfer

TLA+ modules for the file transfer of this repository, the TLC configurations
that check them on small instances, and proofs TLAPS checks for every instance.
`PROJECT.json` maps each definition to the lines of the source it stands for.

## 1. Inventory

The repository holds two generations of the same program. `src/sdk` is the
current one: a C++ SDK (client and server) that speaks protobuf messages over
TCP. `src/zuolin` and `src/zuolin_client` are the older one: a C file server
behind a Flask web service, and a Qt client.

| Part | State it keeps | Operations | Talks to |
|---|---|---|---|
| Messages (`sdk/proto/file_transfer.proto`) | none | encode, decode | both ends |
| SDK server (`sdk/server/secserver/secft.cpp`) | the session list `clients` under mutex `cs`; per session socket, `last_packet`, `clients_changed`; the upload directory | `accept_thread`, `handle_clients_thread`, `answer_to_client`, `read_request`, `process_request`, `do_upload`, `do_download` | clients over TCP, the disk |
| SDK client, upload (`sec_client_task.cpp`, `_upload`) | one `secft_cell` per stream: status, offset, size, kind, socket | connect, `get_packet`, `send_request`, `read_reply`, events | server, application callbacks |
| SDK client, scheduler (`sec_client_task.cpp`, `sec_scheduler`) | task map, `stream_id`, `task_count`, `max_task_num` | `add_task`, `stop_task`, `set_task_num`, `scheduler` | API, task threads |
| SDK client, API (`secftclient.cpp`) | handler map, properties, the scheduler | `secft_start_stream`, `secft_cancel_stream`, `secft_handle_event`, `sceft_set_property` | application, scheduler |
| SDK client, download (`_download`) | local file, offset, `continue_download` | `check_remote_file`, `request_packet`, `create_download_file` | server |
| zuolin server and client (`zuolin_file_server.c`, `zuolin_file_client.c`) | `now_token`, the file of the connection, `totalrecv`; a FIFO named after the process | `write_pipe`, accept, `myprocess`, `handle`; `linkS`, `upload_file`, `download_file` | SSL peers, web service |
| web service (`index.py`, `pipe.py`) | list of logged-in users in each uwsgi worker | login, logout, files, start of the file server | Qt client, zuolin server |
| Qt client (`zuolin_client`) | name, token and login state; the login window and its timer; requests under way | login, time-out, answers, lists of files | web service |

What is hard in it:

- **Threads without locks.** The server has two threads on one list; the client
  has the application's threads, a spinning scheduler thread and a thread per
  stream, all writing the same `stream_status`. Cancelling takes no lock at all.
- **Read, decide, write.** The scheduler and the upload loop test the status and
  write it later; a cancel in between is lost.
- **Failure in the middle of a transfer.** Resets, server crashes and restarts,
  sessions the server closes after a time-out, local files that change while they
  are read; the client advances its offset before it knows the packet was sent.
- **Replies that never come.** Some error paths of the server return without an
  answer and leave the client to the time-out.
- **Frames that arrive in parts.** The server takes a frame with one `read_some` and parses its
  buffer as if all of it had come; what the frame before left there is parsed with it.
- **Limits.** `max_task_num`, the 8192 byte buffers (`4096*2`), files of exactly one packet, sizes
  sent in 4 bytes.
- **Two sides waiting for each other.** A FIFO that both must open, a directory read twice,
  a connection whose peer is gone.

What makes each part correct:

- *Server*: sessions are neither lost nor doubled, the list does not change under
  the handler's iterators, silent sessions go, no client waits for ever, rejected
  clients stay out, files are only extended unless a first packet overwrites.
- *Upload*: one packet under way; the stored file is always a front of the local
  one; "uploaded" can be believed; cancels are prompt; every upload ends, and says so.
- *Scheduler*: ids name the caller's own streams, each started thread is counted
  once, streams start in order, withdrawn ones never start, the others do.
- *Download*: what was in the client's directory keeps its content, new files are empty and belong
  to remote files the server has, failures are told, every download ends.
- *Framing*: the reader makes of the stream the messages that were written to it.
- *zuolin*: a transfer nobody disturbs stores the whole file, one that is cut a front of it;
  launch and connection come to an end, or we can name the way they hang.
- *Login*: name and token belong together, windows follow logins, files are shown only under
  a name that logged in, the button comes back.

`PROJECT.json` lists under "hazards" each place where this can go wrong, with the
properties aimed at it or the reason there is none.

## 2. Modules

```
SecftProtocol   SecftLink                       messages; connections
        \        /
       SecftServer                              the server: two threads, sessions, disk
     /      |       \
SecftService | SecftDownload                    any requests; the client's downloads
             |       +------> DownloadContract    (refinement)
        SecftUpload --------> UploadContract    the client's uploads  (refinement)

SecftFraming ----> FrameChannel                 frames on a byte stream  (refinement)
SecScheduler ----> TaskPool                     the client's task map  (refinement)
ZuolinLaunch -- ZuolinTransfer                  start of the C server; one connection of it
                     +------> CopyContract      (refinement)
LoginService                                    Qt client, web workers

*_proofs.tla           theorems about the module of that name (SecftServer_proofs:
                       lemmas the proofs about uploads, downloads and the service share)
MC*.tla, MC*.cfg       instances for TLC
```

**SecftProtocol** has the message records and the two decisions that join both
ends: `PacketFlags` (which flag `get_packet` puts on a packet) and `OpenMode` (how
`do_upload` opens the file for it). A path is an element of `Paths`; `Stem` stands
for `std::filesystem::path::stem`, which the server applies to upload paths only.
Credentials are one bit of a request, `trusted`.

**SecftLink** is boost::asio as the code uses it: per connection the state of the
server's socket, whether it is cut, and a queue of frames each way. A send on a
broken connection may succeed (the kernel took the bytes) and go nowhere. That a frame may not be
there as a whole when the server reads it is in SecftServer.

**SecftServer** composes them with the server. `cursor` is the position of
`handle_clients_thread`: it sleeps at 0 without the mutex, and otherwise has the mutex
and is at a session or behind the last. The code holds `cs` for the whole pass, so
`AcceptThread` is enabled only at 0. One action per outcome of `answer_to_client`:
`AnswerBroken` and `AnswerIdle` (nothing to read, the time-out test), `RejectRequest`,
`StoreUpload`, `RefuseUpload`, `IgnoreUpload`, `CheckDownload`, `SendDownloadPacket`,
`IgnoreDownload`, `DieOnMissingFile` (`file_size` throws what nobody catches).
`EraseTimedOut` ends a pass. A session whose `last_packet` was never assigned is
`TimedOut` whatever the clock says: the code subtracts from `not_a_date_time`.
`PassTime` is the clock.

`read_request` takes a frame with one `read_some`, which gives what has arrived, and parses
`data_buffer` as if that were all. `SplitFrame` is the handler coming to a frame of which only a
part is there ("split" among the `Faults`): the frame at the front is replaced by what the parser
makes of it (`Parsed`), which is the request itself when only padding is missing, a request without
credentials, the request before it again, or, of two frames of one length, the front of the data of
the new one and the tail of the old (`Overlap`). `buffer` holds the request a session read last. The
answer is then that to any request, and the reader stands within the frame (`torn`); the next time
the handler comes, it takes the rest for a frame, which has no credentials, and stops the session
(`ReadRest`). `mixed` remembers the flag of a packet that became another valid one. Beside the
faults with obvious names, "deaf" is an application without a process handler.

**SecftService** puts clients in front of it that send any request of a set in any order.

**SecftUpload** puts upload streams in front of it. A stream is one connection, so
`Conns` serves for both. `pc` follows the thread: `queued`, `picked` (the scheduler has
read the status and not yet written it), `connect`, `head` (the loop test), `mark` (tested,
`UPLOADING` not yet written), `send`, `reply`, `end`, `done`. Splitting test and write is
what lets a cancel fall in between; `overtaken` records the streams where it did.
`GetPacket` and `Advance` are one step with the send: nothing else reads `offset` between.
`local` is the size of the local file now, or `Missing`. `handled` says whether the process handler is
registered. Each of the five events of `_upload` looks it up with `callback_map->at`; the
step that tells is enabled with a handler, and without one `Unhandled` ends the process, whose connections
are cut.

**UploadContract** is what an upload promises, without packets or sessions: stored data grows from
the front (`Store`), progress names only what is stored (`Report`), a clean "uploaded" means the
whole file, for good (`Succeed`). One packet of a stream may be taken for another (`Spoil`); the
file then holds its own bytes in any order (`StoreSpoiled`), and "uploaded" without "failed" is
allowed only if it was the last one. The process ends only when nobody listens (`End`).
`KeepsContract` in SecftUpload instantiates it, for the `Regular` streams; `SpoiledAt` reads
`mixed`.

`outfile.write` is unchecked, so with "disk" among the `Faults` the server stores any front of a
packet (`Written`) and answers SUCCESS. `Thinned` says what is left of a file then.

**SecftDownload** puts download streams, the application and the client's directory in front
of the server. A thread asks `check_remote_file`, tests for the local file and opens it (two
steps: `exists`, then `ofstream`), and loops. The server's `get_packet` is a stub that sets no
flags, so `request_packet` always ends in its default branch: no download ever writes a
byte, and the lines behind it (290-299) cannot be reached. `continue_download` is overwritten
at the end of the loop, so neither a cancel nor an existing file keeps the request from being
sent. `handled` says whether the process handler is registered; until it is,
`callback_map->at` throws and the client process ends (`Abort`).

**DownloadContract** is what a download promises: only a file the server has is confirmed, and with
the size it has; only a confirmed stream makes a local file, new and empty, and never where one
was; a failed stream ends when it was told, unless the file is empty; the process ends only
when nobody listens. `KeepsDownloadContract` maps to it: a thread is "asking" until the reply to
the check is read (`StageOf`), a stream failed when its status says so, a failure is told by its event.

**SecftFraming** is one direction of a stream, counted in bytes. `Send` writes size + 4 bytes,
`Arrive` delivers any number of them, `Peek` takes the size from at most 4 bytes, and the read
either waits for all (`composed`, the client) or takes what is there (`read_some`, the server). With
half a header the missing bytes are zero. **FrameChannel** is the abstract specification, a queue of
whole messages, which is what SecftLink gives the client. The server's reader has no such queue
behind it once a read came short: `SplitFrame` and `ReadRest` say for requests what `read_some` says
here for bytes.

**ZuolinLaunch** is the launch of the C server by `start_server`: parent and child as two
automata that meet at a FIFO. **ZuolinTransfer** extends it with one connection: the client's
place `cpc`, the server's place `spc`, and the SSL records under way in both directions; a
length and the text it announces are one record. `position` is the offset of the sender's
file, `total` and `expected` are the receiver's `totalrecv` and `filesize`. The same variables
serve an upload and a download; the sender is the client in one and the server in the other.

**CopyContract** is what one connection promises, without processes, records or chunks: the
receiver's file is a front of the sender's over its old content, the front only grows, and when the
receiver is through it is the whole file, unless somebody died, a file was changed, or the size does not fit
the length field; a request that is refused stores nothing. `KeepsCopyContract` maps to it: the receiver is
the server of an upload and otherwise the client (`ReceiverIsThrough`), its `totalrecv` is the count, a
file that is not there is sent as an empty one (`Sent`), and nothing is promised of the content once the
sender's file or the directory has changed (`Spoilt`).

**LoginService** is the Qt client against the uwsgi workers. `logins` and `lists` hold the HTTP
requests, each with a stage from "sent" to "done", so that answers come in any order, late or
never. `users` is the list of each worker as a count per name. A token is the number of the
login it came from: `verify_auth_token` does not compare names.

**SecScheduler** is `sec_scheduler` under its API. `spc` and `iter` are the scheduler
thread's position; `res` is the local `res` of `add_task`, returned after the unlock.
A stream of unknown type has an uninitialised status, a nondeterministic choice.

**TaskPool** is what the scheduler promises, without map, mutex, iterator or status words: ids are
told to their owners only, streams that wait are started in order, each once, in rounds that open
below the limit and close when none waits, and only who knows an id withdraws the stream, which
then never starts. `IsPool` maps a task to "waiting", "idle", "running" or "ended" by its status
and its thread; a round is open when the scheduler is behind its test of the limit.

Operators whose names end in `Slip` are wrong variants of the definition that follows
them (a dropped guard, a missing reset, another order). Nothing uses them in the
model; each has been put in the place of its original to confirm that the
property aimed at it then fails. `PROJECT.json` pairs them ("mutants").

## 3. Runs

| Run | Instance | Checks | Result |
|---|---|---|---|
| `service` | 2 connections, 5 paths (file, same stem, directory, sealed, empty), 14 requests for one client, 3 for the other, which sends two; crashes; whole frames | types, `OpenSocketsAreListed`, `ListIsStableDuringPass`, `DeniedStaysOut`, `OnlyOverwriteDiscards`, `NoOneWaitsForEver`, `SilentSessionsAreErased` | hold |
| `service_silence` | the same | `ClosedOnlyAfterSilence` | violated |
| `upload` | 2 streams (3 packets over an old file; 1 packet to a new name), cuts, crashes, restarts, frames read in part, a truncated local file, with or without a process handler | types, `StopAndWait`, `StoredIsFront`, `CleanUploadIsStored`, `KeepsContract` | hold |
| `upload_ends` | 1 stream, 2 bytes a packet, cuts, crashes, frames read in part, a disk that loses the end of any packet, a local file that grows or vanishes, a cancel, with or without a process handler | `EndIsTold`, `StoredIsThinned`, `CancelIsPrompt`, `EveryUploadEnds` | hold |
| `upload_told` | 1 stream, cuts, frames read in part | `UploadedMeansStored` | violated |
| `upload_again` | 1 stream that fits in one packet, no faults | `SecondUploadReplaces` | violated |
| `scheduler` | 2 callers, 3 streams, limit 3 or 4 | types, `IdsNameOwnStreams`, `EveryThreadIsCounted`, `WithdrawnNeverStarts`, `IsPool`, `EveryStreamStarts` | hold |
| `scheduler_cap` | 1 caller, 5 streams, limit 4 | `EveryStreamStarts` | violated |
| `download` | 2 streams over three pairs of remote paths (a file that may vanish and one that exists locally; an empty one and a directory; an uncreatable one and a missing one), a cancel, handlers registered at any time, a server that dies of a missing file and restarts; whole frames, no resets | types with stop-and-wait, `FailureIsTold`, `KeepsDownloadContract`, `EveryDownloadEnds` | hold |
| `framing` | 3 messages of sizes 1, 3 and 5, headers of two bytes from size 4 on, both readers | types, `ExactUntilShort`, `IsChannel` | hold |
| `zuolin` | a launch with 3 polls, left-over FIFOs or none; upload, download, quit or no command; sources of 0, 1, 3 and 6 bytes, chunks of 2, sizes modulo 4, old files of 0 and 2 bytes, 2 directory entries; either side may die, file and directory may change once | types, `WholeIsStored`, `FrontIsStored`, `KeepsCopyContract`, `ConnectionsEnd`, `LaunchSettles` | hold |
| `login` | 2 users, 2 workers, 3 clicks, one mistyped, a time-out after 1 second, 1 list; restarts and logouts | types, `IdentityIsOwn`, `WindowsAreExplained`, `FilesNeedLogin`, `SpinnerEnds` | hold |

The four violations are disagreements between the code and what the repository says
of it:

1. *A session can be closed without any silence* (`secft.cpp:79-83` against the comment
   at line 45): polled after `accept` and before its first bytes have arrived, it counts
   as timed out at once.
2. *"uploaded" can follow "failed"* (`sec_client_task.cpp:192` against the README's
   description of the callback): after the loop only `offset == size` is tested, and
   `get_packet` has already advanced the offset for the packet that was lost. The line is
   contradicted in another way, below under *Short reads*; the run stops at the shorter one.
3. *A second upload of a small file appends* (`sec_client_task.cpp:391` against "upload
   again" in the README, with `overwrite` always set): one packet is flagged LAST, never FIRST.
4. *The fifth stream never starts* (`sec_client_task.cpp:8` against the test program,
   which starts five): nothing calls `decrease_task_count`.

What the other runs had to leave room for:

- *Short reads* (`secft.cpp:97`). A packet of 4096 bytes needs several TCP segments and the handler
  looks each millisecond, so a part of a packet is an ordinary thing to read. Behind another full
  packet the part parses: user, token and the tail of the data are those of the packet before. It is
  stored and answered SUCCESS. The rest of the packet is then rejected and the session stopped, so
  the next exchange fails and "failed" is told, except behind the last packet (of a file whose size
  is a multiple of 4096): there is no next exchange, and the application is told only "uploaded" of
  a wrong file. `StoredIsFront`, `StoredIsThinned`, `StoredIsWoven` and `EndIsTold` except a stream
  from such a packet on; `CleanUploadIsStored` and the contract except only the last packet. This
  contradicts the README's line about the callback as violation 2 does: without its condition on
  `mixed`, `CleanUploadIsStored` fails in the instance of `upload_told`, with 1, 2, 2 stored for 1,
  2, 3.

The rest contradicts no line of the repository:

- *Launch* (`pipe.py`). `read_path` is assigned in `start_server` and therefore local to it, so
  `os.mkfifo(read_path)` raises `UnboundLocalError`: in a fresh directory the server is never
  started. The second call works because the first `mkfifo` fails on the pipe that is left.
  After three polls without the child's FIFO the parent opens it anyway and raises, while the
  child blocks in its own open for ever; a child that dies after its FIFO was seen leaves the
  parent blocked, or reading at intervals for ever. `LaunchSettles` counts exactly these ends.
  The call in `index.py` is inside a string literal.
- *Connection*. `myprocess` treats 0 from `SSL_read` as "no command yet": when the client is gone
  before its header was accepted, the server spins. When -1 comes first, `cmd` is not
  initialised. `opendir` is read twice; if it shrinks in between, client and server wait for
  each other. `ConnectionsEnd` allows these and nothing else.
- *Files*. Both receivers use `O_CREAT` without `O_TRUNC`, so a longer old file keeps its tail;
  `Overlaid` says so. A size is sent in 4 bytes: a file of 2^32 bytes or more ends early.
- *Login*. The timer gives the button back while a login may still be under way. A late answer's
  token is then stored with the name typed since: the exception in `IdentityIsOwn`. A login is
  known to one worker only, so a list asked from the other one is refused.
- *Full disk*. The server answers SUCCESS for a packet of which it stored a front, and the next one is
  appended behind it: "uploaded" is told of a file with holes. `StoredIsThinned` is what still holds.
- *Download*. An empty file and a failed local file are told to nobody (`FailureIsTold` names them).

Bounds. Three packets give a first, a middle and a last one, each with its own flag and open mode; a
one-packet stream beside it gives the LAST-only path and a second session in the handler's pass.
`BufferSize` is 1 where packets should be single bytes, 2 where a last packet should be short and 4
where a file should be smaller than a packet. One cancel per stream is enough because a second
writes what the first wrote. Two connections give every interleaving of accept, pass and erase; two
requests on one connection show what happens behind a rejected one. Three streams and two callers
give two ids in flight and a third to be overtaken. The pairs of downloads cover each outcome of the
check (exists, empty, directory, missing) beside each outcome of the local file (new, exists,
uncreatable). Three frames show a reader that is lost in the second what it makes of the third; size
5 reads as 1 when half its header is there, and 3 is the largest with a header of one byte. Chunk 2
cuts files into no, one, and several chunks with and without a short last one; sizes 0, 1, 3 are
below the modulus 4 and 6 is above it; one connection is what the server accepts before it ends. Two
workers and two users give a login the other worker does not know and a name that was typed over
another; the third click comes after a time-out and a refusal. Run `upload` has no cancel, which is
in `upload_ends` with one stream: together they are too many states. The runs `service` and
`download` have whole frames (and `download` no resets) for the same reason; what is proved about
both in section 4 covers short reads and resets. `MaxCalls`, `MaxSends`, `Cancellable`, `Frames`,
`MaxEntries`, `MaxLogins`, `Mistyped` and `MaxLists` are the only bounds on behaviour.

`CHECK_DEADLOCK FALSE` appears in every configuration: finished streams and clients that
have sent all they will leave a system that may stop.

Fairness. `ServerFairness`: the handler's thread loops for ever (weak); `AcceptThread` is strongly
fair, because the handler sleeps outside the mutex on each round, so the waiting thread finds it
free again and again; time passes for every session (weak). The upload threads and the scheduler
thread run (weak, one condition per stream). Nothing makes `Restart` fair, so "ends" includes a
server that stays down, and nothing makes an application call or a fault happen. `Unhandled` is
fair: a thread that throws does end the process, for uploads as for downloads. The downloads have
the same fairness. Framing: TCP delivers what was written, and the readers' loops go on. zuolin:
parent, child, client and server are processes that run on until they block, each weakly fair as a
whole; a step that waits for the other side is not enabled, so none is assumed to come out of a
blocked call. Login: only the client's event loop is fair (`Tick`); answers may never come.

`EveryStreamStarts` in run `scheduler` holds because no more streams are ever
added than the limit lets start; run `scheduler_cap` shows that this is needed.

## 4. Proofs

The server's part of every proof about the SDK is in `SecftServer_proofs`: its types
(`ServerType`), the shapes of its steps on a connection (`ServerMoves`: an answer takes the
place of the message it answers, messages are lost, or a frame is read in part), what a short read leaves as it
was (`SplitFacts`), and `OneAtATime`, that a client which
waits for its answers has at most one message under way. `ListOK` is its invariant about the list
of sessions: accepted connections, each once, and every open one among them (`ServerList`).
Erasing is written with an increasing sequence of the positions that stay, so that this needs no
induction: an injection between finite sets of one size is onto (`EraseFacts`).

`SecftUpload_proofs` proves about `SecftUpload`, for any number of streams, any files, any
buffer size, any faults and any schedule:

| Theorem | States | Needs |
|---|---|---|
| `UploadTypes` | `Spec => []TypeOK` | |
| `UploadsStopAndWait` | `Spec => []StopAndWait` | |
| `UploadsStoreAFront` | `Spec => []StoredIsFront` | the disk takes every write |
| `CleanUploadsAreStored` | `Spec => []CleanUploadIsStored` | the disk takes every write |
| `CancelsArePrompt` | `Spec => []CancelIsPrompt` | |
| `EndsAreTold` | `Spec => []EndIsTold` | |
| `UploadsKeepContract` | `Spec => KeepsContract` | the disk takes every write |
| `FullDisksThinUploads` | `Spec => []StoredIsThinned` | |
| `WaitingUploadsAreHeld` | `Spec => []WaitingIsHeld` | |
| `AnsweredPacketsAdvance` | `Spec => RepliesAdvance` | no local file changes |
| `StoredFilesAreWoven` | `Spec => []StoredIsWoven` | |

All of them hold with short reads. Where the property has a condition on `mixed` (`StoredIsFront`,
`StoredIsThinned`, `StoredIsWoven`, `EndIsTold`: no packet was taken for another one;
`CleanUploadIsStored`: not the last one), the theorem has it too; the other theorems have none.

Beside that, only the named assumptions on constants (`BufferSizeAssumption`,
`StemAssumption`, `DiskAssumption`, `StreamsAssumption`) are used. TLC evaluates them in
every run.

The argument. `TypeInv` is the types with "no offset beyond the file", which `NextChunkIsSlice`
keeps: a read returns the slice of the file from the offset on. `Wire` says what is under way on
each connection; the server's many actions are reduced to two shapes, `NoAnswer` and `OneAnswer`, so
that an answer takes the place of the message it answers (a short read, `SplitFrame`, is a third and
answers nothing). `StoredIsFront` is not inductive: the step that stores a packet has to know which
packet it is. `UploadInv` adds what is missing. `Sent`: a message under way, or in the session's
buffer, is an upload with overwrite set, for its stream's own path, of its own bytes. `Sync`:
`reported = offset` except between send and reply or after a failure. `Data`: a packet under way
carries exactly the bytes from `reported` to `offset`, it is "first" only if nothing was reported,
and until it is stored the file is at `reported` (or as it was before); when a reply is under way
the file is at `offset`. "At n" is `KeptOf(s, n)`: the first n bytes, or with a disk that may be
full those bytes thinned; both grow alike when a slice behind n is stored (`KeptExtends`). Storing
then either replaces the file by the first slice or appends adjacent slices (`StoringAdvances`),
thinned or not (`ThinningAppends`). Another stream's step cannot touch the file since streams are
`Alone` on their stem. All of `Data` is said of streams no short read has `mixed`; `DataSplit` is
the step that reads in part. `Split` is about the others. Until a frame was read in part nothing is
mixed, and the flag is "last" exactly at the end of the file. After an early packet was taken for
another, the reader stands within its frame wherever the thread goes on, and the offset is not the
size: the thread cannot end there without a failure (`CleanEndsAreWhole`), since the rest of the
frame stops the session. `UploadInv` holds whatever the disk does, and `FullDisksThinUploads` is
what it says then. The assumption on the disk is only used to read `KeptOf` as the first bytes, and
it is needed: a partial write is answered with success.

`WaitingUploadsAreHeld` and `AnsweredPacketsAdvance` are the safety halves of `EveryUploadEnds`: who
waits has an answer, sees that none will come, or has a session the server will still come to; and
an answered packet was not empty. The second is false of a file cut below the offset, and its
hypothesis is exactly that. The first has `HeldInv`: a thread behind its connect has a connection
(`Linked`), so that what `SecftServer_proofs` says of connections (`Down`: a server that is down has
left none behind that looks alive) is said of it. `MovingInv` knows that the packet under way has
bytes (`PacketsHaveBytes`): the offset is below the size before each read of an unchanged file.

`UploadsKeepContract` is the refinement of `UploadContract`: from `UploadInv`, the server's step
that stores a packet is the contract's storing of the next slice, a client's step that reads a reply
is its report or its notice, and every other step leaves the contract's state alone. A short read
that makes another packet of one is `Spoil` (`ContractSpoils`), and what is stored of it is made of
bytes of the same file (`BytesOfFiles`). A thread without a handler is `End`. A packet stored when
the contract has already ended would be an empty slice, which is a stutter.

`CancelsArePrompt` has an invariant of its own, `Cancelled`: a cancel no write overtook stays in
the cell wherever the thread is, and at `send` the offset is still the one at the cancel.

`EndsAreTold` has `EndInv`. The loop can only leave without "failed" when the offset is at or
behind the size, and the thread then tells "uploaded" only if they are equal. A file that grew can be
read past the size (`OvershootHasNoFlag`), but that packet has no flag and the server answers it
with nothing (`Unanswerable`), so the thread waits until the session ends and tells "failed". Read in part
behind a full packet, it may be taken for that one and answered: the exception of the property. A file
shorter than a packet is left out: its first packet goes out as "first" and is answered.

`Regular` leaves out what the code does not promise: streams that share a stem (they write
to one file), one-packet streams over an existing file (violation 3), and empty files,
which are "uploaded" without a packet.

`StoredFilesAreWoven` says what can be said of those too, on any disk: behind the old content, or
nothing, stands a weave of what the streams to that path have read, each stream's bytes in order and
none twice, until a short read has `mixed` a packet of one of them; a path that only empty files go
to stays as it was. `WeaveInv` adds two parts to `UploadInv`. `Carrying`: a stream that sends has a
file that is not empty, and its packet is the bytes from `reported` to `offset`. `WovenAt`: the file
is woven of what the streams have delivered (`Delivery`), which leaves out a packet under way. A
store then appends bytes of its stream behind all that stream has in the file. The property has no
run: it says most where two streams share a stem, more than run `upload` can afford beside its own
two.

`SecScheduler_proofs` proves about `SecScheduler`, for any number of application threads,
streams and limits:

| Theorem | States |
|---|---|
| `SchedulerTypes` | `Spec => []TypeOK` |
| `IdsAreOwn` | `Spec => []IdsNameOwnStreams` |
| `ThreadsAreCounted` | `Spec => []EveryThreadIsCounted` |
| `StreamsStartInOrder` | `Spec => []StartsInOrder` |
| `WithdrawnStaysOut` | `Spec => []WithdrawnNeverStarts` |
| `SchedulerIsPool` | `Spec => IsPool` |

The only assumption is `SchedulerAssumption`. The invariant `Inv` carries what the walk has
established (`Walked`: behind the iterator nothing asks to be started, and the task the
scheduler has decided to start has no thread and was not withdrawn) and that a status which
asks for a thread means there was none (`Unstarted`). Both are needed because anyone may
overwrite a status at any time: what keeps a task from being started twice is that nobody
ever writes a starting status into an existing task. `Counted` then follows by adding one
element to a finite set.

`SchedulerIsPool` is the refinement of `TaskPool`. Each start is one of the pool's because of `Walked`,
which also says that none is left when the walk is at its end. `StartsInOrder` has no run of its
own since `IsPool` contains it.
Telling an id needs that nobody knows it yet (`Unlearnt`), which the return of `add_task` after
its unlock puts in doubt: other calls may insert in between, but `res` is local. A cancel is a
withdrawal only of a stream that waits and has not been picked; every other write to a status is
a stutter.

`SecftDownload_proofs` proves about `SecftDownload`, for any number of streams, any remote paths
(several streams of the same one included) and both directories:

| Theorem | States |
|---|---|
| `DownloadTypes` | `Spec => []TypeOK`, with at most one message under way per stream |
| `DownloadsKeepLocalFiles` | `Spec => []InitialLocalKept` |
| `DownloadsAreConfirmed` | `Spec => []NewFilesWereConfirmed` |
| `FailedDownloadsAreTold` | `Spec => []FailureIsTold` |
| `EarlyHandlersKeepAlive` | `Spec => []HandledMeansAlive` |
| `DownloadsKeepContract` | `Spec => KeepsDownloadContract` |
| `WaitingDownloadsAreHeld` | `Spec => []WaitingIsHeld` |

The invariant adds `StreamInv`: a thread behind the check has a size (`Confirmed`), one
between the test of `exists` and the open asks for no file that was there at the start
(`Opening`), a failure not yet told is still ahead of the loop (`Failing`), and a thread that
runs without a handler was `exposed` (`Running`). `Opening` is what survives two streams
testing before either opens: they may empty each other's new file, never an old one.

`DownloadsKeepContract` is the refinement of `DownloadContract`; it contains what
`DownloadsKeepLocalFiles` and `DownloadsAreConfirmed` state. A client's step is one of the contract's by
the place its thread is at. What the place does not tell is that the size of an "exists" is true:
`Honest` says that the files still present are as they were and that an "exists" under way carries
the size of the stream's own file, though the file may have vanished since. For this the server's
answers are taken once more, with what they say (`ServerAnswers`): with nothing but download requests
under way it writes no file. `WaitingDownloadsAreHeld` is the safety half of `EveryDownloadEnds`, by the
same argument as for uploads.

`SecftService_proofs` proves about `SecftService`, for any requests from any number of clients:

| Theorem | States |
|---|---|
| `RejectedClientsStayOut` | `Spec => DeniedStaysOut` |
| `OnlyFirstPacketsDiscard` | `Spec => OnlyOverwriteDiscards` |
| `ServiceTypes` | `Spec => []TypeOK` |
| `SocketsAreListed` | `Spec => []OpenSocketsAreListed` |
| `ListsAreStable` | `Spec => ListIsStableDuringPass` |
| `ClientsAreHeld` | `Spec => []NobodyIsForgotten` |

`ClientsAreHeld` is the safety half of `NoOneWaitsForEver`: a connection waits for `accept_thread`, has
a session in the list, or its client can see that it is over, also while the server is down.
The three before it are `ListInv`, which is `ListOK` with the types. The first two are action properties
over the types: each branch of the server is either one that writes
no file or `StoreUpload`, whose result is the old content with something appended unless
`OpenMode` is that of a first packet.

`SecftFraming_proofs` proves about `SecftFraming`, for any number of messages of any size whose
header has at most two bytes:

| Theorem | States |
|---|---|
| `FramingTypes` | `Spec => []TypeOK` |
| `FramingIsExactUntilShort` | `Spec => []ExactUntilShort` |
| `FramingIsChannel` | `Spec => Channel!Safety` |

`Starts` relates the positions of adjacent frames and orders them, so that a position is at
most one frame's start. `Exact` says that the reader stands at the start of the next message
and, if it has peeked, wants its true size; it holds as long as nothing came short, and for the
client's reader with one-byte headers always. `FramingIsChannel` is the refinement: from
`Inv`, each step is one of FrameChannel or leaves its variables alone.

`LoginService_proofs` proves about `LoginService`, for any users, workers and time-out:

| Theorem | States |
|---|---|
| `LoginTypes` | `Spec => []TypeOK` |
| `IdentitiesAreOwn` | `Spec => []IdentityIsOwn` |
| `EveryWindowIsExplained` | `Spec => []WindowsAreExplained` |
| `ShownFilesNeedLogin` | `Spec => []FilesNeedLogin` |
| `SpinnersAreTimed` | `Spec => SpinnerIsTimed` |

`IdentityIsOwn` needs `Single`: before any time-out overtook a login, the one unanswered login is
the last one, under the name that is typed and with the spinner in the button's place. The windows
need `Counted`, the same sum from the first click on, since until then the state is not initialised.
Files need `Granted`, which follows the name through the workers' lists. `SpinnersAreTimed` is the
safety half of `SpinnerEnds`: a spinner has its Timer, and nothing sets the countdown back.

`ZuolinTransfer_proofs` proves about `ZuolinTransfer` with its launch, for any contents, chunk
size, modulus, directory and schedule:

| Theorem | States |
|---|---|
| `TransferTypes` | `Spec => []TypeOK` |
| `WholeTransfersAreStored` | `Spec => []WholeIsStored` |
| `FrontsAreStored` | `Spec => []FrontIsStored` |
| `NoMutualWait` | `Spec => []NoOtherDeadlock` |
| `LaunchesMeet` | `Spec => []LaunchMeets` |
| `TransfersKeepContract` | `Spec => KeepsCopyContract` |

The types need that a receiver is never behind the end of its file (`Fits`), for then
`Overlay` is a plain sequence (`OverlayFacts`), and that a poll is left while the parent polls
(`Polling`).

Both properties of the stored file come from three invariants, one for each use of a connection.
`UploadInv`: until the server closes, what lies in its file (`Laid`) and what is under way (`UnderWay`)
are the source from 0 to the client's offset, or a front of that once somebody died. What is under
way is the header the server has not taken (`Header`, counted by `Put` and `Taken`), then data
records that cut the source into adjacent pieces (`Pieces`, by a witness that maps each record to
the offset behind it). Sending appends a piece, receiving takes the first one, a death cuts the
queue, which leaves pieces. The count in 32 bits agrees at the end only if the size is below the
modulus, so only `WholeIsStored` asks for that.

`DownloadInv` is the same argument with the roles exchanged. In front of the data lie the
records of the list the client has not read: the number of names, the names, the size,
`Listed - Read` of them by where the two processes are. `Listing` says that each is what the client
will take it for, so none is counted as data and the expected size is the true one. `Choosing` is
the other direction: the request or the name under way, and how far one side can be without the
other. Behind the list `Pieces` carries the file.

`UnusedInv` is about connections that store nothing: no command, 'Q', and an upload whose token or
name is refused. The client goes on sending, and the server takes what is left for commands;
`Commands` says that no record behind the first can be one, so a refused upload changes no file.

`NoMutualWait` has `TurnInv`, which unlike the others holds while files and directory change: whose
record is under way follows from the two places alone. `LaunchesMeet` has `Launched`, how far parent
and child can be without each other. They are the safety halves of `ConnectionsEnd` and `LaunchSettles`:
neither side is left waiting except where those two properties say so.

`TransfersKeepContract` is the refinement of `CopyContract`. `CopyInv` is the three invariants of
the stored file and `TurnInv`, with two more. `ServesDownload`: a server that serves a download was
asked for one, also when files have changed, where the invariants of the content are silent.
`AbsentOK`: of a file that is not there nothing is ever sent. Each step is then `Copy`, `End`,
`Break`, `Mix` or a stutter of the contract: before and after it the receiver has a front of the
file (`FrontIsThere`), has all of it if it is through and nobody died (`ThroughHasAll`), and
`OnlyForward` gives that the count never falls and that a receiver which is through keeps its file.
That a refused request stores nothing, whoever meddles, is `UnusedInv`.

Each proof uses the named assumptions on the constants and nothing else; TLC evaluates
them in every run.

Only model-checked:

- liveness (`EveryUploadEnds`, `EveryDownloadEnds`, `NoOneWaitsForEver`, `SilentSessionsAreErased`,
  `EveryStreamStarts`, `ConnectionsEnd`, `LaunchSettles`, `SpinnerEnds`, and the fair half of
  `IsChannel`), which is beyond the prover. What keeps each of them from failing in a single
  state, that somebody waits where nobody will come, is proved as said above, for `EveryStreamStarts`
  by `SchedulerIsPool` (a round closes when none waits). That the
  steps then do come, under the fairness of section 3, is what TLC adds. The properties without a
  run (`NobodyIsForgotten`, `WaitingIsHeld`, `RepliesAdvance`, `SpinnerIsTimed`, `NoOtherDeadlock`,
  `LaunchMeets`, `InitialLocalKept`, `NewFilesWereConfirmed`, `StartsInOrder`, `HandledMeansAlive`,
  `StoredIsWoven`) are proved only; all but the last are implied by, or halves of, a property a run checks.

## 5. Assumptions, and what is not modelled

Assumed of short reads (`Parsed`, `ReadRest`), beyond what the code says:

- The rest of a frame is bytes of a file, which are not at the same time a request with a user and a token the
  server knows. Without this it could do what any request can.
- The frames of one connection are requests for one path, as all clients of the SDK send them. Two
  frames have their fields at the same places only when they have the same length; of two of different lengths,
  what the parser makes is one of the two, or has no valid credentials.
- `SplitFrame` and `SecftFraming` are two views of one reader that no refinement joins: the first
  says what a request becomes, the second counts bytes. The runs `service` and `download` do not
  have `SplitFrame`; their theorems do.

Not modelled:

- Frames larger than the 8192 byte buffers (`4096*2`): boost::asio clamps the server's read to the
  array, and the parser then reads behind it, which is undefined behaviour. A size whose header has
  three bytes or more exceeds those buffers.
- A local file that is rewritten in place while it is uploaded: `get_packet` opens it for each packet, so the
  stored file is then made of both versions. In the model it grows, is cut, or disappears.
- `secft_server_set_property` while the server runs; `sceft_set_property` and the handlers other
  than the process handler, which are written once and read.
- Data races inside `std::map` (`stop_task` against `add_task`): the lookup is atomic here.
- The C server's thread pool (lines 69-163): dead code, both calls are commented out.
- In the C server: a size whose bytes look like commands after a refused upload, names longer
  than its buffers, the default FIFO name of 10 bytes, the reset TCP sends when unread data
  is closed. That `execl` or `bind` fails is a child that dies.
- The web service's `upload_file`, `download_file`, `mv_file` and `rm_file` answer 0 and do
  nothing; the operations of `ClientBackend` behind them are empty. The password check and
  the database are one bit of a click.
- The layout of the Qt client, logging, vendored code (`plog`), the unused `sec_variant`, the
  asynchronous client (no target calls it), test programs and debug functions.
- An upload whose local file is cut below its offset sends empty packets for ever; run
  `upload` includes that case, the liveness run `upload_ends` leaves it out.
- Two downloads of the same remote path are in the proofs, not in the run `download`.

## 6. Plan

1. The properties of the client API beside the scheduler, and `secft_server_set_property`
   under a running server.
