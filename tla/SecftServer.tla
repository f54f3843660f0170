---- MODULE SecftServer ----
(***************************************************************************)
(* The SDK server (src/sdk/server/secserver/secft.cpp).                     *)
(*                                                                         *)
(* accept_thread and handle_clients_thread share the list clients under    *)
(* the mutex cs.  handle_clients_thread sleeps, takes cs, answers every     *)
(* session of the list in order, erases those that timed out and lets cs    *)
(* go.  cursor is that thread's position: 0 while it sleeps and cs is free, *)
(* i while session i is next, Len(clients) + 1 when it is about to erase.   *)
(***************************************************************************)
EXTENDS SecftProtocol, SecftLink, SequencesExt

CONSTANTS
    InitialFiles,   \* the files on the server's disk at the start, by path
    Dirs,           \* paths that are directories
    Sealed,         \* files that exist and cannot be opened
    Faults          \* which of "cut", "split", "crash", "disk", "local", "deaf" may happen

ASSUME DiskAssumption ==
    /\ DOMAIN InitialFiles \subseteq Paths
    /\ InitialFiles \in [DOMAIN InitialFiles -> Seq(Bytes)]
    /\ Dirs \subseteq Paths \ DOMAIN InitialFiles
    /\ Sealed \subseteq DOMAIN InitialFiles

VARIABLES
    up,         \* the server process runs
    clients,    \* the sessions in the list, in order
    cursor,     \* the position of handle_clients_thread
    stamped,    \* sessions whose last_packet has been assigned
    quiet,      \* sessions with more than 5 seconds since accept or last_packet
    present,    \* the paths of regular files on the disk
    files,      \* their content; << >> for a path that is not there
    buffer,     \* by session: the request whose bytes lie in data_buffer, if any
    torn,       \* by session: "no"; "part": of the frame at the front only a part is
                \* there to read; "rest": the reader stands within a frame
    mixed       \* history, by session: the flags of a packet that a short read turned
                \* into another one, if any

diskVars == <<present, files>>
readerVars == <<buffer, torn, mixed>>
serverVars == <<up, clients, cursor, stamped, quiet, diskVars, readerVars>>

SessionsInit ==
    /\ clients = << >> /\ cursor = 0
    /\ stamped = {} /\ quiet = {}

ServerInit ==
    /\ LinkInit /\ SessionsInit
    /\ up = TRUE
    /\ present = DOMAIN InitialFiles
    /\ files = [p \in Paths |-> IF p \in DOMAIN InitialFiles THEN InitialFiles[p] ELSE << >>]
    /\ buffer = [c \in Conns |-> {}]
    /\ torn = [c \in Conns |-> "no"]
    /\ mixed = [c \in Conns |-> {}]

Exists(p) == p \in present \cup Dirs
Openable(p) == p \notin Dirs \cup Sealed

\* Slip: a session that got a packet is never timed out again.
TimedOutSlip(c) == c \notin stamped

\* A session that never got a packet has last_packet = not_a_date_time, and
\* the difference to that exceeds every number of milliseconds.
TimedOut(c) == c \notin stamped \/ c \in quiet

(***************************************************************************)
(* The list.                                                               *)
(***************************************************************************)
\* Slip: push_back without the mutex.
AcceptThreadSlip(c) ==
    /\ up
    /\ sock[c] = "backlog"
    /\ sock' = [sock EXCEPT ![c] = "open"]
    /\ clients' = Append(clients, c)
    /\ UNCHANGED <<cut, c2s, s2c, up, cursor, stamped, quiet, diskVars, readerVars>>

AcceptThread(c) ==
    /\ up /\ cursor = 0
    /\ sock[c] = "backlog"
    /\ sock' = [sock EXCEPT ![c] = "open"]
    /\ clients' = Append(clients, c)
    /\ UNCHANGED <<cut, c2s, s2c, up, cursor, stamped, quiet, diskVars, readerVars>>

\* Slip: the pass starts behind the first session.
WakeAndLockSlip ==
    /\ up /\ cursor = 0
    /\ cursor' = 2
    /\ UNCHANGED <<linkVars, up, clients, stamped, quiet, diskVars, readerVars>>

WakeAndLock ==
    /\ up /\ cursor = 0
    /\ cursor' = 1
    /\ UNCHANGED <<linkVars, up, clients, stamped, quiet, diskVars, readerVars>>

\* remove_if and erase: the sessions that stay move up in their order.
Erase(gone) ==
    LET stay == {i \in DOMAIN clients : clients[i] \notin gone} IN
    \E at \in SetToSeqs(stay) :
        /\ \A i, j \in DOMAIN at : i < j => at[i] < at[j]
        /\ clients' = [i \in DOMAIN at |-> clients[at[i]]]

\* Slip: erased sessions keep their sockets open.
EraseTimedOutSlip ==
    /\ up /\ cursor = Len(clients) + 1
    /\ Erase({c \in ToSet(clients) : TimedOut(c)})
    /\ cursor' = 0
    /\ UNCHANGED <<linkVars, up, stamped, quiet, diskVars, readerVars>>

\* Slip: the mutex is held across the sleep, from pass to pass.
EraseWithoutUnlockSlip ==
    /\ up /\ cursor = Len(clients) + 1
    /\ LET gone == {c \in ToSet(clients) : TimedOut(c)} IN
         /\ Erase(gone)
         /\ sock' = [c \in Conns |-> IF c \in gone THEN "closed" ELSE sock[c]]
         /\ c2s' = [c \in Conns |-> IF c \in gone THEN << >> ELSE c2s[c]]
         /\ stamped' = stamped \ gone
         /\ quiet' = quiet \ gone
    /\ cursor' = 1
    /\ UNCHANGED <<cut, s2c, up, diskVars, readerVars>>

\* The erased sessions' sockets close with their last reference.
EraseTimedOut ==
    /\ up /\ cursor = Len(clients) + 1
    /\ LET gone == {c \in ToSet(clients) : TimedOut(c)} IN
         /\ Erase(gone)
         /\ sock' = [c \in Conns |-> IF c \in gone THEN "closed" ELSE sock[c]]
         /\ c2s' = [c \in Conns |-> IF c \in gone THEN << >> ELSE c2s[c]]
         /\ stamped' = stamped \ gone
         /\ quiet' = quiet \ gone
    /\ cursor' = 0
    /\ UNCHANGED <<cut, s2c, up, diskVars, readerVars>>

(***************************************************************************)
(* answer_to_client, for the session at the cursor.                        *)
(***************************************************************************)
AtCursor(c) ==
    /\ up /\ cursor \in 1..Len(clients)
    /\ clients[cursor] = c

Stop(c) ==
    /\ sock' = [sock EXCEPT ![c] = "closed"]
    /\ c2s' = [c2s EXCEPT ![c] = << >>]

KeepOpen(c) ==
    /\ c2s' = [c2s EXCEPT ![c] = Tail(@)]
    /\ UNCHANGED sock

SendReply(c, status, size) ==
    s2c' = IF c \in cut THEN s2c
           ELSE [s2c EXCEPT ![c] = Append(@, Answer(status, size))]

\* available() or receive throws on a closed or reset socket; the handler stops.
AnswerBroken(c) ==
    /\ AtCursor(c) /\ Broken(c)
    /\ Stop(c)
    /\ cursor' = cursor + 1
    /\ UNCHANGED <<cut, s2c, up, clients, stamped, quiet, diskVars, readerVars>>

\* Nothing has arrived: process_request returns at once.
AnswerIdle(c) ==
    /\ AtCursor(c)
    /\ sock[c] = "open" /\ c2s[c] = << >>
    /\ IF TimedOut(c) THEN Stop(c) ELSE UNCHANGED <<sock, c2s>>
    /\ cursor' = cursor + 1
    /\ UNCHANGED <<cut, s2c, up, clients, stamped, quiet, diskVars, readerVars>>

Asked(c) == Head(c2s[c])
Wants(c, kind) == Asked(c).trusted /\ Asked(c).kind = kind

Stamp(c) ==
    /\ stamped' = stamped \cup {c}
    /\ quiet' = quiet \ {c}
    /\ cursor' = cursor + 1

\* There is a frame, and the reader stands at its start.
FrameIsThere(c) ==
    /\ AtCursor(c)
    /\ sock[c] = "open" /\ c2s[c] # << >> /\ torn[c] # "rest"

\* read_request takes what SplitFrame left of the frame, or all of it, and
\* process_request stamps the session.
Reads(c) ==
    /\ FrameIsThere(c)
    /\ Stamp(c)
    /\ buffer' = [buffer EXCEPT ![c] = {Asked(c)}]
    /\ torn' = [torn EXCEPT ![c] = IF @ = "part" THEN "rest" ELSE @]
    /\ UNCHANGED <<cut, up, clients, mixed>>

\* Slip: what is left of a frame is thrown away and the session goes on.
ReadRestSlip(c) ==
    /\ AtCursor(c)
    /\ sock[c] = "open" /\ torn[c] = "rest"
    /\ Stamp(c)
    /\ torn' = [torn EXCEPT ![c] = "no"]
    /\ UNCHANGED <<linkVars, up, clients, diskVars, buffer, mixed>>

\* What is left of a frame is read as a frame of its own.  Its bytes come from the
\* middle of a file and hold no user and token, so the session is stopped.
ReadRest(c) ==
    /\ AtCursor(c)
    /\ sock[c] = "open" /\ torn[c] = "rest"
    /\ Stamp(c)
    /\ Stop(c)
    /\ UNCHANGED <<cut, s2c, up, clients, diskVars, readerVars>>

\* Slip: the session of a rejected request is not stopped.
RejectRequestSlip(c) ==
    /\ Reads(c)
    /\ ~Asked(c).trusted \/ Asked(c).kind = "blank"
    /\ KeepOpen(c)
    /\ UNCHANGED <<s2c, diskVars>>

RejectRequest(c) ==
    /\ Reads(c)
    /\ ~Asked(c).trusted \/ Asked(c).kind = "blank"
    /\ Stop(c)
    /\ UNCHANGED <<s2c, diskVars>>

(***************************************************************************)
(* do_upload.  The path is cut down to its stem; the directory and the      *)
(* extension the client named are lost.                                     *)
(***************************************************************************)
Target(c) == Stem[Asked(c).path]
UploadMode(c) == OpenMode(Asked(c).flags, Asked(c).overwrite, Exists(Target(c)))

\* Slip: a write that failed is repeated from the beginning of the packet.
WrittenSlip(data) ==
    IF "disk" \in Faults THEN {part \o data : part \in Prefixes(data)} ELSE {data}

\* outfile.write is not checked: a full disk keeps any front of the data.
Written(data) == IF "disk" \in Faults THEN Prefixes(data) ELSE {data}

StoreUpload(c) ==
    /\ Reads(c) /\ Wants(c, "upload")
    /\ UploadMode(c) \in {"truncate", "append"} /\ Openable(Target(c))
    /\ \E w \in Written(Asked(c).data) :
         files' = [files EXCEPT ![Target(c)] =
                     IF UploadMode(c) = "truncate" THEN w ELSE @ \o w]
    /\ present' = present \cup {Target(c)}
    /\ SendReply(c, "success", 0)
    /\ IF Asked(c).flags = "last" THEN Stop(c) ELSE KeepOpen(c)

RefuseUpload(c) ==
    /\ Reads(c) /\ Wants(c, "upload")
    /\ UploadMode(c) = "refuse"
    /\ SendReply(c, "exists", 0)
    /\ Stop(c)
    /\ UNCHANGED diskVars

\* The file is not open: the function returns without a reply.
IgnoreUpload(c) ==
    /\ Reads(c) /\ Wants(c, "upload")
    /\ UploadMode(c) # "refuse"
    /\ UploadMode(c) = "none" \/ ~Openable(Target(c))
    /\ KeepOpen(c)
    /\ UNCHANGED <<s2c, diskVars>>

(***************************************************************************)
(* do_download.  The path is used as it is.                                *)
(***************************************************************************)
CheckDownload(c) ==
    /\ Reads(c) /\ Wants(c, "download") /\ Asked(c).flags = "first"
    /\ LET p == Asked(c).path IN
         IF p \in present
         THEN SendReply(c, "exists", Len(files[p])) /\ KeepOpen(c)
         ELSE /\ SendReply(c, "not_found", 0)
              /\ IF p \in Dirs THEN KeepOpen(c) ELSE Stop(c)
    /\ UNCHANGED diskVars

\* get_packet is a stub that returns 0, so a file with content is a read error.
SendDownloadPacket(c) ==
    /\ Reads(c) /\ Wants(c, "download") /\ Asked(c).flags = "packet"
    /\ LET p == Asked(c).path IN
         /\ p \in present
         /\ IF ~Openable(p) THEN SendReply(c, "open_error", 0)
            ELSE IF files[p] # << >> THEN SendReply(c, "read_error", 0)
            ELSE UNCHANGED s2c
    /\ Stop(c)
    /\ UNCHANGED diskVars

IgnoreDownload(c) ==
    /\ Reads(c) /\ Wants(c, "download") /\ Asked(c).flags \notin {"first", "packet"}
    /\ KeepOpen(c)
    /\ UNCHANGED <<s2c, diskVars>>

(***************************************************************************)
(* The process and the clock.                                              *)
(***************************************************************************)
\* The process ends: every connection it had is reset.  Files stay.
Die ==
    /\ up' = FALSE
    /\ clients' = << >> /\ cursor' = 0 /\ stamped' = {} /\ quiet' = {}
    /\ sock' = [c \in Conns |-> IF sock[c] = "none" THEN "none" ELSE "closed"]
    /\ cut' = {c \in Conns : sock[c] # "none"}
    /\ c2s' = [c \in Conns |-> << >>]
    /\ UNCHANGED <<s2c, diskVars, readerVars>>

\* file_size of a path that is no regular file throws filesystem_error, which
\* answer_to_client does not catch: the thread and the process terminate.
DieOnMissingFile(c) ==
    /\ FrameIsThere(c)
    /\ Wants(c, "download") /\ Asked(c).flags = "packet"
    /\ Asked(c).path \notin present
    /\ Die

Crash == "crash" \in Faults /\ up /\ Die

Restart ==
    /\ ~up
    /\ up' = TRUE
    /\ UNCHANGED <<linkVars, clients, cursor, stamped, quiet, diskVars, readerVars>>

\* More than 5 seconds pass since the session's accept or last packet.
PassTime(c) ==
    /\ c \in ToSet(clients) \ quiet
    /\ quiet' = quiet \cup {c}
    /\ UNCHANGED <<linkVars, up, clients, cursor, stamped, diskVars, readerVars>>

CutLink(c) ==
    /\ "cut" \in Faults
    /\ Cut(c)
    /\ UNCHANGED serverVars

\* When the handler looks, only a part of the first frame has arrived.  read_some
\* takes that part, and data_buffer is parsed as if it had taken all.
SplitFrame(c) ==
    /\ "split" \in Faults
    /\ FrameIsThere(c) /\ torn[c] = "no"
    /\ \E m \in Parsed(Asked(c), buffer[c]) :
         /\ c2s' = [c2s EXCEPT ![c] = <<m>> \o Tail(@)]
         /\ mixed' = IF m.trusted /\ m # Asked(c)
                     THEN [mixed EXCEPT ![c] = {Asked(c).flags}] ELSE mixed
    /\ torn' = [torn EXCEPT ![c] = "part"]
    /\ UNCHANGED <<sock, cut, s2c, up, clients, cursor, stamped, quiet, diskVars, buffer>>

AnswerToClient(c) ==
    \/ AnswerBroken(c) \/ AnswerIdle(c) \/ ReadRest(c) \/ RejectRequest(c)
    \/ StoreUpload(c) \/ RefuseUpload(c) \/ IgnoreUpload(c)
    \/ CheckDownload(c) \/ SendDownloadPacket(c) \/ IgnoreDownload(c)
    \/ DieOnMissingFile(c)

HandleClientsThread ==
    WakeAndLock \/ EraseTimedOut \/ \E c \in Conns : AnswerToClient(c)

Environment ==
    Crash \/ Restart \/ \E c \in Conns : PassTime(c) \/ CutLink(c) \/ SplitFrame(c)

ServerNext ==
    HandleClientsThread \/ Environment \/ \E c \in Conns : AcceptThread(c)

\* Both threads run; the handler sleeps outside the lock on every round, so
\* accept_thread gets it again and again; time passes.
ServerFairness ==
    /\ WF_<<linkVars, serverVars>>(HandleClientsThread)
    /\ \A c \in Conns :
         /\ SF_<<linkVars, serverVars>>(AcceptThread(c))
         /\ WF_<<linkVars, serverVars>>(PassTime(c))

-----------------------------------------------------------------------------
\* The types of the connections and of the server, for its users to state.
ServerOK ==
    /\ sock \in [Conns -> {"none", "backlog", "open", "closed"}]
    /\ cut \subseteq Conns
    /\ c2s \in [Conns -> Seq(Request)]
    /\ s2c \in [Conns -> Seq(Reply)]
    /\ up \in BOOLEAN
    /\ cursor \in Nat
    /\ stamped \subseteq Conns /\ quiet \subseteq Conns
    /\ present \subseteq Paths
    /\ files \in [Paths -> Seq(Bytes)]
    /\ buffer \in [Conns -> SUBSET Request]
    /\ torn \in [Conns -> {"no", "part", "rest"}]
    /\ mixed \in [Conns -> SUBSET Flags]

\* Somebody of the server will come to this connection: it waits for
\* accept_thread, or its session for the next pass of handle_clients_thread.
Held(c) == up /\ (sock[c] = "backlog" \/ c \in ToSet(clients))

\* No connection lies where neither thread of the server will look: who is not
\* held can see that his connection has ended.
NobodyIsForgotten == \A c \in Conns : sock[c] # "none" => Held(c) \/ Broken(c)
====
