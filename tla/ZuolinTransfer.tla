---- MODULE ZuolinTransfer ----
(***************************************************************************)
(* The C file server and its client (src/zuolin/app/file_transfer): one     *)
(* server per launch, one connection per server.  The stream is modelled by  *)
(* its SSL records, one per SSL_write; a length and the text it announces    *)
(* are one record.  The sender of a file is the client when it uploads and   *)
(* the server when the client downloads, the receiver is the other end.      *)
(***************************************************************************)
EXTENDS ZuolinLaunch, Sequences

CONSTANTS
    Bytes,      \* what files are made of
    Chunk,      \* 1024: the most one read or SSL_read takes
    Modulus,    \* 2^32: sizes go out as 4 bytes, totals are int
    Modes,      \* what the client does: "none", "upload", "download", "quit"
    Sources,    \* contents of the file at its sender
    Changes,    \* contents it may change to while it is sent, once
    Olds,       \* contents of the receiver's file of that name before
    MaxEntries, \* bound: entries of the directory a download lists
    ClientDies  \* the client may die at any moment

Junk == -1      \* a byte of a record that is not file data

ASSUME TransferAssumption ==
    /\ Chunk \in Nat \ {0} /\ Modulus \in Nat \ {0} /\ MaxEntries \in Nat
    /\ Junk \notin Bytes
    /\ Sources \cup Changes \cup Olds \subseteq Seq(Bytes)
    /\ Modes \subseteq {"none", "upload", "download", "quit"}
    /\ ClientDies \in BOOLEAN

VARIABLES
    order,      \* the client's mode; its token is the server's; the sender has
                \* the file; the server can open the name it is to store under
    before,     \* history: source and target before the transfer
    source,     \* the sender's file now
    target,     \* the receiver's file now
    cpc,        \* where the client is
    spc,        \* where myprocess and handle are
    cmd,        \* the server has assigned cmd
    position,   \* the offset of the sender's fd
    total,      \* totalrecv of the receiver, and the offset of its fd
    expected,   \* filesize of the receiver
    entries,    \* entries in the directory now
    left,       \* file_num of the client
    c2s, s2c,   \* records under way
    disturbed   \* history: the client died, or file or directory changed under way

fileVars == <<source, target, position, total, expected>>
listVars == <<entries, left>>
fixedVars == <<order, before>>
transferVars == <<fixedVars, fileVars, listVars, cpc, spc, cmd, c2s, s2c, disturbed>>
vars == <<launchVars, transferVars>>

Orders ==
    {o \in [mode : Modes, trusted : BOOLEAN, there : BOOLEAN, writable : BOOLEAN] :
        /\ o.mode # "upload" => o.trusted /\ o.writable
        /\ o.mode \in {"none", "quit"} => o.there}

Init ==
    /\ LaunchInit
    /\ order \in Orders
    /\ source \in Sources /\ target \in Olds
    /\ before = [source |-> source, target |-> target]
    /\ cpc = "idle" /\ spc = "idle" /\ cmd = FALSE
    /\ position = 0 /\ total = 0 /\ expected = 0
    /\ entries = MaxEntries /\ left = 0
    /\ c2s = << >> /\ s2c = << >>
    /\ disturbed = FALSE

Record(kind, n) == [kind |-> kind, n |-> n, data |-> << >>]
Data(bytes) == [kind |-> "data", n |-> 0, data |-> bytes]

ClientGoes(from, to) == cpc = from /\ cpc' = to
ServerGoes(from, to) == spc = from /\ spc' = to

\* What a side writes after the other one closed goes nowhere.
ClientSends(records) == c2s' = IF spc = "closed" THEN c2s ELSE c2s \o records
ServerSends(records) == s2c' = IF cpc = "closed" THEN s2c ELSE s2c \o records

\* SSL_read finds a record, or the end of the stream.
ServerReads == c2s # << >> /\ c2s' = Tail(c2s)
ServerAtEnd == c2s = << >> /\ cpc = "closed" /\ UNCHANGED c2s
ClientReads == s2c # << >> /\ s2c' = Tail(s2c)
ClientAtEnd == s2c = << >> /\ spc = "closed" /\ UNCHANGED s2c

(***************************************************************************)
(* Files.  Both receivers open with O_CREAT and without O_TRUNC.            *)
(***************************************************************************)
Smaller(a, b) == IF a < b THEN a ELSE b
NextBytes == SubSeq(source, position + 1, Smaller(position + Chunk, Len(source)))
AtSourceEnd == position >= Len(source)
SourceSize == Len(source) % Modulus

Overlay(old, at, bytes) ==
    SubSeq(old, 1, at) \o bytes \o SubSeq(old, at + Len(bytes) + 1, Len(old))

AdvanceSource == position' = position + Len(NextBytes)

\* Slip: the file is opened with O_APPEND.
ReceiveSlip(bytes) ==
    /\ target' = target \o bytes
    /\ total' = total + Len(bytes)
    /\ UNCHANGED <<source, position, expected>>

Receive(bytes) ==
    /\ target' = Overlay(target, total, bytes)
    /\ total' = total + Len(bytes)
    /\ UNCHANGED <<source, position, expected>>

\* Slip: the test comes before the last chunk is counted.
CompleteSlip(count) == count + Chunk >= expected

\* totalrecv == filesize, in 32 bits.
Complete(count) == count % Modulus = expected

Expect(n) == expected' = n /\ UNCHANGED <<source, target, position, total>>

(***************************************************************************)
(* The client.                                                             *)
(***************************************************************************)
LinkS ==
    /\ PortKnown
    /\ ClientGoes("idle", IF order.mode = "none" THEN "closed" ELSE order.mode)
    /\ UNCHANGED <<launchVars, fixedVars, fileVars, listVars, spc, cmd, c2s, s2c, disturbed>>

\* upload_file: command, token and name.
SendHeader ==
    /\ ClientGoes("upload", "stat")
    /\ ClientSends(<<Record("U", 0), Record("token", IF order.trusted THEN 1 ELSE 0),
                     Record("name", 0)>>)
    /\ UNCHANGED <<launchVars, fixedVars, fileVars, listVars, spc, cmd, s2c, disturbed>>

\* A file that is not there is noticed when its name has been sent.
StatFile ==
    /\ ClientGoes("stat", IF order.there THEN "send" ELSE "closed")
    /\ ClientSends(IF order.there THEN <<Record("size", SourceSize)>> ELSE << >>)
    /\ UNCHANGED <<launchVars, fixedVars, fileVars, listVars, spc, cmd, s2c, disturbed>>

SendChunk ==
    /\ cpc = "send" /\ ~AtSourceEnd
    /\ ClientSends(<<Data(NextBytes)>>) /\ AdvanceSource
    /\ UNCHANGED <<launchVars, fixedVars, source, target, total, expected, listVars, cpc, spc,
                   cmd, s2c, disturbed>>

CloseFile ==
    /\ AtSourceEnd /\ ClientGoes("send", "closed")
    /\ UNCHANGED <<launchVars, fixedVars, fileVars, listVars, spc, cmd, c2s, s2c, disturbed>>

\* SIGPIPE on a write after the server closed.
BrokenPipe ==
    /\ cpc \in {"stat", "send"} /\ spc = "closed" /\ cpc' = "closed"
    /\ UNCHANGED <<launchVars, fixedVars, fileVars, listVars, spc, cmd, c2s, s2c, disturbed>>

\* download_file.  What is not read, at the end of the stream, is 0.
SendDownload ==
    /\ ClientGoes("download", "count")
    /\ ClientSends(<<Record("D", 0)>>)
    /\ UNCHANGED <<launchVars, fixedVars, fileVars, listVars, spc, cmd, s2c, disturbed>>

ReadCount ==
    /\ ClientGoes("count", "entries")
    /\ \/ ClientReads /\ left' = Head(s2c).n
       \/ ClientAtEnd /\ left' = 0
    /\ UNCHANGED <<launchVars, fixedVars, fileVars, entries, spc, cmd, c2s, disturbed>>

\* Slip: file_num is tested after it was lowered.
ReadEntrySlip ==
    /\ cpc = "entries" /\ left' = left - 1
    /\ ClientReads \/ ClientAtEnd
    /\ UNCHANGED <<launchVars, fixedVars, fileVars, entries, cpc, spc, cmd, c2s, disturbed>>

ReadEntry ==
    /\ cpc = "entries" /\ left > 0 /\ left' = left - 1
    /\ ClientReads \/ ClientAtEnd
    /\ UNCHANGED <<launchVars, fixedVars, fileVars, entries, cpc, spc, cmd, c2s, disturbed>>

PickName ==
    /\ left = 0 /\ ClientGoes("entries", "size")
    /\ ClientSends(<<Record("name", 0)>>)
    /\ UNCHANGED <<launchVars, fixedVars, fileVars, listVars, spc, cmd, s2c, disturbed>>

\* An entry too many is taken for the size, and its rest for data.
ReadFileSize ==
    /\ ClientGoes("size", "data")
    /\ \/ ClientReads /\ Head(s2c).kind = "size" /\ Expect(Head(s2c).n)
       \/ /\ s2c # << >> /\ Head(s2c).kind # "size"
          /\ s2c' = <<Data(<<Junk>>)>> \o Tail(s2c)
          /\ Expect(Junk)
       \/ ClientAtEnd /\ Expect(0)
    /\ UNCHANGED <<launchVars, fixedVars, listVars, spc, cmd, c2s, disturbed>>

FileBytes(r) == IF r.kind = "data" THEN r.data ELSE <<Junk>>

ReceiveData ==
    /\ ClientReads /\ Receive(FileBytes(Head(s2c)))
    /\ ClientGoes("data", IF Complete(total') THEN "closed" ELSE "data")
    /\ UNCHANGED <<launchVars, fixedVars, listVars, spc, cmd, c2s, disturbed>>

ReceiveEnd ==
    /\ ClientAtEnd /\ ClientGoes("data", "closed")
    /\ UNCHANGED <<launchVars, fixedVars, fileVars, listVars, spc, cmd, c2s, disturbed>>

Quit ==
    /\ ClientGoes("quit", "closed")
    /\ ClientSends(<<Record("Q", 0)>>)
    /\ UNCHANGED <<launchVars, fixedVars, fileVars, listVars, spc, cmd, s2c, disturbed>>

Client ==
    \/ LinkS \/ SendHeader \/ StatFile \/ SendChunk \/ CloseFile \/ BrokenPipe
    \/ SendDownload \/ ReadCount \/ ReadEntry \/ PickName \/ ReadFileSize \/ ReceiveData
    \/ ReceiveEnd \/ Quit

(***************************************************************************)
(* The server: myprocess and handle.  When handle returns 0, or a command   *)
(* is 'Q', the connection is closed and main returns; when it returns -1,    *)
(* the next byte of the stream is taken for a command.                      *)
(***************************************************************************)
Ends(from) == ServerGoes(from, "closed") /\ ChildGoes("serve", "exited")
Continues(from, to) == ServerGoes(from, to) /\ UNCHANGED child

Accept ==
    /\ ServerGoes("idle", "command")
    /\ cpc # "idle" /\ ChildGoes("accept", "serve")
    /\ UNCHANGED <<waits, inPipe, fifo, parent, polls, wire, fixedVars, fileVars, listVars, cpc, cmd,
                   c2s, s2c, disturbed>>

serverFrame == <<waits, inPipe, fifo, parent, polls, wire, fixedVars, cpc, disturbed>>

ReadCommand ==
    /\ ServerReads /\ cmd' = TRUE
    /\ CASE Head(c2s).kind = "U" -> Continues("command", "token")
         [] Head(c2s).kind = "D" -> Continues("command", "list")
         [] OTHER               -> Ends("command")
    /\ UNCHANGED <<serverFrame, fileVars, listVars, s2c>>

\* SSL_read returns -1 before a command was read: cmd is not initialised, and
\* may be any command.  At the end of the stream it returns 0 and the loop spins.
UninitialisedCommand ==
    /\ ServerAtEnd /\ ~cmd
    /\ Ends("command")
    /\ UNCHANGED <<serverFrame, fileVars, listVars, cmd, s2c>>

\* What cannot be read is the empty token.
ReadToken ==
    /\ \/ ServerReads /\ Continues("token", IF Head(c2s).n = 1 THEN "name" ELSE "command")
       \/ ServerAtEnd /\ Continues("token", "command")
    /\ UNCHANGED <<serverFrame, fileVars, listVars, cmd, s2c>>

\* The empty name is the directory, which cannot be opened for writing.
ReadName ==
    /\ \/ ServerReads /\ Continues("name", IF order.writable THEN "size" ELSE "command")
       \/ ServerAtEnd /\ Continues("name", "command")
    /\ UNCHANGED <<serverFrame, fileVars, listVars, cmd, s2c>>

ReadSize ==
    /\ \/ ServerReads /\ Expect(Head(c2s).n)
       \/ ServerAtEnd /\ Expect(0)
    /\ Continues("size", "data")
    /\ UNCHANGED <<serverFrame, listVars, cmd, s2c>>

ReadData ==
    /\ ServerReads /\ Receive(Head(c2s).data)
    /\ IF Complete(total') THEN Ends("data") ELSE Continues("data", "data")
    /\ UNCHANGED <<serverFrame, listVars, cmd, s2c>>

\* Slip: the read is tried again, as in myprocess.
ReadEndSlip ==
    /\ ServerAtEnd /\ Continues("data", "data")
    /\ UNCHANGED <<serverFrame, fileVars, listVars, cmd, s2c>>

ReadEnd ==
    /\ ServerAtEnd /\ Ends("data")
    /\ UNCHANGED <<serverFrame, fileVars, listVars, cmd, s2c>>

\* The directory is read twice, for the number and for the names.
CountEntries ==
    /\ Continues("list", "names")
    /\ ServerSends(<<Record("count", entries)>>)
    /\ UNCHANGED <<serverFrame, fileVars, listVars, cmd, c2s>>

SendEntries ==
    /\ Continues("names", "pick")
    /\ ServerSends([i \in 1..entries |-> Record("entry", 0)])
    /\ UNCHANGED <<serverFrame, fileVars, listVars, cmd, c2s>>

\* _exit if the file is not there.  No name is the directory: its size is sent.
ReadPick ==
    /\ \/ ServerReads /\ order.there /\ Continues("pick", "send")
          /\ ServerSends(<<Record("size", SourceSize)>>)
       \/ ServerReads /\ ~order.there /\ Ends("pick") /\ UNCHANGED s2c
       \/ ServerAtEnd /\ Ends("pick") /\ UNCHANGED s2c
    /\ UNCHANGED <<serverFrame, fileVars, listVars, cmd>>

\* Slip: the size is taken for an offset of the last byte.
SendFileSlip ==
    /\ IF position + 1 >= Len(source) THEN Ends("send") /\ UNCHANGED <<position, s2c>>
       ELSE /\ Continues("send", "send")
            /\ ServerSends(<<Data(NextBytes)>>) /\ AdvanceSource
    /\ UNCHANGED <<serverFrame, source, target, total, expected, listVars, cmd, c2s>>

SendFile ==
    /\ IF AtSourceEnd THEN Ends("send") /\ UNCHANGED <<position, s2c>>
       ELSE /\ Continues("send", "send")
            /\ ServerSends(<<Data(NextBytes)>>) /\ AdvanceSource
    /\ UNCHANGED <<serverFrame, source, target, total, expected, listVars, cmd, c2s>>

\* SIGPIPE on a write after the client closed.
ServerBrokenPipe ==
    /\ spc \in {"list", "names", "send"} /\ cpc = "closed"
    /\ Ends(spc)
    /\ UNCHANGED <<serverFrame, fileVars, listVars, cmd, c2s, s2c>>

Server ==
    \/ Accept \/ ReadCommand \/ ReadToken \/ ReadName \/ ReadSize \/ ReadData \/ ReadEnd
    \/ CountEntries \/ SendEntries \/ ReadPick \/ SendFile \/ ServerBrokenPipe

(***************************************************************************)
(* The environment.                                                        *)
(***************************************************************************)
\* What the server has not read may be lost with the connection.
ClientCrash ==
    /\ ClientDies /\ cpc \notin {"idle", "closed"}
    /\ cpc' = "closed" /\ disturbed' = TRUE
    /\ \E n \in 0..Len(c2s) : c2s' = SubSeq(c2s, 1, n)
    /\ UNCHANGED <<launchVars, fixedVars, fileVars, listVars, spc, cmd, s2c>>

\* The server dies while it is launched, or serves.
ServerCrash ==
    /\ ChildDies /\ child \notin {"none", "exited", "dead"}
    /\ child' = "dead" /\ spc' = "closed" /\ disturbed' = TRUE
    /\ UNCHANGED <<waits, inPipe, fifo, parent, polls, wire, fixedVars, fileVars, listVars, cpc, cmd,
                   c2s, s2c>>

SourceChanges ==
    /\ ~disturbed /\ disturbed' = TRUE
    /\ source' \in Changes
    /\ UNCHANGED <<launchVars, fixedVars, target, position, total, expected, listVars, cpc, spc,
                   cmd, c2s, s2c>>

DirectoryChanges ==
    /\ spc = "names" /\ ~disturbed /\ disturbed' = TRUE
    /\ entries' \in 0..MaxEntries
    /\ UNCHANGED <<launchVars, fixedVars, fileVars, left, cpc, spc, cmd, c2s, s2c>>

Next ==
    \/ Launch /\ UNCHANGED transferVars
    \/ Client \/ Server \/ UninitialisedCommand
    \/ ClientCrash \/ ServerCrash \/ SourceChanges \/ DirectoryChanges

Spec == Init /\ [][Next]_vars

\* Both processes and the parent run on until they block or end.
FairSpec == Spec /\ LaunchFairness /\ WF_vars(Client) /\ WF_vars(Server)

-----------------------------------------------------------------------------
Records == [kind : {"U", "D", "Q", "token", "name", "size", "count", "entry", "data"},
            n : Nat, data : Seq(Bytes \cup {Junk})]

TypeOK ==
    /\ LaunchOK
    /\ order \in Orders
    /\ source \in Seq(Bytes) /\ target \in Seq(Bytes \cup {Junk})
    /\ cpc \in {"idle", "upload", "stat", "send", "download", "count", "entries", "size", "data",
                "quit", "closed"}
    /\ spc \in {"idle", "command", "token", "name", "size", "data", "list", "names", "pick", "send",
                "closed"}
    /\ cmd \in BOOLEAN /\ disturbed \in BOOLEAN
    /\ position \in Nat /\ total \in Nat /\ expected \in Nat \cup {Junk}
    /\ entries \in Nat /\ left \in Nat
    /\ c2s \in Seq(Records) /\ s2c \in Seq(Records)
    /\ child \in {"serve", "exited"} => spc # "idle"

Undisturbed(mode) ==
    /\ order.mode = mode /\ order.there
    /\ ~disturbed /\ Len(before.source) < Modulus

\* The receiver's file with the first n bytes of the sender's over the old one.
Overlaid(n) == Overlay(before.target, 0, SubSeq(before.source, 1, n))

\* When both ends are through with the transfer of a file that fits in 32 bits,
\* for an upload with the right token and a usable name, and nothing disturbed it,
\* the receiver's file starts with the sender's, the tail of a longer old one behind
\* it: what one side wrote as count, names, size and data the other reads as such.
WholeIsStored ==
    (Undisturbed("upload") \/ Undisturbed("download"))
    /\ order.trusted /\ order.writable
    /\ cpc = "closed" /\ spc = "closed"
    => target = Overlaid(Len(before.source))

\* Whoever dies, at whatever moment, whatever is refused and however long the file
\* is: as long as file and directory stay as they were, the receiver's file is a
\* front of the sender's over its old content, as long as totalrecv says.
FrontIsStored ==
    (source = before.source /\ entries = MaxEntries) => target = Overlaid(total)

\* What the contract of a transfer sees: a file that is not there is as good as
\* an empty one, and the receiver is the server of an upload.
Sent == IF order.there THEN before.source ELSE << >>
Granted == order.mode \in {"upload", "download"} /\ order.trusted /\ order.writable
ReceiverIsThrough == (IF order.mode = "upload" THEN spc ELSE cpc) = "closed"
Spoilt == source # before.source \/ entries # MaxEntries

Contract == INSTANCE CopyContract WITH
    Limit <- Modulus, source <- Sent, old <- before.target, granted <- Granted,
    stored <- target, count <- total, over <- ReceiverIsThrough, broken <- disturbed,
    spoilt <- Spoilt

\* Launch, connection and both processes together are one copy: whatever dies or
\* is refused, the receiver's file only ever grows along the sender's, it ends
\* short of it only when somebody died or changed a file, and a receiver that is
\* through, or was told no, writes nothing more.
KeepsCopyContract == Contract!Spec

Spinning == spc = "command" /\ cpc = "closed" /\ c2s = << >>
AwaitEachOther == cpc = "entries" /\ spc = "pick" /\ c2s = << >> /\ s2c = << >> /\ disturbed

ClientWaits == cpc \in {"count", "size", "data"} \/ (cpc = "entries" /\ left > 0)
ServerWaits == spc \in {"command", "token", "name", "size", "data", "pick"}

\* Client and server wait for each other with nothing under way only there: one
\* wrong turn of either and both hang in SSL_read, while no timeout is set.
NoOtherDeadlock ==
    ClientWaits /\ s2c = << >> /\ spc # "closed" /\ ServerWaits /\ c2s = << >> /\ cpc # "closed"
    => AwaitEachOther

\* The parent or the child of a launch is left waiting for the other at the FIFO,
\* or for a port nobody will write, only when the child died or the parent raised.
LaunchIsLeft ==
    \/ parent = "opening" /\ child \notin {"setup", "mkfifo", "opening"}
    \/ parent = "read" /\ ~wire /\ child # "write"
    \/ child = "opening" /\ parent \notin {"poll", "open", "opening"}
LaunchMeets == LaunchIsLeft => child = "dead" \/ parent = "raised"

\* A connection ends, whoever dies or changes files under way, but for two ways:
\* the client is gone before the server has taken a whole header it accepts,
\* and myprocess reads for ever; the directory shrank between its two readings,
\* and the client waits for names while the server waits for the choice.
ConnectionsEnd ==
    child = "serve" ~> (spc = "closed" \/ Spinning \/ AwaitEachOther)

\* The launch comes to an end: the parent raises, or the server dies, or the
\* parent has the port of a server that is at its accept or past it.
LaunchSettles ==
    <>(parent = "raised" \/ child = "dead"
        \/ (PortKnown /\ child \in {"accept", "serve", "exited"}))
====
