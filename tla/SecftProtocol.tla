---- MODULE SecftProtocol ----
(***************************************************************************)
(* The messages of the SDK (src/sdk/proto/file_transfer.proto) and the two *)
(* decisions both ends take from them: which flag get_packet puts on a     *)
(* packet, and how do_upload opens the file for a packet with that flag.   *)
(* Payloads are sequences over Bytes; a frame is one message.              *)
(***************************************************************************)
EXTENDS Integers, Sequences

CONSTANTS
    BufferSize,     \* BUFFER_SIZE of config.h: the most one packet carries
    Bytes,          \* what a file is made of
    Paths,          \* path strings, as requests carry them and the disk knows them
    Stem            \* std::filesystem::path::stem, from a path to a path

ASSUME BufferSizeAssumption == BufferSize \in Nat \ {0}
ASSUME StemAssumption == Stem \in [Paths -> Paths]

Flags == {"unset", "packet", "first", "last"}
Status == {"success", "not_found", "exists", "open_error", "read_error"}

\* trusted: user and token match the server's map.  "blank" has neither path:
\* what get_packet returns when it cannot open the local file.
Request == [trusted : BOOLEAN, kind : {"upload", "download", "blank"},
            path : Paths, flags : Flags, overwrite : BOOLEAN, data : Seq(Bytes)]

\* size: the size in the file list of a reply to a download check, 0 elsewhere.
Reply == [status : Status, size : Nat]

UploadRequest(trusted, path, flags, data) ==
    [trusted |-> trusted, kind |-> "upload", path |-> path, flags |-> flags,
     overwrite |-> TRUE, data |-> data]

BlankRequest(trusted, path) ==
    [trusted |-> trusted, kind |-> "blank", path |-> path, flags |-> "unset",
     overwrite |-> FALSE, data |-> << >>]

\* A part of request was read into a buffer that still holds the request before
\* it.  Frames of one length have their fields at the same places: the request
\* begins as the new one and ends, credentials included, as the old one did.
Overlap(request, old) ==
    {[request EXCEPT !.data = SubSeq(@, 1, n) \o SubSeq(old.data, n + 1, Len(old.data)),
                     !.trusted = old.trusted] : n \in 0..Len(request.data)}

\* What the parser makes of a part of request: all of it when only padding is
\* missing; a request without credentials, when what should be there are zeros or
\* bytes of something else; or, with a request before it in the buffer, that one
\* again or a mixture.  The requests of one connection are for one path.
Parsed(request, before) ==
    {request, [request EXCEPT !.trusted = FALSE]}
    \cup {old \in before : Len(old.data) <= Len(request.data)}
    \cup UNION {Overlap(request, old) : old \in {m \in before : Len(m.data) = Len(request.data)}}

Answer(status, size) == [status |-> status, size |-> size]

\* The flag of a packet that ends at offset next and carries len bytes, for a
\* file whose size was size when the stream was started.
PacketFlags(next, len, size) ==
    IF next = size THEN "last"
    ELSE IF next = len THEN "first"
    ELSE IF next < size THEN "packet"
    ELSE "unset"

\* Slip: the packet is always read from the beginning (no seekg).
NextChunkSlip(content, offset) ==
    SubSeq(content, 1, IF Len(content) < BufferSize THEN Len(content) ELSE BufferSize)

\* The bytes infile.read finds from offset on when the file holds content.
NextChunk(content, offset) ==
    LET end == IF Len(content) < offset + BufferSize
               THEN Len(content) ELSE offset + BufferSize
    IN  SubSeq(content, offset + 1, end)

\* Slip: no packet opens the file with ios::app.
OpenModeSlip(flags, overwrite, exists) ==
    CASE flags = "first" /\ ~overwrite /\ exists -> "refuse"
      [] flags = "first" /\ ~overwrite           -> "none"
      [] flags # "unset"                        -> "truncate"
      [] OTHER                                  -> "none"

\* What do_upload does with the file before it writes.
OpenMode(flags, overwrite, exists) ==
    CASE flags = "first" /\ overwrite           -> "truncate"
      [] flags = "first" /\ ~overwrite /\ exists -> "refuse"
      [] flags \in {"packet", "last"}           -> "append"
      [] OTHER                                  -> "none"
====
