---- MODULE UploadContract ----
(***************************************************************************)
(* What uploads promise, without packets, sessions or threads: the stored  *)
(* file grows from the front, progress names only what is stored,          *)
(* "uploaded" without "failed" is told only about a file that is stored    *)
(* whole, and such a file does not change any more.  A packet that the     *)
(* server reads in part may spoil the file; the application can rely on    *)
(* hearing of a failure then, unless it was the last packet.                *)
(***************************************************************************)
EXTENDS Integers, Sequences

CONSTANTS
    Streams,    \* the uploads, each to a file of its own
    Content,    \* the bytes of every local file
    Size,       \* how many there were when the stream was started
    Initial     \* what the server stores under that name before the upload

VARIABLES
    stored,     \* the file on the server's disk
    reported,   \* the offset in the last progress event
    notices,    \* the final events so far, of "failed" and "uploaded"
    spoiled,    \* a packet was read in part and taken for another: "no", "early", "last"
    listening,  \* the application has a handler for what it is told
    alive       \* the application's process runs

vars == <<stored, reported, notices, spoiled, listening, alive>>

BytesOf(file) == {file[i] : i \in 1..Len(file)}
IsStored(s, n) == stored[s] = SubSeq(Content[s], 1, n)
Ahead(s) == reported[s]..Len(Content[s])

Init ==
    /\ stored = Initial
    /\ reported = [s \in Streams |-> 0]
    /\ notices = [s \in Streams |-> {}]
    /\ spoiled = [s \in Streams |-> "no"]
    /\ listening \in BOOLEAN
    /\ alive = TRUE

\* A packet is stored; what it makes of the file continues what was reported.
Store(s) ==
    /\ spoiled[s] = "no" /\ notices[s] # {"uploaded"}
    /\ IsStored(s, reported[s]) \/ (reported[s] = 0 /\ stored[s] = Initial[s])
    /\ \E n \in Ahead(s) : stored' = [stored EXCEPT ![s] = SubSeq(Content[s], 1, n)]
    /\ UNCHANGED <<reported, notices, spoiled, listening, alive>>

\* One packet of a stream may be read in part.
Spoil(s) ==
    /\ spoiled[s] = "no" /\ notices[s] # {"uploaded"}
    /\ \E which \in {"early", "last"} : spoiled' = [spoiled EXCEPT ![s] = which]
    /\ UNCHANGED <<stored, reported, notices, listening, alive>>

\* What is stored then is made of bytes of the same file, in any order.
StoreSpoiled(s) ==
    /\ spoiled[s] # "no" /\ notices[s] # {"uploaded"}
    /\ stored'[s] \in Seq(BytesOf(stored[s]) \cup BytesOf(Content[s]))
    /\ stored' = [stored EXCEPT ![s] = stored'[s]]
    /\ UNCHANGED <<reported, notices, spoiled, listening, alive>>

Report(s) ==
    /\ listening /\ alive /\ notices[s] = {}
    /\ \E n \in Ahead(s) :
         /\ spoiled[s] = "no" => IsStored(s, n)
         /\ reported' = [reported EXCEPT ![s] = n]
    /\ UNCHANGED <<stored, notices, spoiled, listening, alive>>

Fail(s) ==
    /\ listening /\ alive /\ notices[s] = {}
    /\ notices' = [notices EXCEPT ![s] = {"failed"}]
    /\ UNCHANGED <<stored, reported, spoiled, listening, alive>>

Succeed(s) ==
    /\ listening /\ alive /\ "uploaded" \notin notices[s]
    /\ \/ "failed" \in notices[s]
       \/ reported[s] = Size[s] /\ (IsStored(s, Size[s]) \/ spoiled[s] = "last")
    /\ notices' = [notices EXCEPT ![s] = @ \cup {"uploaded"}]
    /\ UNCHANGED <<stored, reported, spoiled, listening, alive>>

Listen ==
    /\ alive /\ ~listening
    /\ listening' = TRUE
    /\ UNCHANGED <<stored, reported, notices, spoiled, alive>>

\* Only an application that has something to be told and no handler for it ends.
End ==
    /\ alive /\ ~listening
    /\ alive' = FALSE
    /\ UNCHANGED <<stored, reported, notices, spoiled, listening>>

Next ==
    \/ Listen \/ End
    \/ \E s \in Streams :
         Store(s) \/ Spoil(s) \/ StoreSpoiled(s) \/ Report(s) \/ Fail(s) \/ Succeed(s)

Spec == Init /\ [][Next]_vars
====
