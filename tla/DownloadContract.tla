---- MODULE DownloadContract ----
(***************************************************************************)
(* What downloads promise, without messages, sessions or threads.  A       *)
(* stream is confirmed only for a file the server offered, with the size   *)
(* it had there; only a confirmed stream makes a local file, a new and     *)
(* empty one, once, and never in the place of a file that was there        *)
(* before.  A stream that failed does not end untold, and as long as the   *)
(* application listens, it lives.                                          *)
(***************************************************************************)
EXTENDS Integers, Sequences

CONSTANTS
    Streams,    \* the downloads
    Offered,    \* the files on the server at the start
    Kept        \* the files in the client's directory at the start

VARIABLES
    remote,     \* the path of each stream, here and there
    stage,      \* "asking", "refused", "confirmed", "settled", "over"
    size,       \* what the server said, or -1
    failed,     \* streams whose status says that they failed
    told,       \* streams whose failure the application was told
    local,      \* the files in the client's directory
    listening,  \* the application has registered its handler
    alive       \* its process runs

vars == <<remote, stage, size, failed, told, local, listening, alive>>

Init ==
    /\ stage = [s \in Streams |-> "asking"]
    /\ size = [s \in Streams |-> -1]
    /\ failed = {} /\ told = {}
    /\ local = Kept
    /\ listening = FALSE /\ alive = TRUE

Move(s, from, to) ==
    /\ alive
    /\ stage[s] = from
    /\ stage' = [stage EXCEPT ![s] = to]
    /\ UNCHANGED <<remote, listening, alive>>

Confirm(s) ==
    /\ Move(s, "asking", "confirmed")
    /\ remote[s] \in DOMAIN Offered
    /\ size' = [size EXCEPT ![s] = Len(Offered[remote[s]])]
    /\ UNCHANGED <<failed, told, local>>

Refuse(s) ==
    /\ Move(s, "asking", "refused")
    /\ failed' = failed \cup {s}
    /\ UNCHANGED <<size, told, local>>

\* No connection: the stream ends before anything was asked.
Drop(s) ==
    /\ Move(s, "asking", "over")
    /\ UNCHANGED <<size, failed, told, local>>

\* Two streams of one path may both create its file.
Create(s) ==
    /\ Move(s, "confirmed", "settled")
    /\ remote[s] \notin DOMAIN Kept
    /\ local' = [p \in DOMAIN local \cup {remote[s]} |->
                   IF p = remote[s] THEN << >> ELSE local[p]]
    /\ UNCHANGED <<size, failed, told>>

Decline(s) ==
    /\ Move(s, "confirmed", "settled")
    /\ failed' = failed \cup {s}
    /\ UNCHANGED <<size, told, local>>

TellRefused(s) ==
    /\ listening
    /\ Move(s, "refused", "over")
    /\ told' = told \cup {s}
    /\ UNCHANGED <<size, failed, local>>

TellFailed(s) ==
    /\ alive /\ listening
    /\ stage[s] = "settled" /\ s \in failed /\ size[s] > 0
    /\ told' = told \cup {s}
    /\ UNCHANGED <<remote, stage, size, failed, local, listening, alive>>

\* Only of an empty file can a failed stream end untold.
End(s) ==
    /\ Move(s, "settled", "over")
    /\ s \in failed /\ size[s] > 0 => s \in told
    /\ UNCHANGED <<size, failed, told, local>>

\* The status of a failed stream is overwritten.
Cancel(s) ==
    /\ alive /\ failed' = failed \ {s}
    /\ UNCHANGED <<remote, stage, size, told, local, listening, alive>>

Listen ==
    /\ alive /\ listening' = TRUE
    /\ UNCHANGED <<remote, stage, size, failed, told, local, alive>>

\* A failure nobody listens to ends the process.
Die ==
    /\ alive /\ ~listening
    /\ \E s \in Streams :
         stage[s] = "refused" \/ (stage[s] = "settled" /\ s \in failed /\ size[s] > 0)
    /\ alive' = FALSE
    /\ UNCHANGED <<remote, stage, size, failed, told, local, listening>>

Next ==
    \/ \E s \in Streams :
         \/ Confirm(s) \/ Refuse(s) \/ Drop(s) \/ Create(s) \/ Decline(s)
         \/ TellRefused(s) \/ TellFailed(s) \/ End(s) \/ Cancel(s)
    \/ Listen \/ Die

Spec == Init /\ [][Next]_vars
====
