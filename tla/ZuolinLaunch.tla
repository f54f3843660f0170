---- MODULE ZuolinLaunch ----
(***************************************************************************)
(* How the web service starts a C file server and learns its port           *)
(* (start_server in src/zuolin/app/file_transfer/server/pipe.py and in      *)
(* index.py, write_pipe and main in zuolin_file_server.c).  Parent and      *)
(* child meet at a FIFO named after the child's pid: the parent polls for   *)
(* it three times and opens it to read, the child makes it and opens it to  *)
(* write; each open waits for the other.                                    *)
(***************************************************************************)
EXTENDS Integers

CONSTANTS
    Polls,      \* how often the parent looks for the FIFO
    ChildDies   \* the server may die at any moment (exec or bind fails, a crash)

ASSUME LaunchAssumption ==
    /\ Polls \in Nat \ {0} /\ ChildDies \in BOOLEAN

VARIABLES
    waits,      \* pipe.py waits for the child's end; index.py returns the port
    inPipe,     \* server_in.pipe is in the working directory
    fifo,       \* <pid>.pipe is there: made by this child, or left by an earlier one
    parent,     \* where start_server is
    polls,      \* timeout
    child,      \* where the server's main is
    wire        \* the port is in the FIFO, not yet read

launchVars == <<waits, inPipe, fifo, parent, polls, child, wire>>

LaunchInit ==
    /\ waits \in BOOLEAN /\ inPipe \in BOOLEAN /\ fifo \in BOOLEAN
    /\ parent = "begin" /\ polls = Polls
    /\ child = "none" /\ wire = FALSE

ParentGoes(from, to) == parent = from /\ parent' = to
ChildGoes(from, to) == child = from /\ child' = to

(***************************************************************************)
(* start_server, in the parent.                                            *)
(***************************************************************************)
\* read_path is assigned further down and so is a local name of the function:
\* the second mkfifo raises UnboundLocalError.  Only when the first one raises
\* OSError, because server_in.pipe is there already, is the second one skipped.
MakeFifos ==
    /\ ParentGoes("begin", IF inPipe THEN "poll" ELSE "raised")
    /\ inPipe' = TRUE
    /\ child' = IF inPipe THEN "setup" ELSE child
    /\ UNCHANGED <<waits, fifo, polls, wire>>

\* Only the number of polls ends the wait; open is tried in any case.
PollFifo ==
    /\ \/ fifo /\ ParentGoes("poll", "open") /\ UNCHANGED polls
       \/ ~fifo /\ ParentGoes("poll", IF polls = 1 THEN "open" ELSE "poll") /\ polls' = polls - 1
    /\ UNCHANGED <<waits, inPipe, fifo, child, wire>>

OpenFifo ==
    /\ ParentGoes("open", IF fifo THEN "opening" ELSE "raised")
    /\ UNCHANGED <<waits, inPipe, fifo, polls, child, wire>>

\* The opens of both sides return together.
Rendezvous ==
    /\ ParentGoes("opening", "read")
    /\ ChildGoes("opening", "write")
    /\ UNCHANGED <<waits, inPipe, fifo, polls, wire>>

\* An empty read is tried again after a second, for ever.
ReadPort ==
    /\ ParentGoes("read", "wait")
    /\ wire /\ wire' = FALSE
    /\ UNCHANGED <<waits, inPipe, fifo, polls, child>>

ReturnPort ==
    /\ ~waits
    /\ ParentGoes("wait", "returned")
    /\ UNCHANGED <<waits, inPipe, fifo, polls, child, wire>>

WaitForServer ==
    /\ waits /\ child \in {"exited", "dead"}
    /\ ParentGoes("wait", "returned")
    /\ UNCHANGED <<waits, inPipe, fifo, polls, child, wire>>

PortKnown == parent \in {"wait", "returned"}

(***************************************************************************)
(* main and write_pipe, in the child.                                      *)
(***************************************************************************)
\* Options, certificate, socket, bind, listen, getsockname.
Listen ==
    /\ ChildGoes("setup", "mkfifo")
    /\ UNCHANGED <<waits, inPipe, fifo, parent, polls, wire>>

\* A FIFO that is there already is used as it is.
MakeFifo ==
    /\ ChildGoes("mkfifo", "opening")
    /\ fifo' = TRUE
    /\ UNCHANGED <<waits, inPipe, parent, polls, wire>>

\* Slip: nothing is written before the close.
WritePortSlip ==
    /\ ChildGoes("write", "accept")
    /\ UNCHANGED <<waits, inPipe, fifo, parent, polls, wire>>

WritePort ==
    /\ ChildGoes("write", "accept")
    /\ wire' = TRUE
    /\ UNCHANGED <<waits, inPipe, fifo, parent, polls>>

Parent == MakeFifos \/ PollFifo \/ OpenFifo \/ ReadPort \/ ReturnPort \/ WaitForServer
Child == Listen \/ MakeFifo \/ WritePort
Launch == Parent \/ Child \/ Rendezvous

LaunchFairness ==
    /\ WF_launchVars(Parent) /\ WF_launchVars(Child) /\ WF_launchVars(Rendezvous)

LaunchOK ==
    /\ waits \in BOOLEAN /\ inPipe \in BOOLEAN /\ fifo \in BOOLEAN /\ wire \in BOOLEAN
    /\ parent \in {"begin", "poll", "open", "opening", "read", "wait", "returned", "raised"}
    /\ polls \in 0..Polls
    /\ child \in {"none", "setup", "mkfifo", "opening", "write", "accept", "serve", "exited", "dead"}
====
