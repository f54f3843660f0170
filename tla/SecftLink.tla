---- MODULE SecftLink ----
(***************************************************************************)
(* The TCP connections between SDK clients and the server, as the code     *)
(* under src/sdk uses them through boost::asio (external): write_some       *)
(* hands a frame to the kernel, available and receive look at what has      *)
(* arrived, close ends the server's side.  A connection can be cut at any   *)
(* time; what the server has not read may go with it.                       *)
(***************************************************************************)
EXTENDS Sequences

CONSTANT Conns      \* the connections that are ever made

VARIABLES
    sock,   \* the server's side: "none", "backlog" (not accepted), "open", "closed"
    cut,    \* the connections that are broken
    c2s,    \* frames on their way to the server, in order
    s2c     \* frames on their way to the client, in order

linkVars == <<sock, cut, c2s, s2c>>

LinkInit ==
    /\ sock = [c \in Conns |-> "none"]
    /\ cut = {}
    /\ c2s = [c \in Conns |-> << >>]
    /\ s2c = [c \in Conns |-> << >>]

Broken(c) == c \in cut \/ sock[c] = "closed"

Connect(c) ==
    /\ sock[c] = "none"
    /\ sock' = [sock EXCEPT ![c] = "backlog"]
    /\ UNCHANGED <<cut, c2s, s2c>>

\* write_some succeeds as soon as the kernel has the bytes: on a broken
\* connection they go nowhere and the error may only show on a later call.
ClientSend(c, m) ==
    /\ sock[c] # "none"
    /\ c2s' = IF Broken(c) THEN c2s ELSE [c2s EXCEPT ![c] = Append(@, m)]
    /\ UNCHANGED <<sock, cut, s2c>>

ClientSendFails(c) ==
    /\ Broken(c)
    /\ UNCHANGED linkVars

ClientReceive(c) ==
    /\ s2c[c] # << >>
    /\ s2c' = [s2c EXCEPT ![c] = Tail(@)]
    /\ UNCHANGED <<sock, cut, c2s>>

\* End of stream after the server closed, or a reset.
ClientReceiveFails(c) ==
    /\ c \in cut \/ (sock[c] = "closed" /\ s2c[c] = << >>)
    /\ UNCHANGED linkVars

Cut(c) ==
    /\ sock[c] \in {"backlog", "open"} /\ c \notin cut
    /\ cut' = cut \cup {c}
    /\ c2s' \in {c2s, [c2s EXCEPT ![c] = << >>]}
    /\ UNCHANGED <<sock, s2c>>
====
