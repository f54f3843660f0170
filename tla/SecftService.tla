---- MODULE SecftService ----
(***************************************************************************)
(* The SDK server facing clients that may send any request of a given set, *)
(* in any order, on connections they open when they like.                  *)
(***************************************************************************)
EXTENDS SecftServer

CONSTANTS
    Requests,   \* the requests each client chooses from
    MaxSends    \* bound: how many requests a connection carries

ASSUME RequestsAssumption ==
    /\ Requests \in [Conns -> SUBSET Request]
    /\ MaxSends \in [Conns -> Nat]

VARIABLES
    sent,       \* requests sent so far, by connection (bound only)
    denied      \* history: connections whose untrusted request came to the front

serviceVars == <<linkVars, serverVars, sent, denied>>

Init ==
    /\ ServerInit
    /\ sent = [c \in Conns |-> 0]
    /\ denied = {}

ClientConnects(c) ==
    /\ up
    /\ Connect(c)
    /\ UNCHANGED <<serverVars, sent>>

ClientAsks(c) ==
    /\ sent[c] < MaxSends[c]
    /\ \E m \in Requests[c] : ClientSend(c, m)
    /\ sent' = [sent EXCEPT ![c] = @ + 1]
    /\ UNCHANGED serverVars

ClientReads(c) ==
    /\ ClientReceive(c)
    /\ UNCHANGED <<serverVars, sent>>

ClientNext == \E c \in Conns : ClientConnects(c) \/ ClientAsks(c) \/ ClientReads(c)

AtFront(c) == c2s[c] # << >> /\ ~Asked(c).trusted

Next ==
    /\ ClientNext \/ (ServerNext /\ UNCHANGED sent)
    /\ denied' = denied \cup {c \in Conns : AtFront(c)}

Spec == Init /\ [][Next]_serviceVars

FairSpec == Spec /\ ServerFairness

-----------------------------------------------------------------------------
TypeOK ==
    /\ ServerOK
    /\ clients \in Seq(Conns)
    /\ cursor \in 0..Len(clients) + 1
    /\ \A c \in Conns : sent[c] \in 0..MaxSends[c]
    /\ denied \subseteq Conns

\* No session is in the list twice, and every open socket belongs to a session
\* of the list: push_back and erase neither lose nor double a client_ptr, so
\* no accepted connection is left that the handler will never poll or close.
OpenSocketsAreListed ==
    /\ IsInjective(clients)
    /\ \A c \in Conns : sock[c] = "open" => c \in ToSet(clients)
    /\ \A c \in ToSet(clients) : sock[c] \in {"open", "closed"}

\* The iterators b and e of handle_clients_thread stay valid: while a pass is
\* under way no step but its own last one changes the list it walks.
ListIsStableDuringPass ==
    [][(cursor \in 1..Len(clients) /\ up') => clients' = clients]_serviceVars

\* A connection that presented bad credentials gets no reply and changes no
\* file from then on, whatever it sent behind the rejected request or sends later.
DeniedStaysOut ==
    [][\A c \in denied :
          mixed[c] = {} =>
             /\ Len(s2c'[c]) <= Len(s2c[c])
             /\ AtCursor(c) => UNCHANGED diskVars]_serviceVars

\* The content of a file is only ever extended, except by the first packet of
\* an upload that asks to overwrite: with two sessions writing to the same stem
\* no other packet cuts off what is stored.
OnlyOverwriteDiscards ==
    [][\A p \in Paths :
          IsPrefix(files[p], files'[p])
          \/ \E c \in Conns : /\ AtCursor(c) /\ c2s[c] # << >> /\ Target(c) = p
                              /\ Asked(c).flags = "first" /\ Asked(c).overwrite]_serviceVars

\* A client that waits for a reply does not wait for ever: it gets one, or its
\* connection ends (by a reply-less return of do_upload or do_download the
\* session becomes silent, and the time-out closes it).
NoOneWaitsForEver ==
    \A c \in Conns : c2s[c] # << >> ~> (s2c[c] # << >> \/ Broken(c))

\* Clients that stop talking leave the list, so it does not grow without end.
SilentSessionsAreErased ==
    \A c \in Conns : c \in ToSet(clients) ~> c \notin ToSet(clients)

\* "3. if time out, close server" (secft.cpp, line 45): a session nothing has
\* arrived from is closed only after more than 5 seconds without a packet.
ClosedOnlyAfterSilence ==
    [][\A c \in Conns :
          (sock[c] = "open" /\ sock'[c] = "closed" /\ c2s[c] = << >> /\ c \notin cut /\ up')
             => c \in quiet]_serviceVars
====
