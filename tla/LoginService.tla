---- MODULE LoginService ----
(***************************************************************************)
(* Logging in and listing files: the Qt client (src/zuolin_client) and the  *)
(* Flask workers behind uwsgi (src/zuolin/app/index.py; config.ini runs two  *)
(* processes, each with a list of users of its own).  An HTTP request is a   *)
(* record that moves from "sent" over its answer to "done"; requests of a    *)
(* client are answered in any order, by any worker, late, or not at all.     *)
(***************************************************************************)
EXTENDS Integers, Sequences

CONSTANTS
    Users,      \* user names
    Workers,    \* uwsgi processes
    NoUser,     \* the empty name of a client that has not logged in
    Seconds,    \* loginWindow.timeout: 5
    MaxLogins,  \* bound: clicks on the login button
    Mistyped,   \* bound: the clicks whose password may be wrong
    MaxLists    \* bound: lists the main window asks for

ASSUME LoginAssumption ==
    /\ NoUser \notin Users
    /\ Seconds \in Nat /\ MaxLogins \in Nat /\ MaxLists \in Nat

VARIABLES
    users,      \* per worker: the list of logged-in users, as how often each is in it
    username,   \* loginBackend::_username: the name typed last
    state,      \* loginBackend::_login_state, not initialised
    identity,   \* RequestManeger's statics: the name and the token of further requests
    loading,    \* the spinner turns, in the button's place
    label,      \* "time-out, please try again" is shown
    running,    \* the Timer was started
    timeout,    \* its countdown
    windows,    \* main windows made; the login window is hidden from the first on
    logins,     \* the login requests, in the order of the clicks
    lists,      \* the requests of the main windows, in their order
    shown,      \* history: names a list with files was shown for
    granted,    \* history: names verify_user accepted
    overdue,    \* history: a time-out fired while a login was unanswered
    relapses    \* history: how often an answer took the login back

workerVars == <<users, granted>>
backendVars == <<username, state, identity>>
screenVars == <<loading, label, running, timeout, windows>>
vars == <<workerVars, backendVars, screenVars, logins, lists, shown, overdue, relapses>>

Init ==
    /\ users = [w \in Workers |-> [u \in Users |-> 0]]
    /\ username = NoUser /\ state \in BOOLEAN
    /\ identity = [user |-> NoUser, token |-> 0]
    /\ loading = FALSE /\ label = FALSE /\ running = FALSE /\ timeout = Seconds
    /\ windows = 0
    /\ logins = << >> /\ lists = << >>
    /\ shown = {} /\ granted = {} /\ overdue = FALSE /\ relapses = 0

(***************************************************************************)
(* The login window.                                                       *)
(***************************************************************************)
\* Slip: the button stays where it is.
ClickLoginSlip(u, good) ==
    /\ windows = 0 /\ ~loading /\ Len(logins) < MaxLogins
    /\ username' = u /\ state' = FALSE
    /\ logins' = Append(logins, [user |-> u, good |-> good, stage |-> "sent"])
    /\ running' = TRUE /\ label' = FALSE
    /\ UNCHANGED <<workerVars, identity, loading, timeout, windows, lists, shown, overdue, relapses>>

\* onClicked: start of a Timer that runs does nothing, and nothing resets timeout.
ClickLogin(u, good) ==
    /\ windows = 0 /\ ~loading /\ Len(logins) < MaxLogins
    /\ username' = u /\ state' = FALSE
    /\ logins' = Append(logins, [user |-> u, good |-> good, stage |-> "sent"])
    /\ running' = TRUE /\ loading' = TRUE /\ label' = FALSE
    /\ UNCHANGED <<workerVars, identity, timeout, windows, lists, shown, overdue, relapses>>

\* Slip: repeat is false.
TickSlip ==
    /\ running /\ running' = FALSE
    /\ timeout' = IF timeout > 0 THEN timeout - 1 ELSE Seconds
    /\ IF timeout > 0 THEN UNCHANGED <<loading, label, overdue>>
       ELSE /\ loading' = FALSE /\ label' = TRUE
            /\ overdue' = (overdue \/ \E i \in DOMAIN logins : logins[i].stage # "done")
    /\ UNCHANGED <<workerVars, backendVars, windows, logins, lists, shown, relapses>>

\* onTriggered.  Nothing stops the Timer.
Tick ==
    /\ running
    /\ timeout' = IF timeout > 0 THEN timeout - 1 ELSE Seconds
    /\ IF timeout > 0 THEN UNCHANGED <<loading, label, overdue>>
       ELSE /\ loading' = FALSE /\ label' = TRUE
            /\ overdue' = (overdue \/ \E i \in DOMAIN logins : logins[i].stage # "done")
    /\ UNCHANGED <<workerVars, backendVars, running, windows, logins, lists, shown, relapses>>

\* Slip: onLoginStateChanged does not look at the state.
OpenWindowSlip(new) == windows' = IF new # state THEN windows + 1 ELSE windows

\* main.qml makes a main window when the state becomes true.
OpenWindow(new) == windows' = IF new /\ ~state THEN windows + 1 ELSE windows

(***************************************************************************)
(* loginBackend::handle_login_response, for the answer to request i.         *)
(***************************************************************************)
Answer(i, stage) == logins' = [logins EXCEPT ![i].stage = stage]

HandleLoginAccepted(i) ==
    /\ logins[i].stage = "accepted" /\ Answer(i, "done")
    /\ identity' = [user |-> username, token |-> i]
    /\ state' = TRUE /\ OpenWindow(TRUE)
    /\ UNCHANGED <<workerVars, username, loading, label, running, timeout, lists, shown,
                   overdue, relapses>>

\* An error, or no answer at all: the reply is an empty object.
HandleLoginRefused(i) ==
    /\ logins[i].stage = "refused" /\ Answer(i, "done")
    /\ state' = FALSE /\ OpenWindow(FALSE)
    /\ relapses' = IF state THEN relapses + 1 ELSE relapses
    /\ UNCHANGED <<workerVars, username, identity, loading, label, running, timeout, lists,
                   shown, overdue>>

(***************************************************************************)
(* The workers.                                                            *)
(***************************************************************************)
LoggedIn(u, w) == users[w][u] > 0

\* verify_auth_token checks the signature and the age, not whose token it is.  A
\* token is the login request it came from; whether its hour is over is left open.
VerifyAuthToken(token) == token \in DOMAIN logins /\ logins[token].good

\* Slip: every login appends.
LoginSlip(i, w) ==
    /\ logins[i].stage = "sent" /\ logins[i].good /\ Answer(i, "accepted")
    /\ users' = [users EXCEPT ![w][logins[i].user] = @ + 1]
    /\ granted' = granted \cup {logins[i].user}
    /\ UNCHANGED <<backendVars, screenVars, lists, shown, overdue, relapses>>

Login(i, w) ==
    /\ logins[i].stage = "sent" /\ logins[i].good /\ Answer(i, "accepted")
    /\ users' = IF LoggedIn(logins[i].user, w) THEN users
                ELSE [users EXCEPT ![w][logins[i].user] = @ + 1]
    /\ granted' = granted \cup {logins[i].user}
    /\ UNCHANGED <<backendVars, screenVars, lists, shown, overdue, relapses>>

RefuseLogin(i) ==
    /\ logins[i].stage = "sent" /\ ~logins[i].good /\ Answer(i, "refused")
    /\ UNCHANGED <<workerVars, backendVars, screenVars, lists, shown, overdue, relapses>>

\* No one gets the token, and the empty reply is handled like a refusal.
LoginLost(i) ==
    /\ logins[i].stage \in {"sent", "accepted"}
    /\ logins' = [logins EXCEPT ![i].stage = "refused", ![i].good = FALSE]
    /\ UNCHANGED <<workerVars, backendVars, screenVars, lists, shown, overdue, relapses>>

\* remove takes the first entry of that name out.  The Qt client never calls it;
\* anyone with a name and a token can.
Logout(u, token, w) ==
    /\ LoggedIn(u, w) /\ VerifyAuthToken(token) /\ logins[token].stage # "sent"
    /\ users' = [users EXCEPT ![w][u] = @ - 1]
    /\ UNCHANGED <<granted, backendVars, screenVars, logins, lists, shown, overdue,
                   relapses>>

\* A worker is started again: its list is empty.
RestartWorker(w) ==
    /\ users' = [users EXCEPT ![w] = [u \in Users |-> 0]]
    /\ UNCHANGED <<granted, backendVars, screenVars, logins, lists, shown, overdue,
                   relapses>>

(***************************************************************************)
(* Lists: file_ls and file_history of ClientBackend, files of the workers.  *)
(***************************************************************************)
AskList(command) ==
    /\ windows > 0 /\ Len(lists) < MaxLists
    /\ lists' = Append(lists, [command |-> command, user |-> identity.user,
                               token |-> identity.token, stage |-> "sent"])
    /\ UNCHANGED <<workerVars, backendVars, screenVars, logins, shown, overdue, relapses>>

\* Slip: a valid token is enough.
FilesSlip(k, w) ==
    /\ lists[k].stage = "sent"
    /\ \/ /\ VerifyAuthToken(lists[k].token)
          /\ lists' = [lists EXCEPT ![k].stage = lists[k].command]
       \/ lists' = [lists EXCEPT ![k].stage = "error"]
    /\ UNCHANGED <<workerVars, backendVars, screenVars, logins, shown, overdue, relapses>>

\* handle_command answers, or "not logged in" or, when the hour is over, "invalid".
Files(k, w) ==
    /\ lists[k].stage = "sent"
    /\ \/ /\ LoggedIn(lists[k].user, w) /\ VerifyAuthToken(lists[k].token)
          /\ lists' = [lists EXCEPT ![k].stage = lists[k].command]
       \/ lists' = [lists EXCEPT ![k].stage = "error"]
    /\ UNCHANGED <<workerVars, backendVars, screenVars, logins, shown, overdue, relapses>>

\* The errors are strings, whose toInt is 0: an empty list is shown for them, as
\* for every history, whose answer has no files.  An empty reply is dropped.
HandleList(k) ==
    /\ lists[k].stage \notin {"sent", "done"}
    /\ lists' = [lists EXCEPT ![k].stage = "done"]
    /\ shown' = IF lists[k].stage = "ls" THEN shown \cup {lists[k].user} ELSE shown
    /\ UNCHANGED <<workerVars, backendVars, screenVars, logins, overdue, relapses>>

ListLost(k) ==
    /\ lists[k].stage \in {"sent", "ls", "history", "error"}
    /\ lists' = [lists EXCEPT ![k].stage = "done"]
    /\ UNCHANGED <<workerVars, backendVars, screenVars, logins, shown, overdue, relapses>>

Handle(i) == HandleLoginAccepted(i) \/ HandleLoginRefused(i)

Next ==
    \/ \E u \in Users : ClickLogin(u, TRUE) \/ (Len(logins) + 1 \in Mistyped /\ ClickLogin(u, FALSE))
    \/ Tick
    \/ \E i \in DOMAIN logins :
         \/ Handle(i) \/ RefuseLogin(i) \/ LoginLost(i)
         \/ \E w \in Workers : Login(i, w)
    \/ \E w \in Workers : RestartWorker(w) \/ \E u \in Users, t \in DOMAIN logins : Logout(u, t, w)
    \/ \E command \in {"ls", "history"} : AskList(command)
    \/ \E k \in DOMAIN lists :
         \/ HandleList(k) \/ ListLost(k)
         \/ \E w \in Workers : Files(k, w)

Spec == Init /\ [][Next]_vars

\* The client's event loop runs its Timer.
FairSpec == Spec /\ WF_vars(Tick)

-----------------------------------------------------------------------------
LoginRequests ==
    [user : Users, good : BOOLEAN, stage : {"sent", "accepted", "refused", "done"}]
ListRequests ==
    [command : {"ls", "history"}, user : Users, token : 1..MaxLogins,
     stage : {"sent", "ls", "history", "error", "done"}]

\* Types; in particular each worker's list of users has no name twice, so that the
\* one remove of a logout ends the login there.
TypeOK ==
    /\ users \in [Workers -> [Users -> 0..1]]
    /\ username \in Users \cup {NoUser} /\ state \in BOOLEAN
    /\ identity \in [user : Users \cup {NoUser}, token : 0..MaxLogins]
    /\ loading \in BOOLEAN /\ label \in BOOLEAN /\ running \in BOOLEAN
    /\ timeout \in 0..Seconds /\ windows \in Nat
    /\ logins \in Seq(LoginRequests) /\ lists \in Seq(ListRequests)
    /\ shown \subseteq Users /\ granted \subseteq Users
    /\ overdue \in BOOLEAN /\ relapses \in Nat

\* The name and the token the client goes on with belong together, unless a
\* time-out gave the button back while a login was under way: then the token of
\* the late answer is joined with the name typed since.
IdentityIsOwn ==
    (identity.token # 0 /\ ~overdue) => logins[identity.token].user = identity.user

\* There is one main window for the login that holds and one for each that a late
\* refusal took back: an answer in any order makes at most one of them.
WindowsAreExplained == windows > 0 => windows = relapses + (IF state THEN 1 ELSE 0)

\* A list with files is only shown for a name a login of which was accepted,
\* whatever the order of answers has made of name and token.
FilesNeedLogin == shown \subseteq granted

\* The spinner stops and the button comes back, answered or not.
SpinnerEnds == loading ~> ~loading

\* What that rests on: a spinner has its Timer running, and as long as it turns no
\* click, answer or list sets the countdown back.
SpinnerIsTimed ==
    /\ [](loading => running)
    /\ [][(loading /\ loading') => timeout' <= timeout]_vars
====
