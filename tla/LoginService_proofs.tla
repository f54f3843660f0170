---- MODULE LoginService_proofs ----
(***************************************************************************)
(* Proofs about LoginService, for any number of users, workers, clicks and   *)
(* seconds.                                                                 *)
(***************************************************************************)
EXTENDS LoginService, TLAPS

Stages == {"sent", "accepted", "refused", "done"}

\* A main window needs an accepted login, and that a name was typed.
Known ==
    /\ Len(logins) <= MaxLogins
    /\ logins # << >> => username \in Users
    /\ identity.token \in 0..Len(logins)
    /\ identity.token # 0 => identity.user \in Users
    /\ windows > 0 => identity.token # 0

\* Until a time-out fired too early, at most the last login is under way, for the
\* name that is still in the text box, and the spinner keeps the button away.
Single ==
    ~overdue =>
        \A i \in DOMAIN logins :
            logins[i].stage # "done" =>
                i = Len(logins) /\ loading /\ logins[i].user = username

\* Windows are counted from the first click on: until then the state is not initialised.
Counted ==
    /\ logins = << >> => windows = 0 /\ relapses = 0
    /\ logins # << >> => windows = relapses + (IF state THEN 1 ELSE 0)

\* Who is in the list of a worker, or was answered, was granted a login.
Granted ==
    /\ \A w \in Workers, u \in Users : LoggedIn(u, w) => u \in granted
    /\ \A k \in DOMAIN lists : lists[k].stage \in {"ls", "history"} => lists[k].user \in granted
    /\ shown \subseteq granted

Inv ==
    /\ TypeOK
    /\ Known
    /\ Single
    /\ IdentityIsOwn
    /\ Counted
    /\ Granted

(***************************************************************************)
(* The requests.                                                           *)
(***************************************************************************)
\* An answer changes one request, and neither its name nor its password.
LEMMA AnswerChangesStage ==
  ASSUME logins \in Seq(LoginRequests), NEW i \in DOMAIN logins, NEW stage \in Stages,
         Answer(i, stage)
  PROVE  /\ logins' \in Seq(LoginRequests)
         /\ Len(logins') = Len(logins) /\ DOMAIN logins' = DOMAIN logins
         /\ logins'[i].stage = stage
         /\ \A j \in DOMAIN logins : logins'[j].user = logins[j].user
         /\ \A j \in DOMAIN logins : j # i => logins'[j] = logins[j]
<1> DEFINE answered == [logins[i] EXCEPT !.stage = stage]
<1>1. logins[i] \in LoginRequests
  OBVIOUS
<1>2. answered \in LoginRequests /\ answered.user = logins[i].user /\ answered.stage = stage
  BY <1>1 DEF LoginRequests, Stages
<1>3. logins' = [logins EXCEPT ![i] = answered]
  BY DEF Answer
<1> HIDE DEF answered
<1> QED
  BY <1>2, <1>3

\* A lost login turns into a refused one.
LEMMA LossChangesStage ==
  ASSUME logins \in Seq(LoginRequests), NEW i \in DOMAIN logins, LoginLost(i)
  PROVE  /\ logins' \in Seq(LoginRequests)
         /\ Len(logins') = Len(logins) /\ DOMAIN logins' = DOMAIN logins
         /\ logins[i].stage # "done"
         /\ \A j \in DOMAIN logins : logins'[j].user = logins[j].user
         /\ \A j \in DOMAIN logins : j # i => logins'[j] = logins[j]
<1> DEFINE lost == [logins[i] EXCEPT !.stage = "refused", !.good = FALSE]
<1>1. logins[i] \in LoginRequests
  OBVIOUS
<1>2. lost \in LoginRequests /\ lost.user = logins[i].user
  BY <1>1 DEF LoginRequests
<1>3. logins' = [logins EXCEPT ![i] = lost]
  BY <1>1 DEF LoginLost, LoginRequests
<1> HIDE DEF lost
<1>4. logins[i].stage # "done"
  BY DEF LoginLost
<1> QED
  BY <1>2, <1>3, <1>4

LEMMA InitInv == Init => Inv
<1> SUFFICES ASSUME Init PROVE Inv
  OBVIOUS
<1> USE LoginAssumption DEF LoginAssumption, Init
<1>1. TypeOK
  <2>1. logins \in Seq(LoginRequests) /\ lists \in Seq(ListRequests)
    OBVIOUS
  <2>2. identity \in [user : Users \cup {NoUser}, token : 0..MaxLogins]
    OBVIOUS
  <2>3. users \in [Workers -> [Users -> 0..1]]
    OBVIOUS
  <2>4. timeout \in 0..Seconds /\ windows \in Nat /\ relapses \in Nat
    OBVIOUS
  <2> QED
    BY <2>1, <2>2, <2>3, <2>4 DEF TypeOK
<1>2. Known /\ Single /\ IdentityIsOwn /\ Counted /\ Granted
  BY DEF Known, Single, IdentityIsOwn, Counted, Granted, LoggedIn
<1> QED
  BY <1>1, <1>2 DEF Inv

(***************************************************************************)
(* The login window.                                                       *)
(***************************************************************************)
LEMMA ClickKeepsInv ==
  ASSUME Inv, NEW u \in Users, NEW good \in BOOLEAN, ClickLogin(u, good)
  PROVE  Inv'
<1> USE DEF ClickLogin, workerVars
<1> DEFINE r == [user |-> u, good |-> good, stage |-> "sent"]
<1>1. r \in LoginRequests /\ r.user = u
  BY DEF LoginRequests
<1>2. /\ logins \in Seq(LoginRequests) /\ Len(logins) \in Nat
      /\ logins' = Append(logins, r)
  BY DEF Inv, TypeOK
<1> HIDE DEF r
<1>3. /\ logins' \in Seq(LoginRequests) /\ Len(logins') = Len(logins) + 1
      /\ logins'[Len(logins) + 1] = r
      /\ \A i \in DOMAIN logins : logins'[i] = logins[i]
      /\ logins' # << >>
      /\ DOMAIN logins' = DOMAIN logins \cup {Len(logins) + 1}
      /\ DOMAIN logins = 1..Len(logins)
  BY <1>1, <1>2
<1>4. TypeOK'
  BY <1>3 DEF Inv, TypeOK
<1>5. Known'
  BY <1>2, <1>3, LoginAssumption DEF Inv, TypeOK, Known, LoginAssumption
<1>6. Single'
  <2> SUFFICES ASSUME ~overdue, NEW i \in DOMAIN logins', logins'[i].stage # "done"
               PROVE  i = Len(logins') /\ logins'[i].user = u
    BY DEF Single
  <2>1. i \notin DOMAIN logins
    BY <1>3 DEF Inv, Single
  <2> QED
    BY <1>1, <1>3, <2>1
<1>7. IdentityIsOwn'
  BY <1>2, <1>3 DEF Inv, Known, IdentityIsOwn
<1>8. Counted'
  BY <1>3 DEF Inv, TypeOK, Counted
<1>9. Granted'
  BY DEF Inv, Granted, LoggedIn
<1> QED
  BY <1>4, <1>5, <1>6, <1>7, <1>8, <1>9 DEF Inv

LEMMA TickKeepsInv == Inv /\ Tick => Inv'
<1> SUFFICES ASSUME Inv, Tick PROVE Inv'
  OBVIOUS
<1> USE DEF Tick, workerVars, backendVars
<1>1. TypeOK'
  <2>1. timeout' \in 0..Seconds
    BY LoginAssumption DEF Inv, TypeOK, LoginAssumption
  <2>2. loading' \in BOOLEAN /\ label' \in BOOLEAN /\ overdue' \in BOOLEAN
    BY DEF Inv, TypeOK
  <2> QED
    BY <2>1, <2>2 DEF Inv, TypeOK
<1>2. Known' /\ Counted' /\ Granted'
  BY DEF Inv, Known, Counted, Granted, LoggedIn
<1>3. Single' /\ IdentityIsOwn'
  <2>1. CASE timeout > 0
    BY <2>1 DEF Inv, Single, IdentityIsOwn
  <2>2. CASE ~(timeout > 0)
    BY <2>2 DEF Inv, Single, IdentityIsOwn
  <2> QED
    BY <2>1, <2>2
<1> QED
  BY <1>1, <1>2, <1>3 DEF Inv

(***************************************************************************)
(* Answers to logins.                                                      *)
(***************************************************************************)
LEMMA AcceptedKeepsInv ==
  ASSUME Inv, NEW i \in DOMAIN logins, HandleLoginAccepted(i)
  PROVE  Inv'
<1> USE DEF HandleLoginAccepted, workerVars
<1>1. /\ logins' \in Seq(LoginRequests)
      /\ Len(logins') = Len(logins) /\ DOMAIN logins' = DOMAIN logins
      /\ logins'[i].stage = "done"
      /\ \A j \in DOMAIN logins : logins'[j].user = logins[j].user
      /\ \A j \in DOMAIN logins : j # i => logins'[j] = logins[j]
  BY AnswerChangesStage DEF Inv, TypeOK, Stages
<1>2. /\ Len(logins) \in Nat /\ DOMAIN logins = 1..Len(logins)
      /\ logins # << >> /\ logins' # << >>
  BY <1>1 DEF Inv, TypeOK
<1>3. i \in 1..MaxLogins /\ username \in Users
  BY <1>2, LoginAssumption DEF Inv, Known, LoginAssumption
<1>4. identity'.user = username /\ identity'.token = i
  OBVIOUS
<1>5. windows' \in Nat
  BY DEF Inv, TypeOK, OpenWindow
<1>6. TypeOK'
  <2>1. identity' \in [user : Users \cup {NoUser}, token : 0..MaxLogins]
    BY <1>3, LoginAssumption DEF LoginAssumption
  <2> QED
    BY <1>1, <1>5, <2>1 DEF Inv, TypeOK
<1>7. Known'
  BY <1>1, <1>2, <1>3, <1>4 DEF Inv, Known
<1>8. Single'
  BY <1>1 DEF Inv, Single
<1>9. IdentityIsOwn'
  BY <1>1, <1>4 DEF Inv, Single, IdentityIsOwn
<1>10. Counted'
  BY <1>2, <1>5 DEF Inv, TypeOK, Counted, OpenWindow
<1>11. Granted'
  BY DEF Inv, Granted, LoggedIn
<1> QED
  BY <1>6, <1>7, <1>8, <1>9, <1>10, <1>11 DEF Inv

LEMMA RefusedKeepsInv ==
  ASSUME Inv, NEW i \in DOMAIN logins, HandleLoginRefused(i)
  PROVE  Inv'
<1> USE DEF HandleLoginRefused, workerVars
<1>1. /\ logins' \in Seq(LoginRequests)
      /\ Len(logins') = Len(logins) /\ DOMAIN logins' = DOMAIN logins
      /\ logins'[i].stage = "done"
      /\ \A j \in DOMAIN logins : logins'[j].user = logins[j].user
      /\ \A j \in DOMAIN logins : j # i => logins'[j] = logins[j]
  BY AnswerChangesStage DEF Inv, TypeOK, Stages
<1>2. /\ Len(logins) \in Nat /\ DOMAIN logins = 1..Len(logins)
      /\ logins # << >> /\ logins' # << >>
  BY <1>1 DEF Inv, TypeOK
<1>3. windows' = windows /\ relapses' \in Nat
  BY DEF Inv, TypeOK, OpenWindow
<1>4. TypeOK'
  BY <1>1, <1>3 DEF Inv, TypeOK
<1>5. Known'
  BY <1>1, <1>2, <1>3 DEF Inv, Known
<1>6. Single'
  BY <1>1 DEF Inv, Single
<1>7. IdentityIsOwn'
  BY <1>1, <1>2 DEF Inv, Known, IdentityIsOwn
<1>8. Counted'
  BY <1>2, <1>3 DEF Inv, TypeOK, Counted
<1>9. Granted'
  BY DEF Inv, Granted, LoggedIn
<1> QED
  BY <1>4, <1>5, <1>6, <1>7, <1>8, <1>9 DEF Inv

\* What a worker or the network does to a login under way: the client's side stays.
LEMMA UnderWayKeepsClient ==
  ASSUME Inv, NEW i \in DOMAIN logins, logins[i].stage # "done",
         logins' \in Seq(LoginRequests), Len(logins') = Len(logins),
         DOMAIN logins' = DOMAIN logins,
         \A j \in DOMAIN logins : logins'[j].user = logins[j].user,
         \A j \in DOMAIN logins : j # i => logins'[j] = logins[j],
         UNCHANGED <<backendVars, screenVars, overdue, relapses>>
  PROVE  Known' /\ Single' /\ IdentityIsOwn' /\ Counted'
<1> USE DEF backendVars, screenVars
<1>1. /\ Len(logins) \in Nat /\ DOMAIN logins = 1..Len(logins)
      /\ logins # << >> /\ logins' # << >>
  BY DEF Inv, TypeOK
<1>2. Known' /\ IdentityIsOwn'
  BY <1>1 DEF Inv, Known, IdentityIsOwn
<1>3. Single'
  BY DEF Inv, Single
<1>4. Counted'
  BY <1>1 DEF Inv, Counted
<1> QED
  BY <1>2, <1>3, <1>4

LEMMA LoginKeepsInv ==
  ASSUME Inv, NEW i \in DOMAIN logins, NEW w \in Workers, Login(i, w)
  PROVE  Inv'
<1> USE DEF Login
<1>1. /\ logins' \in Seq(LoginRequests)
      /\ Len(logins') = Len(logins) /\ DOMAIN logins' = DOMAIN logins
      /\ \A j \in DOMAIN logins : logins'[j].user = logins[j].user
      /\ \A j \in DOMAIN logins : j # i => logins'[j] = logins[j]
  BY AnswerChangesStage DEF Inv, TypeOK, Stages
<1>2. logins[i].user \in Users
  <2>1. logins[i] \in LoginRequests
    BY DEF Inv, TypeOK
  <2> QED
    BY <2>1 DEF LoginRequests
<1>3. users \in [Workers -> [Users -> 0..1]]
  BY DEF Inv, TypeOK
<1>4. /\ users' \in [Workers -> [Users -> 0..1]]
      /\ \A v \in Workers, u \in Users :
            users'[v][u] > 0 => users[v][u] > 0 \/ u = logins[i].user
  <2>1. CASE LoggedIn(logins[i].user, w)
    BY <1>3, <2>1
  <2>2. CASE ~LoggedIn(logins[i].user, w)
    BY <1>2, <1>3, <2>2 DEF LoggedIn
  <2> QED
    BY <2>1, <2>2
<1>5. TypeOK'
  BY <1>1, <1>2, <1>4 DEF Inv, TypeOK, backendVars, screenVars
<1>6. Known' /\ Single' /\ IdentityIsOwn' /\ Counted'
  BY <1>1, UnderWayKeepsClient
<1>7. Granted'
  BY <1>4 DEF Inv, Granted, LoggedIn
<1> QED
  BY <1>5, <1>6, <1>7 DEF Inv

LEMMA RefuseKeepsInv ==
  ASSUME Inv, NEW i \in DOMAIN logins, RefuseLogin(i) \/ LoginLost(i)
  PROVE  Inv'
<1>1. /\ logins' \in Seq(LoginRequests)
      /\ Len(logins') = Len(logins) /\ DOMAIN logins' = DOMAIN logins
      /\ logins[i].stage # "done"
      /\ \A j \in DOMAIN logins : logins'[j].user = logins[j].user
      /\ \A j \in DOMAIN logins : j # i => logins'[j] = logins[j]
  <2>1. CASE RefuseLogin(i)
    BY <2>1, AnswerChangesStage DEF RefuseLogin, Inv, TypeOK, Stages
  <2>2. CASE LoginLost(i)
    BY <2>2, LossChangesStage DEF Inv, TypeOK
  <2> QED
    BY <2>1, <2>2
<1>2. UNCHANGED <<workerVars, backendVars, screenVars, lists, shown, overdue, relapses>>
  BY DEF RefuseLogin, LoginLost
<1>3. TypeOK'
  BY <1>1, <1>2 DEF Inv, TypeOK, workerVars, backendVars, screenVars
<1>4. Known' /\ Single' /\ IdentityIsOwn' /\ Counted'
  BY <1>1, <1>2, UnderWayKeepsClient
<1>5. Granted'
  BY <1>2 DEF Inv, Granted, LoggedIn, workerVars
<1> QED
  BY <1>3, <1>4, <1>5 DEF Inv

(***************************************************************************)
(* Logouts, restarts and lists.                                            *)
(***************************************************************************)
\* None of these touches the client's login.
LEMMA ClientStays ==
  ASSUME Inv, UNCHANGED <<backendVars, screenVars, logins, overdue, relapses>>
  PROVE  Known' /\ Single' /\ IdentityIsOwn' /\ Counted'
  BY DEF Inv, Known, Single, IdentityIsOwn, Counted, backendVars, screenVars

LEMMA LogoutKeepsInv ==
  ASSUME Inv, NEW w \in Workers,
         RestartWorker(w) \/ \E u \in Users, t \in DOMAIN logins : Logout(u, t, w)
  PROVE  Inv'
<1>1. UNCHANGED <<granted, backendVars, screenVars, logins, lists, shown, overdue, relapses>>
  BY DEF RestartWorker, Logout
<1>2. users \in [Workers -> [Users -> 0..1]]
  BY DEF Inv, TypeOK
<1>3. /\ users' \in [Workers -> [Users -> 0..1]]
      /\ \A v \in Workers, u \in Users : users'[v][u] > 0 => users[v][u] > 0
  <2>1. CASE RestartWorker(w)
    BY <1>2, <2>1 DEF RestartWorker
  <2>2. ASSUME NEW u \in Users, NEW t \in DOMAIN logins, Logout(u, t, w)
        PROVE  <1>3
    <3>1. users' = [users EXCEPT ![w] = [users[w] EXCEPT ![u] = users[w][u] - 1]]
      BY <2>2 DEF Logout
    <3>2. users[w][u] = 1 /\ users[w] \in [Users -> 0..1]
      BY <1>2, <2>2 DEF Logout, LoggedIn
    <3>3. [users[w] EXCEPT ![u] = users[w][u] - 1] \in [Users -> 0..1]
      BY <3>2
    <3> QED
      BY <1>2, <3>1, <3>2, <3>3
  <2> QED
    BY <2>1, <2>2
<1>4. TypeOK'
  BY <1>1, <1>3 DEF Inv, TypeOK, backendVars, screenVars
<1>5. Granted'
  BY <1>1, <1>3 DEF Inv, Granted, LoggedIn
<1> QED
  BY <1>1, <1>4, <1>5, ClientStays DEF Inv

LEMMA AskKeepsInv ==
  ASSUME Inv, NEW command \in {"ls", "history"}, AskList(command)
  PROVE  Inv'
<1> USE DEF AskList
<1> DEFINE r == [command |-> command, user |-> identity.user,
                 token |-> identity.token, stage |-> "sent"]
<1>1. identity.token \in 1..MaxLogins /\ identity.user \in Users
  BY LoginAssumption DEF Inv, TypeOK, Known, LoginAssumption
<1>2. r \in ListRequests /\ r.stage = "sent"
  BY <1>1 DEF ListRequests
<1>3. lists \in Seq(ListRequests) /\ lists' = Append(lists, r)
  BY DEF Inv, TypeOK
<1> HIDE DEF r
<1>4. /\ lists' \in Seq(ListRequests)
      /\ \A k \in DOMAIN lists' : lists'[k] = r \/ (k \in DOMAIN lists /\ lists'[k] = lists[k])
  BY <1>2, <1>3
<1>5. TypeOK'
  BY <1>4 DEF Inv, TypeOK, workerVars, backendVars, screenVars
<1>6. Granted'
  BY <1>2, <1>4 DEF Inv, Granted, LoggedIn, workerVars
<1> QED
  BY <1>5, <1>6, ClientStays DEF Inv

\* What becomes of a list that was asked for.
LEMMA ListKeepsInv ==
  ASSUME Inv, NEW k \in DOMAIN lists,
         HandleList(k) \/ ListLost(k) \/ \E w \in Workers : Files(k, w)
  PROVE  Inv'
<1>1. UNCHANGED <<workerVars, backendVars, screenVars, logins, overdue, relapses>>
  BY DEF HandleList, ListLost, Files
<1>2. PICK stage \in {"ls", "history", "error", "done"} :
        /\ lists' = [lists EXCEPT ![k].stage = stage]
        /\ stage \in {"ls", "history"} => \E w \in Workers : LoggedIn(lists[k].user, w)
  <2>1. lists[k].command \in {"ls", "history"}
    <3>1. lists[k] \in ListRequests
      BY DEF Inv, TypeOK
    <3> QED
      BY <3>1 DEF ListRequests
  <2> QED
    BY <2>1 DEF HandleList, ListLost, Files
<1> DEFINE answered == [lists[k] EXCEPT !.stage = stage]
<1>3. lists[k] \in ListRequests /\ lists \in Seq(ListRequests)
  BY DEF Inv, TypeOK
<1>4. answered \in ListRequests /\ answered.user = lists[k].user /\ answered.stage = stage
  BY <1>3 DEF ListRequests
<1>5. lists' = [lists EXCEPT ![k] = answered]
  BY <1>2
<1> HIDE DEF answered
<1>6. /\ lists' \in Seq(ListRequests) /\ DOMAIN lists' = DOMAIN lists
      /\ lists'[k] = answered
      /\ \A j \in DOMAIN lists : j # k => lists'[j] = lists[j]
  BY <1>3, <1>4, <1>5
<1>7. lists[k].user \in Users
  BY <1>3 DEF ListRequests
<1>8. shown' \subseteq shown \cup {lists[k].user}
      /\ (shown' # shown => lists[k].stage = "ls")
  BY DEF HandleList, ListLost, Files
<1>9. TypeOK'
  BY <1>1, <1>6, <1>7, <1>8 DEF Inv, TypeOK, workerVars, backendVars, screenVars
<1>10. Granted'
  <2>1. stage \in {"ls", "history"} => lists[k].user \in granted
    BY <1>2, <1>7 DEF Inv, Granted
  <2>2. shown' \subseteq granted
    BY <1>8 DEF Inv, Granted
  <2> QED
    BY <1>1, <1>4, <1>6, <2>1, <2>2 DEF Inv, Granted, LoggedIn, workerVars
<1> QED
  BY <1>1, <1>9, <1>10, ClientStays DEF Inv

LEMMA StutterKeepsInv == Inv /\ UNCHANGED vars => Inv'
  BY DEF Inv, TypeOK, Known, Single, IdentityIsOwn, Counted, Granted, LoggedIn, vars,
         workerVars, backendVars, screenVars

THEOREM LoginInvariant == Spec => []Inv
<1>1. Inv /\ [Next]_vars => Inv'
  <2> SUFFICES ASSUME Inv, Next PROVE Inv'
    BY StutterKeepsInv
  <2>1. CASE \E u \in Users : ClickLogin(u, TRUE)
                                \/ (Len(logins) + 1 \in Mistyped /\ ClickLogin(u, FALSE))
    BY <2>1, ClickKeepsInv
  <2>2. CASE Tick
    BY <2>2, TickKeepsInv
  <2>3. CASE \E i \in DOMAIN logins : Handle(i)
    BY <2>3, AcceptedKeepsInv, RefusedKeepsInv DEF Handle
  <2>4. CASE \E i \in DOMAIN logins : RefuseLogin(i) \/ LoginLost(i)
    BY <2>4, RefuseKeepsInv
  <2>5. CASE \E i \in DOMAIN logins, w \in Workers : Login(i, w)
    BY <2>5, LoginKeepsInv
  <2>6. CASE \E w \in Workers : RestartWorker(w)
                                  \/ \E u \in Users, t \in DOMAIN logins : Logout(u, t, w)
    BY <2>6, LogoutKeepsInv
  <2>7. CASE \E command \in {"ls", "history"} : AskList(command)
    BY <2>7, AskKeepsInv
  <2>8. CASE \E k \in DOMAIN lists :
               HandleList(k) \/ ListLost(k) \/ \E w \in Workers : Files(k, w)
    BY <2>8, ListKeepsInv
  <2> QED
    BY <2>1, <2>2, <2>3, <2>4, <2>5, <2>6, <2>7, <2>8 DEF Next
<1> QED
  BY InitInv, <1>1, PTL DEF Spec

\* No worker has a user in its list twice, and every request is one of a known kind.
THEOREM LoginTypes == Spec => []TypeOK
<1>1. Inv => TypeOK
  BY DEF Inv
<1> QED
  BY LoginInvariant, <1>1, PTL

\* Unless a time-out fired too early, loginBackend joins name and token of one login.
THEOREM IdentitiesAreOwn == Spec => []IdentityIsOwn
<1>1. Inv => IdentityIsOwn
  BY DEF Inv
<1> QED
  BY LoginInvariant, <1>1, PTL

\* main.qml makes one window per login that held.
THEOREM EveryWindowIsExplained == Spec => []WindowsAreExplained
<1>1. Inv => WindowsAreExplained
  BY DEF Inv, Counted, WindowsAreExplained
<1> QED
  BY LoginInvariant, <1>1, PTL

\* files shows nothing for a name verify_user never accepted.
THEOREM ShownFilesNeedLogin == Spec => []FilesNeedLogin
<1>1. Inv => FilesNeedLogin
  BY DEF Inv, Granted, FilesNeedLogin
<1> QED
  BY LoginInvariant, <1>1, PTL

\* onClicked starts the Timer with the spinner, and only onTriggered writes timeout
\* while it turns: the countdown has no way but down, whatever is answered when.
THEOREM SpinnersAreTimed == Spec => SpinnerIsTimed
<1> DEFINE Timed == loading => running
           Down == (loading /\ loading') => timeout' <= timeout
<1>1. Init => Timed
  BY DEF Init
<1>2. TypeOK /\ Timed /\ [Next]_vars => Timed' /\ Down
  <2> SUFFICES ASSUME TypeOK, Timed, [Next]_vars PROVE Timed' /\ Down
    OBVIOUS
  <2> timeout \in Int /\ loading \in BOOLEAN /\ running \in BOOLEAN
    BY LoginAssumption DEF TypeOK
  <2>1. ASSUME NEW u \in Users, NEW good, ClickLogin(u, good) PROVE Timed' /\ Down
    BY <2>1 DEF ClickLogin
  <2>2. CASE Tick
    <3>1. CASE timeout > 0
      BY <2>2, <3>1 DEF Tick
    <3>2. CASE ~(timeout > 0)
      BY <2>2, <3>2 DEF Tick
    <3> QED
      BY <3>1, <3>2
  <2>3. CASE UNCHANGED <<loading, running, timeout>>
    BY <2>3
  <2>4. ASSUME NEW i \in DOMAIN logins,
               Handle(i) \/ RefuseLogin(i) \/ LoginLost(i) \/ \E w \in Workers : Login(i, w)
        PROVE  UNCHANGED <<loading, running, timeout>>
    BY <2>4 DEF Handle, HandleLoginAccepted, HandleLoginRefused, RefuseLogin, LoginLost,
                Login, screenVars
  <2>5. ASSUME \E w \in Workers : RestartWorker(w)
                                    \/ \E u \in Users, t \in DOMAIN logins : Logout(u, t, w)
        PROVE  UNCHANGED <<loading, running, timeout>>
    BY <2>5 DEF RestartWorker, Logout, screenVars
  <2>6. ASSUME NEW command, AskList(command) PROVE UNCHANGED <<loading, running, timeout>>
    BY <2>6 DEF AskList, screenVars
  <2>7. ASSUME NEW k \in DOMAIN lists,
               HandleList(k) \/ ListLost(k) \/ \E w \in Workers : Files(k, w)
        PROVE  UNCHANGED <<loading, running, timeout>>
    BY <2>7 DEF HandleList, ListLost, Files, screenVars
  <2>8. CASE UNCHANGED vars
    BY <2>8, <2>3 DEF vars, screenVars
  <2> QED
    BY <2>1, <2>2, <2>3, <2>4, <2>5, <2>6, <2>7, <2>8 DEF Next
<1>3. Spec => []TypeOK
  BY LoginTypes
<1>4. Spec => []Timed
  BY <1>1, <1>2, <1>3, PTL DEF Spec
<1>5. TypeOK /\ Timed /\ [Next]_vars => [Down]_vars
  BY <1>2
<1>6. Spec => [][Down]_vars
  BY <1>3, <1>4, <1>5, PTL DEF Spec
<1> QED
  BY <1>4, <1>6, PTL DEF SpinnerIsTimed
====
