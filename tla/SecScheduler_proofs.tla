---- MODULE SecScheduler_proofs ----
(***************************************************************************)
(* Proofs about the client's task map and scheduler, for any number of     *)
(* application threads, any number of streams and any limit.               *)
(***************************************************************************)
EXTENDS SecScheduler, FiniteSetTheorems, SequenceTheorems, TLAPS

Threads == {"none", "upload", "download", "ended"}

\* TypeOK with a weaker bound on task_count, which follows from the counting.
Types ==
    /\ stream_id \in Nat
    /\ Tasks = 1..stream_id /\ DOMAIN owner = Tasks /\ DOMAIN threads = Tasks
    /\ \A id \in Tasks : task_status[id] \in Statuses
    /\ \A id \in Tasks : owner[id] \in Callers
    /\ \A id \in Tasks : threads[id] \in Threads
    /\ max_task_num \in Nat \ {0} /\ task_count \in Nat
    /\ spc \in {"test", "lock", "scan"} \cup Starting /\ iter \in 0..stream_id + 1
    /\ calls \in 0..MaxCalls
    /\ res \in [Callers -> Nat] /\ \A a \in Callers : res[a] \in {0} \cup Tasks
    /\ ids \in [Callers -> SUBSET Nat] /\ \A a \in Callers : ids[a] \subseteq Tasks
    /\ withdrawn \subseteq Tasks

\* A status that asks for a thread means there was none yet.
Unstarted == \A id \in Tasks : task_status[id] \in Starting => threads[id] = "none"

\* Where the walk has been, nothing asks to be started any more; the task the
\* scheduler is about to start has no thread and was not withdrawn.
Walked ==
    /\ spc \in {"scan"} \cup Starting => iter > 0
    /\ spc \in {"scan"} \cup Starting =>
         \A i \in Tasks : i < iter => task_status[i] \notin Starting
    /\ spc \in Starting => iter \in Tasks /\ threads[iter] = "none" /\ iter \notin withdrawn

Withdrawn == \A id \in withdrawn : threads[id] = "none" /\ task_status[id] \notin Starting

\* The id a caller is about to get is that of its own stream.
Owned ==
    /\ IdsNameOwnStreams
    /\ \A a \in Callers : res[a] # 0 => owner[res[a]] = a

Inv == Types /\ Unstarted /\ Walked /\ Withdrawn /\ StartsInOrder /\ Owned

-----------------------------------------------------------------------------
\* get_stream_id: the ids in the map are 1 to stream_id, so the next one is free.
LEMMA NewIdIsNext ==
    ASSUME Types
    PROVE  NewId = stream_id + 1
<1> DEFINE P(i) == /\ i \notin Tasks
                   /\ \A j \in stream_id + 1 .. i - 1 : j \in Tasks
           R == stream_id + 1 .. stream_id + Cardinality(Tasks) + 1
<1>1. stream_id \in Nat /\ Tasks = 1..stream_id /\ Cardinality(Tasks) \in Nat
  BY FS_Interval, FS_CardinalityType DEF Types
<1>2. stream_id + 1 \in R /\ P(stream_id + 1)
  BY <1>1
<1>3. ASSUME NEW i \in R, P(i)
      PROVE  i = stream_id + 1
  <2>1. CASE i > stream_id + 1
    <3>1. stream_id + 1 \in stream_id + 1 .. i - 1
      BY <1>1, <2>1
    <3> QED  BY <1>1, <1>3, <3>1
  <2> QED  BY <1>1, <1>3, <2>1
<1>4. NewId = CHOOSE i \in R : P(i)
  BY DEF NewId
<1> HIDE DEF P, R
<1> QED  BY <1>2, <1>3, <1>4

LEMMA InitInv == Init => Inv
<1> SUFFICES ASSUME Init PROVE Inv
  OBVIOUS
<1>1. Tasks = {} /\ DOMAIN owner = {} /\ DOMAIN threads = {} /\ stream_id = 0
  BY DEF Init, Tasks
<1>2. Types
  <2>1. res \in [Callers -> Nat] /\ \A a \in Callers : res[a] = 0
    BY DEF Init
  <2>2. ids \in [Callers -> SUBSET Nat] /\ \A a \in Callers : ids[a] = {}
    BY DEF Init
  <2>3. 1..stream_id = {}
    BY <1>1
  <2> QED  BY <1>1, <2>1, <2>2, <2>3, SchedulerAssumption DEF Init, Types
<1>3. Unstarted /\ Walked /\ Withdrawn /\ StartsInOrder
  BY <1>1 DEF Init, Unstarted, Walked, Withdrawn, StartsInOrder, Starting
<1>4. Owned
  BY DEF Init, Owned, IdsNameOwnStreams
<1> QED  BY <1>2, <1>3, <1>4 DEF Inv

-----------------------------------------------------------------------------
\* What add_task does with the maps.
LEMMA AddTaskFacts ==
    ASSUME Types, NEW a \in Callers, AddTask(a)
    PROVE  /\ stream_id' = stream_id + 1
           /\ Tasks' = Tasks \cup {stream_id + 1} /\ stream_id + 1 \notin Tasks
           /\ DOMAIN owner' = Tasks' /\ DOMAIN threads' = Tasks'
           /\ \A id \in Tasks : /\ task_status'[id] = task_status[id]
                                /\ owner'[id] = owner[id]
                                /\ threads'[id] = threads[id]
           /\ task_status'[stream_id + 1] \in Statuses
           /\ owner'[stream_id + 1] = a
           /\ threads'[stream_id + 1] = "none"
           /\ res' = [res EXCEPT ![a] = stream_id + 1]
<1> DEFINE n == stream_id + 1
<1>1. NewId = n /\ n \notin Tasks
  BY NewIdIsNext DEF Types
<1>2. \A kind \in Kinds : FirstStatus(kind) \subseteq Statuses
  BY DEF FirstStatus, Statuses, Starting
<1>3. PICK v \in Statuses : task_status' = Extended(task_status, n, v)
  BY <1>1, <1>2 DEF AddTask
<1>4. owner' = Extended(owner, n, a) /\ threads' = Extended(threads, n, "none")
  BY <1>1 DEF AddTask
<1>5. stream_id' = n /\ res' = [res EXCEPT ![a] = n]
  BY <1>1 DEF AddTask
<1>6. DOMAIN task_status = Tasks /\ DOMAIN owner = Tasks /\ DOMAIN threads = Tasks
  BY DEF Types, Tasks
<1> HIDE DEF n
<1>7. ASSUME NEW f, DOMAIN f = Tasks, NEW w, NEW g, g = Extended(f, n, w)
      PROVE  /\ DOMAIN g = Tasks \cup {n} /\ g[n] = w
             /\ \A id \in Tasks : g[id] = f[id]
  BY <1>1, <1>7 DEF Extended
<1>8. /\ DOMAIN task_status' = Tasks \cup {n} /\ task_status'[n] = v
      /\ \A id \in Tasks : task_status'[id] = task_status[id]
  BY <1>3, <1>6, <1>7
<1>9. /\ DOMAIN owner' = Tasks \cup {n} /\ owner'[n] = a
      /\ \A id \in Tasks : owner'[id] = owner[id]
  BY <1>4, <1>6, <1>7
<1>10. /\ DOMAIN threads' = Tasks \cup {n} /\ threads'[n] = "none"
       /\ \A id \in Tasks : threads'[id] = threads[id]
  BY <1>4, <1>6, <1>7
<1>11. Tasks' = Tasks \cup {n}
  BY <1>8 DEF Tasks
<1> QED  BY <1>1, <1>3, <1>5, <1>8, <1>9, <1>10, <1>11 DEF n

LEMMA AddTaskInv ==
    ASSUME Inv, NEW a \in Callers, AddTask(a)
    PROVE  Inv'
<1> DEFINE n == stream_id + 1
<1>1. /\ stream_id' = n
      /\ Tasks' = Tasks \cup {n} /\ n \notin Tasks
      /\ DOMAIN owner' = Tasks' /\ DOMAIN threads' = Tasks'
      /\ \A id \in Tasks : /\ task_status'[id] = task_status[id]
                           /\ owner'[id] = owner[id]
                           /\ threads'[id] = threads[id]
      /\ task_status'[n] \in Statuses /\ owner'[n] = a /\ threads'[n] = "none"
      /\ res' = [res EXCEPT ![a] = n]
  BY AddTaskFacts DEF Inv
<1>2. /\ UNCHANGED <<max_task_num, task_count, spc, iter, ids, withdrawn>>
      /\ spc \in {"test", "lock"} /\ calls' = calls + 1 /\ calls < MaxCalls
  BY DEF AddTask, MutexFree, limitVars
<1>3. Types /\ Unstarted /\ Withdrawn /\ StartsInOrder /\ Owned
  BY DEF Inv
<1>4. stream_id \in Nat /\ n \in Nat /\ Tasks = 1..stream_id /\ Tasks' = 1..n
  BY <1>1, <1>3 DEF Types
<1> HIDE DEF n
<1>5. Types'
  <2>1. \A id \in Tasks' : /\ task_status'[id] \in Statuses /\ owner'[id] \in Callers
                           /\ threads'[id] \in Threads
    BY <1>1, <1>3 DEF Types, Threads
  <2>2. res' \in [Callers -> Nat] /\ \A b \in Callers : res'[b] \in {0} \cup Tasks'
    BY <1>1, <1>3, <1>4 DEF Types
  <2>3. ids' \in [Callers -> SUBSET Nat] /\ \A b \in Callers : ids'[b] \subseteq Tasks'
    BY <1>1, <1>2, <1>3 DEF Types
  <2>4. calls' \in 0..MaxCalls /\ iter' \in 0..n + 1 /\ withdrawn' \subseteq Tasks'
    <3>1. iter \in 0..n
      BY <1>3 DEF Types, n
    <3> QED  BY <1>1, <1>2, <1>3, <1>4, <3>1, SchedulerAssumption DEF Types
  <2> QED  BY <1>1, <1>2, <1>3, <1>4, <2>1, <2>2, <2>3, <2>4 DEF Types
<1>6. Unstarted' /\ Walked' /\ Withdrawn'
  BY <1>1, <1>2, <1>3 DEF Types, Unstarted, Walked, Withdrawn, Starting
<1>7. StartsInOrder'
  <2> SUFFICES ASSUME NEW i \in Tasks', NEW j \in Tasks', i < j, threads'[j] # "none"
               PROVE  task_status'[i] \notin Starting
    BY DEF StartsInOrder
  <2>1. j \in Tasks /\ i \in Tasks
    BY <1>1, <1>4 DEF n
  <2> QED  BY <1>1, <1>3, <2>1 DEF StartsInOrder
<1>8. Owned'
  BY <1>1, <1>2, <1>3, <1>4 DEF Owned, IdsNameOwnStreams, Types
<1> QED  BY <1>5, <1>6, <1>7, <1>8 DEF Inv

-----------------------------------------------------------------------------
(***************************************************************************)
(* The other steps leave the set of tasks as it is.                        *)
(***************************************************************************)
\* Steps of the application and of the scheduler that write no status.
LEMMA QuietInv ==
    ASSUME Inv,
           UNCHANGED <<stream_id, task_status, owner, task_count, threads, withdrawn>>,
           max_task_num' \in Nat \ {0}, calls' \in 0..MaxCalls,
           spc' \in {"test", "lock", "scan"} \cup Starting, iter' \in 0..stream_id + 1,
           Walked', Owned',
           res' \in [Callers -> Nat], \A a \in Callers : res'[a] \in {0} \cup Tasks,
           ids' \in [Callers -> SUBSET Nat], \A a \in Callers : ids'[a] \subseteq Tasks
    PROVE  Inv'
<1>1. Types'
  BY DEF Inv, Types, Tasks
<1>2. Unstarted' /\ Withdrawn' /\ StartsInOrder'
  BY DEF Inv, Unstarted, Withdrawn, StartsInOrder, Tasks
<1> QED  BY <1>1, <1>2 DEF Inv

LEMMA ReturnIdInv ==
    ASSUME Inv, NEW a \in Callers, ReturnId(a)
    PROVE  Inv'
<1>1. /\ UNCHANGED <<stream_id, task_status, owner, task_count, max_task_num, threads, withdrawn,
                     spc, iter, calls>>
      /\ res[a] # 0
      /\ ids' = [ids EXCEPT ![a] = @ \cup {res[a]}]
      /\ res' = [res EXCEPT ![a] = 0]
  BY DEF ReturnId, taskVars, limitVars
<1>2. Types /\ Walked /\ Owned
  BY DEF Inv
<1>3. /\ res' \in [Callers -> Nat] /\ \A b \in Callers : res'[b] \in {0} \cup Tasks
      /\ ids' \in [Callers -> SUBSET Nat] /\ \A b \in Callers : ids'[b] \subseteq Tasks
  BY <1>1, <1>2 DEF Types
<1>4. Owned'
  BY <1>1, <1>2 DEF Owned, IdsNameOwnStreams, Types
<1>5. Walked'
  BY <1>1, <1>2 DEF Walked, Tasks
<1> QED  BY <1>1, <1>2, <1>3, <1>4, <1>5, QuietInv DEF Types

LEMMA IdleStepInv ==
    ASSUME Inv, TestCount \/ LockMap \/ SkipTask \/ SeeTask \/ UnlockMap
                \/ (\E n \in TaskNums : SetTaskNum(n)) \/ (\E a \in Callers : RefuseStream(a))
    PROVE  Inv'
<1>1. /\ UNCHANGED <<stream_id, task_status, owner, task_count, threads, withdrawn, res, ids>>
      /\ max_task_num' \in Nat \ {0} /\ calls' \in 0..MaxCalls
  <2>1. UNCHANGED <<stream_id, task_status, owner, task_count, threads, withdrawn, res, ids>>
    BY DEF TestCount, LockMap, SkipTask, SeeTask, UnlockMap, SetTaskNum, RefuseStream,
           taskVars, limitVars, callerVars
  <2>2. max_task_num' \in Nat \ {0}
    <3>1. ASSUME NEW n \in TaskNums, SetTaskNum(n) PROVE max_task_num' \in Nat \ {0}
      BY <3>1, SchedulerAssumption DEF SetTaskNum
    <3>2. CASE max_task_num' = max_task_num
      BY <3>2 DEF Inv, Types
    <3> QED  BY <3>1, <3>2
             DEF TestCount, LockMap, SkipTask, SeeTask, UnlockMap, RefuseStream, limitVars
  <2>3. calls' = calls \/ (calls' = calls + 1 /\ calls < MaxCalls)
    BY DEF TestCount, LockMap, SkipTask, SeeTask, UnlockMap, SetTaskNum, RefuseStream, callerVars
  <2> QED  BY <2>1, <2>2, <2>3, SchedulerAssumption DEF Inv, Types
<1>2. Types /\ Walked /\ Owned /\ Withdrawn /\ Unstarted
  BY DEF Inv
<1>3. /\ spc' \in {"test", "lock", "scan"} \cup Starting
      /\ iter' \in 0..stream_id + 1
      /\ Walked'
  <2> USE <1>1, <1>2 DEF Types, Walked, Withdrawn, Unstarted, Tasks, Starting
  <2>1. CASE TestCount \/ UnlockMap
    BY <2>1 DEF TestCount, UnlockMap
  <2>2. CASE LockMap
    BY <2>2 DEF LockMap
  <2>3. CASE SkipTask
    BY <2>3 DEF SkipTask
  <2>4. CASE SeeTask
    BY <2>4 DEF SeeTask
  <2>5. CASE (\E n \in TaskNums : SetTaskNum(n)) \/ (\E a \in Callers : RefuseStream(a))
    BY <2>5 DEF SetTaskNum, RefuseStream
  <2> QED  BY <2>1, <2>2, <2>3, <2>4, <2>5
<1>4. Owned'
  BY <1>1, <1>2 DEF Owned, IdsNameOwnStreams
<1> QED  BY <1>1, <1>2, <1>3, <1>4, QuietInv DEF Types

\* Steps that write the status of one task.
LEMMA StatusInv ==
    ASSUME Inv, NEW id \in Tasks, NEW v \in Statuses \ Starting,
           task_status' = [task_status EXCEPT ![id] = v],
           UNCHANGED <<stream_id, owner, max_task_num, calls, res, ids>>,
           task_count' \in Nat,
           spc' \in {"test", "lock", "scan"} \cup Starting, iter' \in 0..stream_id + 1,
           DOMAIN threads' = Tasks, \A t \in Tasks : threads'[t] \in Threads,
           \A t \in Tasks \ {id} : threads'[t] = threads[t],
           withdrawn' \subseteq Tasks,
           \A t \in withdrawn' : threads'[t] = "none",
           \A t \in withdrawn' : t \in withdrawn \cup {id},
           threads[id] = "none" /\ threads'[id] # "none" =>
             \A i \in Tasks : i < id => task_status[i] \notin Starting,
           Walked'
    PROVE  Inv'
<1>1. Types /\ Unstarted /\ Withdrawn /\ StartsInOrder /\ Owned
  BY DEF Inv
<1>2. /\ Tasks' = Tasks /\ task_status'[id] = v
      /\ \A t \in Tasks \ {id} : task_status'[t] = task_status[t]
  BY DEF Tasks
<1>3. Types'
  BY <1>1, <1>2 DEF Types
<1>4. Unstarted'
  BY <1>1, <1>2 DEF Unstarted
<1>5. Withdrawn'
  BY <1>1, <1>2, <1>3 DEF Withdrawn, Types
<1>6. StartsInOrder'
  BY <1>1, <1>2 DEF StartsInOrder
<1>7. Owned'
  BY <1>1, <1>2 DEF Owned, IdsNameOwnStreams
<1> QED  BY <1>3, <1>4, <1>5, <1>6, <1>7 DEF Inv

LEMMA StopTaskInv ==
    ASSUME Inv, NEW a \in Callers, NEW id \in ids[a], StopTask(a, id)
    PROVE  Inv'
<1>1. id \in Tasks /\ Types /\ Walked /\ Withdrawn /\ Unstarted
  BY DEF Inv, Types
<1>2. /\ task_status' = [task_status EXCEPT ![id] = "UPLOAD_CANCELED"]
      /\ UNCHANGED <<stream_id, owner, max_task_num, task_count, spc, iter, threads, calls, res, ids>>
      /\ \/ withdrawn' = withdrawn
         \/ /\ task_status[id] \in Starting /\ ~(spc \in Starting /\ iter = id)
            /\ withdrawn' = withdrawn \cup {id}
  BY DEF StopTask, SetStatus, limitVars, callerVars
<1>3. "UPLOAD_CANCELED" \in Statuses \ Starting
  BY DEF Statuses, Starting
<1>4. Walked'
  BY <1>1, <1>2, <1>3 DEF Walked, Tasks
<1>5. /\ withdrawn' \subseteq Tasks
      /\ \A t \in withdrawn' : threads'[t] = "none" /\ t \in withdrawn \cup {id}
  BY <1>1, <1>2 DEF Types, Withdrawn, Unstarted
<1> QED  BY <1>1, <1>2, <1>3, <1>4, <1>5, StatusInv DEF Types

LEMMA StartTaskInv ==
    ASSUME Inv, StartTask
    PROVE  Inv'
<1> DEFINE v == IF spc = "START_UPLOAD" THEN "UPLOADING" ELSE "DOWNLOADING"
           w == IF spc = "START_UPLOAD" THEN "upload" ELSE "download"
<1>1. /\ Types /\ Withdrawn /\ Unstarted
      /\ spc \in Starting /\ iter \in Tasks /\ threads[iter] = "none" /\ iter \notin withdrawn
      /\ \A i \in Tasks : i < iter => task_status[i] \notin Starting
  BY DEF Inv, Walked, StartTask
<1>2. /\ task_status' = [task_status EXCEPT ![iter] = v]
      /\ threads' = [threads EXCEPT ![iter] = w]
      /\ UNCHANGED <<stream_id, owner, max_task_num, calls, res, ids, withdrawn>>
      /\ task_count' = task_count + 1 /\ spc' = "scan" /\ iter' = iter + 1
  BY DEF StartTask, SetStatus, callerVars
<1>3. v \in Statuses \ Starting /\ w \in Threads
  BY DEF Statuses, Starting, Threads
<1> HIDE DEF v, w
<1>4. /\ DOMAIN threads' = Tasks /\ threads'[iter] \in Threads
      /\ \A t \in Tasks \ {iter} : threads'[t] = threads[t]
  BY <1>1, <1>2, <1>3 DEF Types
<1>5. iter \in Nat /\ iter' \in 0..stream_id + 1 /\ task_count' \in Nat
  BY <1>1, <1>2 DEF Types
<1>6. Walked'
  <2>1. /\ Tasks' = Tasks /\ task_status'[iter] = v
        /\ \A t \in Tasks \ {iter} : task_status'[t] = task_status[t]
    BY <1>1, <1>2 DEF Tasks
  <2>2. ASSUME NEW i \in Tasks, i < iter' PROVE task_status'[i] \notin Starting
    <3>1. i = iter \/ i < iter
      BY <1>1, <1>2, <1>5, <2>2 DEF Types
    <3> QED  BY <1>1, <1>3, <2>1, <3>1
  <2> QED  BY <1>2, <1>5, <2>1, <2>2 DEF Walked, Starting
<1>7. \A t \in withdrawn' : threads'[t] = "none"
  BY <1>1, <1>2, <1>4 DEF Withdrawn, Types
<1>8. (\A t \in Tasks : threads'[t] \in Threads) /\ withdrawn' \subseteq Tasks
  BY <1>1, <1>2, <1>4 DEF Types
<1> QED  BY <1>1, <1>2, <1>3, <1>4, <1>5, <1>6, <1>7, <1>8, StatusInv

LEMMA ThreadInv ==
    ASSUME Inv, NEW id \in Tasks, Thread(id)
    PROVE  Inv'
<1>1. Types /\ Walked /\ Withdrawn /\ Unstarted
  BY DEF Inv
<1>2. /\ threads[id] \in {"upload", "download"}
      /\ UNCHANGED <<stream_id, owner, max_task_num, task_count, spc, iter, calls, res, ids, withdrawn>>
      /\ \/ threads' = threads
         \/ threads' = [threads EXCEPT ![id] = "ended"]
  BY DEF Thread, MarkTask, EndTask, limitVars, callerVars
<1>3. PICK v \in Statuses \ Starting : task_status' = [task_status EXCEPT ![id] = v]
  <2>1. task_status[id] \in Statuses \ Starting
    BY <1>1, <1>2 DEF Types, Unstarted
  <2>2. CASE MarkTask(id)
    BY <2>2 DEF MarkTask, SetStatus, Statuses, Starting
  <2>3. CASE EndTask(id)
    <3>1. PICK v \in LastStatus(threads[id]) \cup {task_status[id]} :
            task_status' = [task_status EXCEPT ![id] = v]
      BY <2>3 DEF EndTask, SetStatus
    <3>2. v \in Statuses \ Starting
      BY <2>1, <3>1 DEF LastStatus, Statuses, Starting
    <3> QED  BY <3>1, <3>2
  <2> QED  BY <2>2, <2>3 DEF Thread
<1>4. /\ DOMAIN threads' = Tasks /\ \A t \in Tasks : threads'[t] \in Threads
      /\ \A t \in Tasks \ {id} : threads'[t] = threads[t]
  BY <1>1, <1>2 DEF Types, Threads
<1>5. id \notin withdrawn /\ ~(spc \in Starting /\ iter = id)
  BY <1>1, <1>2 DEF Withdrawn, Walked
<1>6. /\ Tasks' = Tasks /\ task_status'[id] \notin Starting
      /\ \A t \in Tasks \ {id} : task_status'[t] = task_status[t]
  BY <1>3 DEF Tasks
<1>7. Walked'
  BY <1>1, <1>2, <1>4, <1>5, <1>6 DEF Walked
<1>8. /\ withdrawn' \subseteq Tasks
      /\ \A t \in withdrawn' : threads'[t] = "none" /\ t \in withdrawn \cup {id}
  BY <1>1, <1>2, <1>4, <1>5 DEF Withdrawn, Types
<1> QED  BY <1>1, <1>2, <1>3, <1>4, <1>7, <1>8, StatusInv DEF Types

LEMMA StutterInv ==
    ASSUME Inv, UNCHANGED vars
    PROVE  Inv'
BY DEF Inv, Types, Unstarted, Walked, Withdrawn, StartsInOrder, Owned, IdsNameOwnStreams, Tasks,
       vars, taskVars, limitVars, callerVars

LEMMA StepInv ==
    ASSUME Inv, [Next]_vars
    PROVE  Inv'
<1>1. ASSUME NEW a \in Callers, Caller(a)
      PROVE  Inv'
  BY <1>1, AddTaskInv, ReturnIdInv, IdleStepInv, StopTaskInv DEF Caller
<1> QED  BY <1>1, IdleStepInv, StartTaskInv, ThreadInv, StutterInv DEF Next, Scheduler

-----------------------------------------------------------------------------
(***************************************************************************)
(* task_count.                                                             *)
(***************************************************************************)
Started == {id \in Tasks : threads[id] # "none"}

Counted == IsFiniteSet(Started) /\ task_count = Cardinality(Started)

LEMMA CountStep ==
    ASSUME Inv, Counted, [Next]_vars
    PROVE  Counted'
<1> USE DEF Counted
<1>1. CASE StartTask
  <2>1. /\ iter \in Tasks /\ threads[iter] = "none" /\ DOMAIN threads = Tasks
        /\ Tasks' = Tasks /\ task_count' = task_count + 1
        /\ threads'[iter] \in {"upload", "download"}
        /\ \A t \in Tasks \ {iter} : threads'[t] = threads[t]
    BY <1>1 DEF Inv, Types, Walked, StartTask, SetStatus, Tasks
  <2>2. Started' = Started \cup {iter} /\ iter \notin Started
    BY <2>1 DEF Started
  <2> QED  BY <2>1, <2>2, FS_AddElement
<1>2. CASE \E a \in Callers : AddTask(a)
  <2>1. PICK a \in Callers : AddTask(a)
    BY <1>2
  <2>2. Started' = Started
    BY <2>1, AddTaskFacts DEF Inv, Started
  <2>3. task_count' = task_count
    BY <2>1 DEF AddTask, limitVars
  <2> QED  BY <2>2, <2>3
<1>3. ASSUME NEW id \in Tasks, Thread(id)
      PROVE  Counted'
  <2>1. /\ threads[id] # "none" /\ threads'[id] # "none" /\ Tasks' = Tasks
        /\ \A t \in Tasks \ {id} : threads'[t] = threads[t]
        /\ task_count' = task_count
    BY <1>3 DEF Inv, Types, Thread, MarkTask, EndTask, SetStatus, Tasks, limitVars
  <2>2. Started' = Started
    BY <2>1 DEF Started
  <2> QED  BY <2>1, <2>2
<1>4. CASE ~StartTask /\ ~(\E a \in Callers : AddTask(a)) /\ ~(\E id \in Tasks : Thread(id))
  <2>1. Tasks' = Tasks /\ threads' = threads /\ task_count' = task_count
    BY <1>4 DEF Next, vars, Scheduler, TestCount, LockMap, SkipTask, SeeTask, UnlockMap, Caller,
         ReturnId, RefuseStream, StopTask, SetStatus, SetTaskNum, Tasks, taskVars, limitVars
  <2> QED  BY <2>1 DEF Started
<1> QED  BY <1>1, <1>2, <1>3, <1>4

LEMMA InvImpliesTypeOK ==
    ASSUME Inv, Counted
    PROVE  TypeOK
<1>1. Types /\ stream_id \in Nat /\ Tasks = 1..stream_id
  BY DEF Inv, Types
<1>2. task_count \in 0..stream_id
  <2>1. IsFiniteSet(1..stream_id) /\ Cardinality(1..stream_id) = stream_id
    BY <1>1, FS_Interval
  <2>2. Started \in SUBSET (1..stream_id)
    BY <1>1 DEF Started
  <2>3. Cardinality(Started) <= stream_id
    BY <2>1, <2>2, FS_Subset
  <2> QED  BY <1>1, <2>3 DEF Counted, Types
<1> QED  BY <1>1, <1>2 DEF Types, TypeOK, Threads

LEMMA InvariantHolds == Spec => [](Inv /\ Counted)
<1>1. Init => Inv /\ Counted
  <2>1. Init => Started = {} /\ task_count = 0
    BY DEF Init, Started, Tasks
  <2> QED  BY <2>1, InitInv, FS_EmptySet DEF Counted
<1>2. Inv /\ Counted /\ [Next]_vars => (Inv /\ Counted)'
  BY StepInv, CountStep
<1> QED  BY <1>1, <1>2, PTL DEF Spec

-----------------------------------------------------------------------------
\* The map keeps its types: ids are consecutive, every task has an owner and a
\* thread state, and no more threads are counted than there are tasks.
THEOREM SchedulerTypes == Spec => []TypeOK
<1>1. Inv /\ Counted => TypeOK
  BY InvImpliesTypeOK
<1> QED  BY <1>1, InvariantHolds, PTL

\* The id a caller gets from secft_start_stream is that of its own stream,
\* however the calls of other threads interleave with the return.
THEOREM IdsAreOwn == Spec => []IdsNameOwnStreams
<1>1. Inv /\ Counted => IdsNameOwnStreams
  BY DEF Inv, Owned
<1> QED  BY <1>1, InvariantHolds, PTL

\* Every thread is counted once: no task is started twice, although cancels and
\* threads write the statuses the scheduler decides by.
THEOREM ThreadsAreCounted == Spec => []EveryThreadIsCounted
<1>1. Inv /\ Counted => EveryThreadIsCounted
  BY DEF Counted, Started, EveryThreadIsCounted
<1> QED  BY <1>1, InvariantHolds, PTL

\* A waiting stream is never overtaken by a later one.
THEOREM StreamsStartInOrder == Spec => []StartsInOrder
<1>1. Inv /\ Counted => StartsInOrder
  BY DEF Inv
<1> QED  BY <1>1, InvariantHolds, PTL

\* A stream cancelled before the scheduler looked at it never gets a thread.
THEOREM WithdrawnStaysOut == Spec => []WithdrawnNeverStarts
<1>1. Inv /\ Counted => WithdrawnNeverStarts
  BY DEF Inv, Withdrawn, WithdrawnNeverStarts
<1> QED  BY <1>1, InvariantHolds, PTL

-----------------------------------------------------------------------------
(***************************************************************************)
(* The refinement of TaskPool.                                             *)
(***************************************************************************)
\* An id add_task is about to return is known to nobody and to be returned
\* to nobody else.
Unlearnt ==
    \A a \in Callers : res[a] # 0 =>
        /\ \A b \in Callers : res[a] \notin ids[b]
        /\ \A b \in Callers \ {a} : res[b] # res[a]

LEMMA UnlearntStep ==
    ASSUME Inv, Unlearnt, [Next]_vars
    PROVE  Unlearnt'
<1>1. Types /\ stream_id \in Nat /\ Tasks = 1..stream_id
  BY DEF Inv, Types
<1>2. ASSUME NEW a \in Callers, AddTask(a) PROVE Unlearnt'
  <2>1. res' = [res EXCEPT ![a] = stream_id + 1] /\ ids' = ids
    BY <1>1, <1>2, AddTaskFacts DEF AddTask
  <2>2. \A b \in Callers : res[b] \in {0} \cup Tasks /\ ids[b] \subseteq Tasks
    BY <1>1 DEF Types
  <2>3. stream_id + 1 \notin Tasks /\ stream_id + 1 # 0
    BY <1>1
  <2> QED  BY <1>1, <2>1, <2>2, <2>3 DEF Unlearnt, Types
<1>3. ASSUME NEW a \in Callers, ReturnId(a) PROVE Unlearnt'
  <2>1. /\ res' = [res EXCEPT ![a] = 0] /\ res[a] # 0
        /\ ids' = [ids EXCEPT ![a] = @ \cup {res[a]}]
    BY <1>3 DEF ReturnId
  <2> QED  BY <1>1, <2>1 DEF Unlearnt, Types
<1>4. CASE UNCHANGED <<res, ids>>
  BY <1>4 DEF Unlearnt
<1>5. \/ \E a \in Callers : AddTask(a) \/ ReturnId(a)
      \/ UNCHANGED <<res, ids>>
  BY DEF Next, vars, Scheduler, TestCount, LockMap, SkipTask, SeeTask, StartTask, UnlockMap, Caller,
         RefuseStream, StopTask, SetTaskNum, Thread, MarkTask, EndTask, callerVars
<1> QED  BY <1>2, <1>3, <1>4, <1>5

\* The owners are a function on the ids, not only defined at each.
Owners == owner \in [Tasks -> Callers]

LEMMA OwnersStep ==
    ASSUME Inv, Owners, [Next]_vars
    PROVE  Owners'
<1>1. ASSUME NEW a \in Callers, AddTask(a) PROVE Owners'
  <2>1. /\ DOMAIN owner' = Tasks' /\ Tasks' = Tasks \cup {stream_id + 1}
        /\ \A id \in Tasks : owner'[id] = owner[id]
        /\ owner'[stream_id + 1] = a
    BY <1>1, AddTaskFacts DEF Inv
  <2>2. owner' = [i \in DOMAIN owner' |-> owner'[i]]
    BY <1>1 DEF AddTask, Extended
  <2> QED  BY <2>1, <2>2 DEF Owners
<1>2. CASE owner' = owner /\ Tasks' = Tasks
  BY <1>2 DEF Owners
<1>3. \/ \E a \in Callers : AddTask(a)
      \/ owner' = owner /\ Tasks' = Tasks
  BY DEF Next, vars, Scheduler, TestCount, LockMap, SkipTask, SeeTask, StartTask, UnlockMap, Caller,
         ReturnId, RefuseStream, StopTask, SetTaskNum, Thread, MarkTask, EndTask, SetStatus,
         Tasks, taskVars
<1> QED  BY <1>1, <1>2, <1>3

StageValues == {"waiting", "idle", "running", "ended"}

\* The stages are a sequence, as long as there are ids.
LEMMA StagesFacts ==
    ASSUME Types
    PROVE  /\ Stages \in Seq(StageValues) /\ Len(Stages) = stream_id
           /\ DOMAIN Stages = Tasks
           /\ \A id \in Tasks : Stages[id] = Stage(id)
<1>1. stream_id \in Nat /\ Tasks = 1..stream_id
  BY DEF Types
<1>2. \A id \in Tasks : Stage(id) \in StageValues
  BY DEF Stage, StageValues
<1>3. Stages \in [1..stream_id -> StageValues]
  BY <1>1, <1>2 DEF Stages
<1> QED  BY <1>1, <1>3 DEF Stages

\* The same after a step.
LEMMA StagesFactsNext ==
    (Types => /\ Stages \in Seq(StageValues) /\ Len(Stages) = stream_id
              /\ DOMAIN Stages = Tasks
              /\ \A id \in Tasks : Stages[id] = Stage(id))'
<1>1. Types => /\ Stages \in Seq(StageValues) /\ Len(Stages) = stream_id
               /\ DOMAIN Stages = Tasks
               /\ \A id \in Tasks : Stages[id] = Stage(id)
  BY StagesFacts
<1> QED  BY <1>1, PTL

\* No stage changes when none of its parts does.
LEMMA SameStages ==
    ASSUME Tasks' = Tasks, \A id \in Tasks : Stage(id)' = Stage(id)
    PROVE  Stages' = Stages
BY DEF Stages

\* One stage changes.
LEMMA OneStage ==
    ASSUME NEW id \in Tasks, NEW v, Tasks' = Tasks, Stage(id)' = v,
           \A t \in Tasks \ {id} : Stage(t)' = Stage(t)
    PROVE  Stages' = [Stages EXCEPT ![id] = v]
BY DEF Stages

LEMMA AddTaskIsSubmit ==
    ASSUME Inv, Owners, NEW a \in Callers, AddTask(a)
    PROVE  Pool!Submit(a)
<1>0. PICK n : n = stream_id + 1
  OBVIOUS
<1>1. /\ stream_id' = n
      /\ Tasks' = Tasks \cup {n} /\ n \notin Tasks
      /\ DOMAIN owner' = Tasks'
      /\ \A id \in Tasks : /\ task_status'[id] = task_status[id]
                           /\ owner'[id] = owner[id]
                           /\ threads'[id] = threads[id]
      /\ owner'[n] = a /\ threads'[n] = "none"
  BY <1>0, AddTaskFacts DEF Inv
<1>2. /\ UNCHANGED <<max_task_num, task_count, spc, iter, ids>>
      /\ spc \notin Starting
  BY DEF AddTask, MutexFree, limitVars, Starting
<1>3. Types /\ Types' /\ stream_id \in Nat /\ Tasks = 1..stream_id
  BY AddTaskInv DEF Inv, Types
<1>4. PICK first \in {"waiting", "idle"} : first = Stage(n)'
  BY <1>1 DEF Stage
<1>5. /\ Stages \in Seq(StageValues) /\ Len(Stages) = stream_id
      /\ Stages' \in Seq(StageValues) /\ Len(Stages') = stream_id'
      /\ \A id \in Tasks : Stages[id] = Stage(id)
      /\ \A id \in Tasks' : Stages'[id] = Stage(id)'
  BY <1>3, StagesFacts, StagesFactsNext
<1>6. \A id \in Tasks : Stage(id)' = Stage(id)
  BY <1>1, <1>2 DEF Stage, Wanted
<1>7. Stages' = Append(Stages, first)
  <2> DEFINE t == Append(Stages, first)
  <2>1. first \in StageValues
    BY <1>4 DEF StageValues
  <2>2. /\ t \in Seq(StageValues) /\ Len(t) = stream_id + 1 /\ t[stream_id + 1] = first
        /\ \A i \in 1..stream_id : t[i] = Stages[i]
    BY <1>3, <1>5, <2>1, AppendProperties
  <2> HIDE DEF t
  <2>3. \A i \in 1..Len(t) : i \in 1..stream_id \/ i = n
    BY <1>0, <1>3, <2>2
  <2>4. \A i \in 1..Len(t) : Stages'[i] = t[i]
    BY <1>0, <1>1, <1>3, <1>4, <1>5, <1>6, <2>2, <2>3, SMTT(30)
  <2> QED  BY <1>0, <1>1, <1>5, <2>2, <2>4, SeqEqual DEF t
<1>8. Owners'
  BY OwnersStep DEF Next, Caller
<1>9. owner' = Append(owner, a)
  <2> DEFINE t == Append(owner, a)
  <2>1. owner \in Seq(Callers) /\ Len(owner) = stream_id
    <3>1. owner \in [1..stream_id -> Callers]
      BY <1>3 DEF Owners
    <3> QED  BY <1>3, <3>1
  <2>2. owner' \in Seq(Callers) /\ Len(owner') = n
    <3>1. owner' \in [1..n -> Callers] /\ n \in Nat
      BY <1>0, <1>1, <1>3, <1>8 DEF Owners, Types
    <3> QED  BY <3>1
  <2>3. /\ t \in Seq(Callers) /\ Len(t) = stream_id + 1 /\ t[stream_id + 1] = a
        /\ \A i \in 1..stream_id : t[i] = owner[i]
    BY <1>3, <2>1, AppendProperties
  <2> HIDE DEF t
  <2>4. \A i \in 1..Len(t) : i \in 1..stream_id \/ i = n
    BY <1>0, <1>3, <2>3
  <2>5. \A i \in 1..Len(t) : owner'[i] = t[i]
    BY <1>0, <1>1, <1>3, <2>3, <2>4
  <2> QED  BY <1>0, <2>2, <2>3, <2>5, SeqEqual DEF t
<1> QED  BY <1>2, <1>4, <1>7, <1>9 DEF Pool!Submit

LEMMA ReturnIdIsLearn ==
    ASSUME Inv, Unlearnt, NEW a \in Callers, ReturnId(a)
    PROVE  Pool!Learn(a)
<1>1. /\ Types /\ Owned /\ res[a] # 0
      /\ ids' = [ids EXCEPT ![a] = @ \cup {res[a]}]
      /\ UNCHANGED <<task_status, stream_id, owner, max_task_num, task_count, spc, iter, threads>>
  BY DEF Inv, ReturnId, taskVars, limitVars
<1>2. res[a] \in Tasks /\ owner[res[a]] = a /\ \A b \in Callers : res[a] \notin ids[b]
  BY <1>1 DEF Types, Owned, Unlearnt
<1>3. DOMAIN Stages = Tasks
  BY <1>1, StagesFacts
<1>4. Stages' = Stages
  BY <1>1 DEF Stages, Stage, Wanted, Tasks
<1> QED  BY <1>1, <1>2, <1>3, <1>4 DEF Pool!Learn

LEMMA StopTaskRefines ==
    ASSUME Inv, NEW a \in Callers, NEW id \in ids[a], StopTask(a, id)
    PROVE  Pool!Withdraw(a) \/ UNCHANGED Pool!vars
<1>1. /\ Types /\ id \in Tasks
      /\ task_status' = [task_status EXCEPT ![id] = "UPLOAD_CANCELED"]
      /\ UNCHANGED <<owner, max_task_num, task_count, spc, iter, threads, ids>>
  BY DEF Inv, Types, StopTask, SetStatus, limitVars, callerVars
<1>2. /\ Tasks' = Tasks /\ task_status'[id] = "UPLOAD_CANCELED"
      /\ \A t \in Tasks \ {id} : task_status'[t] = task_status[t]
  BY <1>1 DEF Tasks
<1>3. \A t \in Tasks \ {id} : Stage(t)' = Stage(t)
  BY <1>1, <1>2 DEF Stage, Wanted
<1>4. CASE Stage(id)' = Stage(id)
  BY <1>1, <1>2, <1>3, <1>4, SameStages DEF Pool!vars
<1>5. CASE Stage(id)' # Stage(id)
  <2>1. Stage(id) = "waiting" /\ Stage(id)' = "idle"
    BY <1>1, <1>2, <1>5 DEF Stage, Wanted, Starting
  <2>2. Stages' = [Stages EXCEPT ![id] = "idle"] /\ Stages[id] = "waiting"
    BY <1>1, <1>2, <1>3, <2>1, OneStage, StagesFacts
  <2> QED  BY <1>1, <2>2 DEF Pool!Withdraw
<1> QED  BY <1>4, <1>5

LEMMA StartTaskIsStart ==
    ASSUME Inv, StartTask
    PROVE  iter \in DOMAIN Stages /\ Pool!Start(iter)
<1> PICK id : id = iter
  OBVIOUS
<1>1. /\ Types /\ spc \in Starting /\ id \in Tasks /\ threads[id] = "none"
      /\ \A i \in Tasks : i < id => task_status[i] \notin Starting
      /\ Tasks = 1..stream_id /\ stream_id \in Nat
      /\ DOMAIN Stages = Tasks /\ \A t \in Tasks : Stages[t] = Stage(t)
  BY StagesFacts DEF Inv, Types, Walked, StartTask
<1>2. PICK v \in {"upload", "download"} : threads' = [threads EXCEPT ![id] = v]
  BY DEF StartTask
<1>3. /\ Tasks' = Tasks
      /\ \A t \in Tasks \ {id} : task_status'[t] = task_status[t]
      /\ UNCHANGED <<owner, max_task_num, ids>>
      /\ task_count' = task_count + 1 /\ spc' = "scan"
  BY DEF StartTask, SetStatus, callerVars, Tasks
<1>4. Stage(id) = "waiting" /\ Stage(id)' = "running"
  <2>1. threads'[id] = v
    BY <1>1, <1>2 DEF Types
  <2> QED  BY <1>1, <2>1 DEF Stage, Wanted
<1>5. \A t \in Tasks \ {id} : Stage(t)' = Stage(t)
  BY <1>1, <1>2, <1>3 DEF Stage, Wanted, Types, Starting
<1>6. \A j \in 1..id - 1 : Stages[j] # "waiting"
  <2> SUFFICES ASSUME NEW j \in 1..id - 1 PROVE Stages[j] # "waiting"
    OBVIOUS
  <2>1. j \in Tasks /\ j < id /\ j # id
    BY <1>1
  <2> QED  BY <1>1, <2>1 DEF Stage, Wanted
<1>7. Stages' = [Stages EXCEPT ![id] = "running"]
  BY <1>1, <1>3, <1>4, <1>5, OneStage
<1>8. spc # "test" /\ spc' # "test"
  BY <1>1, <1>3 DEF Starting
<1> QED  BY <1>1, <1>3, <1>4, <1>6, <1>7, <1>8 DEF Pool!Start

LEMMA ThreadRefines ==
    ASSUME Inv, NEW id \in Tasks, Thread(id)
    PROVE  (id \in DOMAIN Stages /\ Pool!End(id)) \/ UNCHANGED Pool!vars
<1>1. /\ Types /\ threads[id] \in {"upload", "download"}
      /\ UNCHANGED <<owner, max_task_num, task_count, spc, iter, ids>>
      /\ Tasks' = Tasks /\ \A t \in Tasks \ {id} : task_status'[t] = task_status[t]
  BY DEF Inv, Thread, MarkTask, EndTask, SetStatus, limitVars, callerVars, Tasks
<1>2. DOMAIN Stages = Tasks /\ Stages[id] = "running"
  BY <1>1, StagesFacts DEF Stage
<1>3. CASE threads' = threads
  <2>1. \A t \in Tasks : Stage(t)' = Stage(t)
    BY <1>1, <1>3 DEF Stage, Wanted
  <2> QED  BY <1>1, <2>1, SameStages DEF Pool!vars
<1>4. CASE threads' = [threads EXCEPT ![id] = "ended"]
  <2>1. threads'[id] = "ended" /\ \A t \in Tasks \ {id} : threads'[t] = threads[t]
    BY <1>1, <1>4 DEF Types
  <2>2. Stage(id)' = "ended" /\ \A t \in Tasks \ {id} : Stage(t)' = Stage(t)
    BY <1>1, <2>1 DEF Stage, Wanted
  <2>3. Stages' = [Stages EXCEPT ![id] = "ended"]
    BY <1>1, <2>2, OneStage
  <2> QED  BY <1>1, <1>2, <2>3 DEF Pool!End
<1> QED  BY <1>3, <1>4 DEF Thread, MarkTask, EndTask

\* What opens, walks and closes a round, and what the limit and a refused
\* stream do.
LEMMA WalkRefines ==
    ASSUME Inv,
           TestCount \/ LockMap \/ SkipTask \/ SeeTask \/ UnlockMap
             \/ (\E n \in TaskNums : SetTaskNum(n)) \/ (\E a \in Callers : RefuseStream(a))
    PROVE  Pool!Open \/ Pool!Close \/ Pool!SetLimit \/ UNCHANGED Pool!vars
<1>1. /\ Types /\ Types' /\ max_task_num' \in Nat \ {0} /\ Walked /\ Unstarted
      /\ UNCHANGED <<task_status, owner, task_count, threads, ids>> /\ Tasks' = Tasks
  BY IdleStepInv DEF Inv, Types, TestCount, LockMap, SkipTask, SeeTask, UnlockMap, SetTaskNum,
     RefuseStream, taskVars, limitVars, callerVars, Tasks
<1>2. Stages' = Stages
  <2>1. (spc \in Starting /\ UNCHANGED <<spc, iter>>) \/ spc \notin Starting
    BY DEF TestCount, LockMap, SkipTask, SeeTask, UnlockMap, SetTaskNum, RefuseStream, Starting
  <2>2. spc' \in Starting /\ spc \notin Starting => task_status[iter'] \in Starting
    BY DEF TestCount, LockMap, SkipTask, SeeTask, UnlockMap, SetTaskNum, RefuseStream, Starting
  <2>3. \A id \in Tasks : Wanted(id)' <=> Wanted(id)
    BY <1>1, <2>1, <2>2 DEF Wanted
  <2>4. \A id \in Tasks : Stage(id)' = Stage(id)
    BY <1>1, <2>3 DEF Stage
  <2> QED  BY <1>1, <2>4, SameStages
<1>3. CASE TestCount
  BY <1>1, <1>2, <1>3 DEF TestCount, Pool!Open, limitVars
<1>4. CASE UnlockMap
  <2>1. iter > stream_id /\ Tasks = 1..stream_id /\ stream_id \in Nat /\ iter \in Nat
    BY <1>1, <1>4 DEF UnlockMap, Types, Walked
  <2>2. \A id \in Tasks : ~Wanted(id)
    BY <1>1, <1>4, <2>1 DEF UnlockMap, Walked, Wanted, Starting
  <2>3. \A id \in DOMAIN Stages : Stages[id] # "waiting"
    BY <2>2 DEF Stages, Stage
  <2> QED  BY <1>1, <1>2, <1>4, <2>3 DEF UnlockMap, Pool!Close, limitVars
<1>5. CASE LockMap \/ SkipTask \/ SeeTask \/ (\E a \in Callers : RefuseStream(a))
  <2>1. (spc # "test") = (spc' # "test") /\ max_task_num' = max_task_num
    BY <1>5 DEF LockMap, SkipTask, SeeTask, RefuseStream, limitVars, Starting
  <2> QED  BY <1>1, <1>2, <2>1 DEF Pool!vars
<1>6. CASE \E n \in TaskNums : SetTaskNum(n)
  BY <1>1, <1>2, <1>6 DEF SetTaskNum, Pool!SetLimit
<1> QED  BY <1>3, <1>4, <1>5, <1>6

LEMMA StepRefines ==
    ASSUME Inv, Unlearnt, Owners, [Next]_vars
    PROVE  [Pool!Next]_(Pool!vars)
<1>1. ASSUME NEW a \in Callers, Caller(a) PROVE [Pool!Next]_(Pool!vars)
  <2>1. ASSUME NEW id \in ids[a], StopTask(a, id)
        PROVE  Pool!Withdraw(a) \/ UNCHANGED Pool!vars
    BY <2>1, StopTaskRefines
  <2> QED  BY <1>1, <2>1, AddTaskIsSubmit, ReturnIdIsLearn, WalkRefines DEF Caller, Pool!Next
<1>2. CASE StartTask
  BY <1>2, StartTaskIsStart DEF Pool!Next
<1>3. ASSUME NEW id \in Tasks, Thread(id) PROVE [Pool!Next]_(Pool!vars)
  BY <1>3, ThreadRefines DEF Pool!Next
<1>4. CASE TestCount \/ LockMap \/ SkipTask \/ SeeTask \/ UnlockMap
             \/ (\E n \in TaskNums : SetTaskNum(n))
  BY <1>4, WalkRefines DEF Pool!Next
<1>5. CASE UNCHANGED vars
  BY <1>5 DEF Pool!vars, Stages, Stage, Wanted, Tasks, vars, taskVars, limitVars, callerVars
<1> QED  BY <1>1, <1>2, <1>3, <1>4, <1>5 DEF Next, Scheduler

\* The scheduler implements the pool: whatever the callers, the cancels and
\* the threads write into the map between two of its steps, a stream goes
\* from waiting to running once, in order and in a round that opened below the
\* limit, or it is withdrawn by one who knows its id and never runs.
THEOREM SchedulerIsPool == Spec => IsPool
<1>1. Init => Pool!Init
  <2> SUFFICES ASSUME Init PROVE Pool!Init
    OBVIOUS
  <2>1. Stages = << >>
    BY DEF Init, Stages, Tasks
  <2> QED  BY <2>1, SchedulerAssumption DEF Init, Pool!Init
<1>2. Init => Unlearnt /\ Owners
  BY DEF Init, Unlearnt, Owners, Tasks
<1>3. Inv /\ Unlearnt /\ Owners /\ [Next]_vars
        => (Unlearnt /\ Owners)' /\ [Pool!Next]_(Pool!vars)
  BY UnlearntStep, OwnersStep, StepRefines
<1> QED  BY <1>1, <1>2, <1>3, InvariantHolds, PTL DEF Spec, IsPool, Pool!Spec
====
