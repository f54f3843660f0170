---- MODULE SecScheduler ----
(***************************************************************************)
(* The client's task map and its scheduler thread (sec_scheduler in         *)
(* sec_client_task.cpp) under the API calls of secftclient.cpp.             *)
(*                                                                         *)
(* Application threads add tasks under task_mutex and cancel them without  *)
(* it.  The scheduler thread compares task_count with max_task_num, takes  *)
(* the mutex and walks the map, starting a detached thread for every task   *)
(* whose status asks for it.  decrease_task_count has no caller.            *)
(***************************************************************************)
EXTENDS Integers, FiniteSets

CONSTANTS
    Callers,        \* application threads
    MaxCalls,       \* bound: secft_start_stream calls of all of them
    Kinds,          \* stream types they ask for: "upload", "download", "other"
    MaxTaskNum,     \* the initial max_task_num
    TaskNums        \* arguments of set_task_num

ASSUME SchedulerAssumption ==
    /\ MaxCalls \in Nat
    /\ Kinds \subseteq {"upload", "download", "other"}
    /\ MaxTaskNum \in Nat \ {0} /\ TaskNums \subseteq Int

VARIABLES
    stream_id,      \* the last id given out
    task_status,    \* sec_task_map: the status of every task, by id
    owner,          \* history: who added the task
    max_task_num,
    task_count,
    spc,            \* the scheduler: "test", "lock", "scan" or the case it has entered
    iter,           \* the id its iterator is at
    threads,        \* by id: "none", "upload", "download", "ended"
    calls,          \* calls made so far (bound only)
    res,            \* the local variable res of a caller inside add_task, or 0
    ids,            \* the ids every caller got back
    withdrawn       \* history: tasks cancelled while they waited, before the scheduler saw them

taskVars == <<stream_id, task_status, owner>>
limitVars == <<max_task_num, task_count>>
callerVars == <<calls, res, ids>>
vars == <<taskVars, limitVars, spc, iter, threads, callerVars, withdrawn>>

Statuses == {"START_UPLOAD", "START_DOWNLOAD", "UPLOADED", "UPLOAD_CANCELED",
             "UPLOAD_PAUSED", "UPLOADING", "DOWNLOADING", "UPLOAD_FAILED", "DOWNLOAD_FAILED"}
Starting == {"START_UPLOAD", "START_DOWNLOAD"}
Tasks == DOMAIN task_status

Init ==
    /\ stream_id = 0
    /\ task_status = << >> /\ owner = << >> /\ threads = << >>
    /\ max_task_num = MaxTaskNum /\ task_count = 0
    /\ spc = "test" /\ iter = 0
    /\ calls = 0
    /\ res = [a \in Callers |-> 0]
    /\ ids = [a \in Callers |-> {}]
    /\ withdrawn = {}

Extended(f, id, v) == [i \in DOMAIN f \cup {id} |-> IF i = id THEN v ELSE f[i]]
SetStatus(id, v) == task_status' = [task_status EXCEPT ![id] = v]

(***************************************************************************)
(* The API.                                                                *)
(***************************************************************************)
MutexFree == spc \in {"test", "lock"}

\* The status an item starts with.  For a type that is neither upload nor
\* download nothing assigns it: any value may be found there, and those that
\* start nothing are alike to the scheduler.
FirstStatus(kind) ==
    CASE kind = "upload"   -> {"START_UPLOAD"}
      [] kind = "download" -> {"START_DOWNLOAD"}
      [] OTHER             -> Starting \cup {"UPLOAD_PAUSED"}

NewId == CHOOSE i \in stream_id + 1 .. stream_id + Cardinality(Tasks) + 1 :
            /\ i \notin Tasks
            /\ \A j \in stream_id + 1 .. i - 1 : j \in Tasks

AddTask(a) ==
    /\ MutexFree
    /\ res[a] = 0 /\ calls < MaxCalls
    /\ calls' = calls + 1
    /\ stream_id' = NewId
    /\ \E kind \in Kinds : \E v \in FirstStatus(kind) :
         task_status' = Extended(task_status, NewId, v)
    /\ owner' = Extended(owner, NewId, a)
    /\ threads' = Extended(threads, NewId, "none")
    /\ res' = [res EXCEPT ![a] = NewId]
    /\ UNCHANGED <<limitVars, spc, iter, ids, withdrawn>>

\* Slip: stream_id is read again after the unlock.
ReturnIdSlip(a) ==
    /\ res[a] # 0
    /\ ids' = [ids EXCEPT ![a] = @ \cup {stream_id}]
    /\ res' = [res EXCEPT ![a] = 0]
    /\ UNCHANGED <<taskVars, limitVars, spc, iter, threads, calls, withdrawn>>

ReturnId(a) ==
    /\ res[a] # 0
    /\ ids' = [ids EXCEPT ![a] = @ \cup {res[a]}]
    /\ res' = [res EXCEPT ![a] = 0]
    /\ UNCHANGED <<taskVars, limitVars, spc, iter, threads, calls, withdrawn>>

\* The path cannot be opened or is a directory, or no type is given: -1.
RefuseStream(a) ==
    /\ res[a] = 0 /\ calls < MaxCalls
    /\ calls' = calls + 1
    /\ UNCHANGED <<taskVars, limitVars, spc, iter, threads, res, ids, withdrawn>>

\* stop_task: no mutex; downloads get UPLOAD_CANCELED as well.
StopTask(a, id) ==
    /\ id \in ids[a] /\ res[a] = 0
    /\ SetStatus(id, "UPLOAD_CANCELED")
    /\ withdrawn' = IF task_status[id] \in Starting /\ ~(spc \in Starting /\ iter = id)
                    THEN withdrawn \cup {id} ELSE withdrawn
    /\ UNCHANGED <<stream_id, owner, limitVars, spc, iter, threads, callerVars>>

\* Slip: the argument is not checked.
SetTaskNumSlip(n) ==
    /\ max_task_num' = n
    /\ UNCHANGED <<taskVars, task_count, spc, iter, threads, callerVars, withdrawn>>

SetTaskNum(n) ==
    /\ n > 0
    /\ max_task_num' = n
    /\ UNCHANGED <<taskVars, task_count, spc, iter, threads, callerVars, withdrawn>>

(***************************************************************************)
(* scheduler().                                                            *)
(***************************************************************************)
\* Slip: off by one.
TestCountSlip ==
    /\ spc = "test" /\ task_count + 1 < max_task_num
    /\ spc' = "lock"
    /\ UNCHANGED <<taskVars, limitVars, iter, threads, callerVars, withdrawn>>

TestCount ==
    /\ spc = "test" /\ task_count < max_task_num
    /\ spc' = "lock"
    /\ UNCHANGED <<taskVars, limitVars, iter, threads, callerVars, withdrawn>>

\* Slip: the walk begins at the newest task.
LockMapSlip ==
    /\ spc = "lock"
    /\ spc' = "scan" /\ iter' = stream_id
    /\ UNCHANGED <<taskVars, limitVars, threads, callerVars, withdrawn>>

LockMap ==
    /\ spc = "lock"
    /\ spc' = "scan" /\ iter' = 1
    /\ UNCHANGED <<taskVars, limitVars, threads, callerVars, withdrawn>>

SkipTask ==
    /\ spc = "scan" /\ iter \in Tasks
    /\ task_status[iter] \notin Starting
    /\ iter' = iter + 1
    /\ UNCHANGED <<taskVars, limitVars, spc, threads, callerVars, withdrawn>>

\* Slip: a task starts because it has no thread yet, whatever its status.
SeeTaskSlip ==
    /\ spc = "scan" /\ iter \in Tasks
    /\ threads[iter] = "none"
    /\ spc' = "START_UPLOAD"
    /\ UNCHANGED <<taskVars, limitVars, iter, threads, callerVars, withdrawn>>

SeeTask ==
    /\ spc = "scan" /\ iter \in Tasks
    /\ task_status[iter] \in Starting
    /\ spc' = task_status[iter]
    /\ UNCHANGED <<taskVars, limitVars, iter, threads, callerVars, withdrawn>>

\* Slip: the status is left for the thread to change.
StartTaskSlip ==
    /\ spc \in Starting
    /\ threads' = [threads EXCEPT ![iter] = IF spc = "START_UPLOAD" THEN "upload" ELSE "download"]
    /\ task_count' = task_count + 1
    /\ spc' = "scan" /\ iter' = iter + 1
    /\ UNCHANGED <<taskVars, max_task_num, callerVars, withdrawn>>

\* A cancel since SeeTask read the status is overwritten.
StartTask ==
    /\ spc \in Starting
    /\ SetStatus(iter, IF spc = "START_UPLOAD" THEN "UPLOADING" ELSE "DOWNLOADING")
    /\ threads' = [threads EXCEPT ![iter] = IF spc = "START_UPLOAD" THEN "upload" ELSE "download"]
    /\ task_count' = task_count + 1
    /\ spc' = "scan" /\ iter' = iter + 1
    /\ UNCHANGED <<stream_id, owner, max_task_num, callerVars, withdrawn>>

UnlockMap ==
    /\ spc = "scan" /\ iter \notin Tasks
    /\ spc' = "test" /\ iter' = 0
    /\ UNCHANGED <<taskVars, limitVars, threads, callerVars, withdrawn>>

(***************************************************************************)
(* The task threads, as far as the map sees them.                          *)
(***************************************************************************)
MarkTask(id) ==
    /\ threads[id] = "upload"
    /\ SetStatus(id, "UPLOADING")
    /\ UNCHANGED <<stream_id, owner, limitVars, spc, iter, threads, callerVars, withdrawn>>

\* The status a thread leaves, if it writes one at its end.
LastStatus(thread) ==
    IF thread = "upload" THEN {"UPLOADED", "UPLOAD_FAILED"} ELSE {"DOWNLOAD_FAILED"}

EndTask(id) ==
    /\ threads[id] \in {"upload", "download"}
    /\ threads' = [threads EXCEPT ![id] = "ended"]
    /\ \E v \in LastStatus(threads[id]) \cup {task_status[id]} : SetStatus(id, v)
    /\ UNCHANGED <<stream_id, owner, limitVars, spc, iter, callerVars, withdrawn>>

Caller(a) == AddTask(a) \/ ReturnId(a) \/ RefuseStream(a) \/ \E id \in ids[a] : StopTask(a, id)
Scheduler == TestCount \/ LockMap \/ SkipTask \/ SeeTask \/ StartTask \/ UnlockMap
Thread(id) == MarkTask(id) \/ EndTask(id)

Next ==
    \/ Scheduler
    \/ \E a \in Callers : Caller(a)
    \/ \E n \in TaskNums : SetTaskNum(n)
    \/ \E id \in Tasks : Thread(id)

\* The scheduler thread spins for ever; nothing else has to move.
Spec == Init /\ [][Next]_vars /\ WF_vars(Scheduler)

-----------------------------------------------------------------------------
TypeOK ==
    /\ stream_id \in Nat
    /\ Tasks = 1..stream_id /\ DOMAIN owner = Tasks /\ DOMAIN threads = Tasks
    /\ \A id \in Tasks : /\ task_status[id] \in Statuses
                         /\ owner[id] \in Callers
                         /\ threads[id] \in {"none", "upload", "download", "ended"}
    /\ max_task_num \in Nat \ {0} /\ task_count \in 0..stream_id
    /\ spc \in {"test", "lock", "scan"} \cup Starting /\ iter \in 0..stream_id + 1
    /\ calls \in 0..MaxCalls
    /\ \A a \in Callers : res[a] \in {0} \cup Tasks /\ ids[a] \subseteq Tasks
    /\ withdrawn \subseteq Tasks

\* The id secft_start_stream returns names the stream of that call, also when
\* another thread adds a task between the unlock and the return: a cancel by
\* that id never hits the stream of somebody else.
IdsNameOwnStreams == \A a \in Callers : \A id \in ids[a] : owner[id] = a

\* task_count has counted every thread that was started, once: no pass starts
\* a task a second time, whatever cancels and threads write into its status.
EveryThreadIsCounted ==
    task_count = Cardinality({id \in Tasks : threads[id] # "none"})

\* No waiting stream is overtaken by one with a later id.
StartsInOrder ==
    \A i, j \in Tasks :
        (i < j /\ threads[j] # "none") => task_status[i] \notin Starting

\* A stream cancelled before the scheduler looked at it never gets a thread.
WithdrawnNeverStarts == \A id \in withdrawn : threads[id] = "none"

\* What the pool sees of a stream.  One the scheduler has seen is waiting until
\* it runs, whatever is written into its status in between.
Wanted(id) == task_status[id] \in Starting \/ (spc \in Starting /\ iter = id)

Stage(id) ==
    CASE threads[id] = "none"  -> IF Wanted(id) THEN "waiting" ELSE "idle"
      [] threads[id] = "ended" -> "ended"
      [] OTHER                 -> "running"

Stages == [id \in Tasks |-> Stage(id)]

Pool == INSTANCE TaskPool WITH
    stage <- Stages, begun <- task_count, limit <- max_task_num, round <- spc # "test"

\* Map, mutex, iterator and unlocked cancels together are the pool of TaskPool.
\* "Waiting" includes the stream the scheduler has already read the status of:
\* its cancel is overwritten.  A round that opened below the limit starts
\* every stream that waits, however many these are.
IsPool == Pool!Spec

\* Every stream the application started and did not cancel gets its thread.
EveryStreamStarts ==
    \A id \in 1..MaxCalls :
        (id \in Tasks /\ task_status[id] \in Starting)
            ~> (id \in Tasks /\ task_status[id] \notin Starting)
====
