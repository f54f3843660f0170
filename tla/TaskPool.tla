---- MODULE TaskPool ----
(***************************************************************************)
(* What the scheduler promises the application, without a map, a mutex, an *)
(* iterator or status words: streams get ids in the order they come; an    *)
(* id is told only to the thread that started the stream, and only who     *)
(* knows it can withdraw the stream; those that wait are started in order, *)
(* each once, in rounds that open below the limit and close when none      *)
(* waits; what was withdrawn before never starts.                          *)
(***************************************************************************)
EXTENDS Integers, Sequences

CONSTANT Callers

VARIABLES
    stage,      \* by id: "waiting", "idle", "running" or "ended"
    owner,      \* by id: the application thread that started the stream
    ids,        \* the ids every application thread knows
    begun,      \* how many streams have been started
    limit,      \* how many may have been for a round to open
    round       \* a round is open

vars == <<stage, owner, ids, begun, limit, round>>

Init ==
    /\ stage = << >> /\ owner = << >>
    /\ ids = [a \in Callers |-> {}]
    /\ begun = 0 /\ limit \in Nat \ {0}
    /\ round = FALSE

\* A stream whose type is unknown may be idle from the beginning.
Submit(a) ==
    /\ \E first \in {"waiting", "idle"} : stage' = Append(stage, first)
    /\ owner' = Append(owner, a)
    /\ UNCHANGED <<ids, begun, limit, round>>

Learn(a) ==
    /\ \E id \in DOMAIN stage :
         /\ owner[id] = a /\ \A b \in Callers : id \notin ids[b]
         /\ ids' = [ids EXCEPT ![a] = @ \cup {id}]
    /\ UNCHANGED <<stage, owner, begun, limit, round>>

Withdraw(a) ==
    /\ \E id \in ids[a] : stage[id] = "waiting" /\ stage' = [stage EXCEPT ![id] = "idle"]
    /\ UNCHANGED <<owner, ids, begun, limit, round>>

Open ==
    /\ ~round /\ begun < limit
    /\ round' = TRUE
    /\ UNCHANGED <<stage, owner, ids, begun, limit>>

Start(id) ==
    /\ round
    /\ stage[id] = "waiting" /\ \A j \in 1..id - 1 : stage[j] # "waiting"
    /\ stage' = [stage EXCEPT ![id] = "running"]
    /\ begun' = begun + 1
    /\ UNCHANGED <<owner, ids, limit, round>>

\* A round leaves no stream behind, however many it has to start.
Close ==
    /\ round
    /\ \A id \in DOMAIN stage : stage[id] # "waiting"
    /\ round' = FALSE
    /\ UNCHANGED <<stage, owner, ids, begun, limit>>

End(id) ==
    /\ stage[id] = "running"
    /\ stage' = [stage EXCEPT ![id] = "ended"]
    /\ UNCHANGED <<owner, ids, begun, limit, round>>

SetLimit ==
    /\ limit' \in Nat \ {0}
    /\ UNCHANGED <<stage, owner, ids, begun, round>>

Next ==
    \/ \E a \in Callers : Submit(a) \/ Learn(a) \/ Withdraw(a)
    \/ Open \/ Close \/ SetLimit
    \/ \E id \in DOMAIN stage : Start(id) \/ End(id)

Spec == Init /\ [][Next]_vars
====
