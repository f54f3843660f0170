---- MODULE CopyContract ----
(***************************************************************************)
(* What a transfer promises, without processes, records or chunks: the     *)
(* receiver's file is a front of the sender's over its old content, and the *)
(* front only grows.  The receiver ends with a shorter one only when a side *)
(* died, a file was changed, or the size does not fit the length field.     *)
(* A request that is refused stores nothing, even then, and nothing is      *)
(* stored after the end.                                                   *)
(***************************************************************************)
EXTENDS Naturals, Sequences

CONSTANT
    Limit       \* sizes are told modulo this

VARIABLES
    source,     \* the sender's file; << >> when there is none
    old,        \* the receiver's file of that name before
    granted,    \* a transfer was asked for and is not refused
    stored,     \* the receiver's file
    count,      \* how much of source it has
    over,       \* the receiver has closed
    broken,     \* somebody died or meddled
    spoilt      \* somebody changed a file under way

vars == <<source, old, granted, stored, count, over, broken, spoilt>>
asked == <<source, old, granted>>

Init ==
    /\ stored = old /\ count = 0
    /\ over = FALSE /\ broken = FALSE /\ spoilt = FALSE

Front(n) == SubSeq(source, 1, n) \o SubSeq(old, n + 1, Len(old))

\* With n bytes the receiver is through.
Enough(n) == granted /\ Len(source) < Limit => n = Len(source)

Copy ==
    /\ granted /\ ~over /\ ~spoilt
    /\ \E n \in count + 1 .. Len(source) : count' = n /\ stored' = Front(n)
    /\ over' \in BOOLEAN
    /\ over' => broken \/ Enough(count')
    /\ UNCHANGED <<asked, broken, spoilt>>

\* The receiver closes, or dies.
End ==
    /\ ~over /\ over' = TRUE
    /\ broken' \in {broken, TRUE}
    /\ broken' \/ Enough(count)
    /\ UNCHANGED <<asked, stored, count, spoilt>>

Break ==
    /\ ~broken /\ broken' = TRUE
    /\ spoilt' \in BOOLEAN
    /\ UNCHANGED <<asked, stored, count, over>>

\* Nothing is promised of the content any more, but the end is the end.
Mix ==
    /\ spoilt /\ granted /\ ~over
    /\ count' \in Nat /\ count' >= count
    /\ over' \in BOOLEAN
    /\ UNCHANGED <<asked, broken, spoilt>>

Next == Copy \/ End \/ Break \/ Mix

Spec == Init /\ [][Next]_vars
====
