---- MODULE FrameChannel ----
(***************************************************************************)
(* What framing promises: messages, named 1, 2, ... as they are sent, are    *)
(* received whole, in order, none twice and in the end all of them.          *)
(***************************************************************************)
EXTENDS Integers, Sequences

VARIABLES
    sent,       \* how many messages were sent
    received    \* the messages received, in order

Init == sent = 0 /\ received = << >>

Send == sent' = sent + 1 /\ UNCHANGED received

Receive ==
    /\ Len(received) < sent
    /\ received' = Append(received, Len(received) + 1)
    /\ UNCHANGED sent

Next == Send \/ Receive

Safety == Init /\ [][Next]_<<sent, received>>

Spec == Safety /\ WF_<<sent, received>>(Receive)
====
