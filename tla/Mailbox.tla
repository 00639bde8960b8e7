------------------------------ MODULE Mailbox ------------------------------
(***************************************************************************)
(* What the broker promises one recipient about its messages: each one     *)
(* sent is kept until it is received, once, or lost.  In which order is    *)
(* not promised.                                                           *)
(***************************************************************************)
EXTENDS Sequences

CONSTANT Message

VARIABLES
    sent,     \* the messages sent so far
    kept,     \* those the broker still holds
    received  \* those the recipient got, in the order it got them

vars == <<sent, kept, received>>

Init == sent = {} /\ kept = {} /\ received = <<>>

Send(new) ==
    /\ new # {}
    /\ new \cap sent = {}
    /\ sent' = sent \cup new
    /\ kept' = kept \cup new
    /\ UNCHANGED received

Receive(m) ==
    /\ m \in kept
    /\ kept' = kept \ {m}
    /\ received' = Append(received, m)
    /\ UNCHANGED sent

Lose(m) ==
    /\ m \in kept
    /\ kept' = kept \ {m}
    /\ UNCHANGED <<sent, received>>

Next ==
    \/ \E new \in SUBSET Message : Send(new)
    \/ \E m \in Message : Receive(m) \/ Lose(m)

Spec == Init /\ [][Next]_vars
=============================================================================
