------------------------------ MODULE Channel ------------------------------
(* What a session promises its two applications, per direction: messages     *)
(* arrive whole, once and in the order they were sent, and nothing else      *)
(* arrives.  A suffix may be missing, when the session ends.                 *)
EXTENDS Sequences, Naturals

CONSTANTS Senders, Messages   \* Messages: what a send() may carry

VARIABLES sent, got           \* per sender: messages sent, messages its peer got

Init ==
    /\ sent = [p \in Senders |-> <<>>]
    /\ got = [p \in Senders |-> <<>>]

Send(p) ==
    /\ \E m \in Messages : sent' = [sent EXCEPT ![p] = Append(@, m)]
    /\ UNCHANGED got

Receive(p) ==
    /\ Len(got[p]) < Len(sent[p])
    /\ got' = [got EXCEPT ![p] = Append(@, sent[p][Len(@) + 1])]
    /\ UNCHANGED sent

Next == \E p \in Senders : Send(p) \/ Receive(p)

Spec == Init /\ [][Next]_<<sent, got>>
==============================================================================
