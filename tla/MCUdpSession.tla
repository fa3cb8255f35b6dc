---------------------------- MODULE MCUdpSession ----------------------------
(* The applications' scripts for UdpSession: peer A sends and rotates.       *)
EXTENDS UdpSession

script2(a, b) == [p \in Peers |-> IF p = "A" THEN a ELSE b]

(* Enough frames before the rotation to move the window on. *)
LongSendRekeySend ==
    {script2(<<[op |-> "send", frags |-> 2], [op |-> "rekey"], [op |-> "send", frags |-> 1]>>,
             <<>>)}
==============================================================================
