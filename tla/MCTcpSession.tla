---------------------------- MODULE MCTcpSession ----------------------------
(* Scripts for two Python peers over TCP that use the session while one of   *)
(* them rotates the keys.                                                    *)
EXTENDS TcpSession

send(n) == [op |-> "send", frags |-> n]
rekey == [op |-> "rekey"]
ping == [op |-> "ping"]

script2(a, b) == [p \in Peers |-> IF p = "A" THEN a ELSE b]

(* Both talk, or one pings, and one rotates the keys. *)
BusyRekey == {script2(<<send(1), rekey>>, <<send(1)>>), script2(<<ping, rekey>>, <<>>)}
==============================================================================
