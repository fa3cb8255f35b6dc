--------------------------- MODULE MCCUdpSession ---------------------------
(* Scripts for a Python server (A) and a device (B), in Python or in C, over *)
(* UDP.  One message in each direction is fragmented, so that there is       *)
(* always a place in the middle of it.                                       *)
EXTENDS CUdpSession

send(n) == [op |-> "send", frags |-> n]
rekey == [op |-> "rekey"]
ping == [op |-> "ping"]
bye == [op |-> "bye"]

script2(a, b) == [p \in Peers |-> IF p = "A" THEN a ELSE b]

(* In Python both applications talk, ping and say goodbye; nobody rotates    *)
(* the keys. *)
Talk == {script2(<<send(2), send(2)>>, <<send(1)>>),
         script2(<<send(2), ping>>, <<send(2)>>),
         script2(<<send(1), bye>>, <<send(2)>>)}

(* Operations that fail and are followed by others, with and without a       *)
(* rotation, recv() calls that time out, PINGs in both directions.           *)
Stress == {script2(<<send(2), ping>>, <<send(1)>>),
           script2(<<send(1), rekey, send(1)>>, <<>>),
           script2(<<send(1), bye>>, <<rekey>>),
           script2(<<ping>>, <<ping, send(1)>>)}

(* One application sends before and after it rotates the keys; each rotation *)
(* comes at most W frames after the previous one.                            *)
SendAroundRekey == {script2(<<send(1), rekey, send(2), send(1)>>, <<>>),
                    script2(<<rekey, send(1), rekey, send(1)>>, <<ping>>)}

(* With a device in C both talk; either side pings or leaves. *)
CTalk == {script2(<<send(2), send(2)>>, <<send(2)>>),
          script2(<<ping, send(2)>>, <<ping>>),
          script2(<<bye>>, <<send(2)>>),
          script2(<<send(2)>>, <<bye>>),
          script2(<<>>, <<send(2), send(1), send(2)>>)}

(* One side rotates the keys and sends, the other only listens; a rotation   *)
(* comes at most W frames after the start.                                   *)
QuietRekey == {script2(<<send(1), rekey, send(2)>>, <<>>),
               script2(<<>>, <<send(1), rekey, send(2)>>)}

(* The theorems on lost messages are about scripts like these. *)
ASSUME ScriptsAreSafe == RekeysAreSafe
==============================================================================
