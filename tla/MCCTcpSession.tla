--------------------------- MODULE MCCTcpSession ---------------------------
(* Scripts for a Python server (A) and a device (B), in Python or in C, over *)
(* TCP.  Messages are fragmented and longer than the stream's high-water     *)
(* mark, so that a sender is suspended in the middle of one.                 *)
EXTENDS CTcpSession

send(n) == [op |-> "send", frags |-> n]
rekey == [op |-> "rekey"]
ping == [op |-> "ping"]
bye == [op |-> "bye"]

script2(a, b) == [p \in Peers |-> IF p = "A" THEN a ELSE b]

(* Both talk and ping; nobody rotates the keys.  Where both ping they may    *)
(* deadlock. *)
Talk == {script2(<<send(3), ping, send(2)>>, <<send(2), send(3)>>),
         script2(<<ping, send(2), ping>>, <<send(3)>>),
         script2(<<ping, send(3)>>, <<ping, send(3)>>),
         script2(<<send(2), bye>>, <<send(2), send(1)>>)}

(* One application rotates the keys while the other only listens. *)
QuietRekey == {script2(<<send(3), rekey, send(4), rekey, send(2)>>, <<>>),
               script2(<<rekey, rekey, send(4), bye>>, <<>>),
               script2(<<>>, <<send(4), rekey, send(2), rekey, send(4)>>)}

TalkOrRekey == Talk \union QuietRekey

(* Operations cancelled, recv() calls that expire, flooded peers. *)
Stress == {script2(<<send(3), send(2)>>, <<ping, send(1)>>),
           script2(<<ping, ping, ping>>, <<send(2), bye>>),
           script2(<<rekey, send(2)>>, <<send(1)>>)}

(* While the device in C is in its send it reads nothing: where it sends a   *)
(* message after a PING, they may deadlock over the server's answer. *)
CTalk == {script2(<<send(3), ping, send(2)>>, <<send(2), send(3)>>),
          script2(<<send(3)>>, <<ping, send(3)>>),
          script2(<<send(2), bye>>, <<send(2), send(1)>>),
          script2(<<send(3)>>, <<send(2), ping, bye>>)}

CTalkOrRekey == CTalk \union QuietRekey

(* The server's operations are cancelled, or flood the device. *)
CStress == {script2(<<send(3), send(2)>>, <<send(1)>>),
            script2(<<send(3), ping>>, <<send(1)>>),
            script2(<<ping, ping, ping>>, <<send(2), bye>>),
            script2(<<rekey, send(2)>>, <<send(1)>>)}
=============================================================================
