----------------------------- MODULE MCHandshake -----------------------------
(* What the network may lose in Handshake.                                   *)
EXTENDS Handshake

Everything == BOOLEAN \X Types

(* All but the two datagrams whose loss one connect() does not survive: the  *)
(* HELLO_RETRY, which is sent outside the ARQ, and the UTACK of HELLO_ACK,   *)
(* which is not repeated once the server has its session.                    *)
Survivable == Everything \ {<<FALSE, "HELLO_RETRY">>, <<TRUE, "HELLO_ACK">>}
==============================================================================
