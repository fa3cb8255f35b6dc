------------------------------ MODULE Handshake ------------------------------
(* Establishing a session over UDP: one connect() of a client, from its      *)
(* HELLO to the first session frame, against the Python server.              *)
(*                                                                           *)
(* The client is either client_handshake (_handshake.py) on a UDPStream      *)
(* (transport/udp.py), whose datagram callback runs at any await, or         *)
(* usmp_handshake (usmp_handshake.c) on usmp_transport_udp.c, one thread     *)
(* that looks at its socket only inside send and recv.  The server is        *)
(* UDPListener._handle_udp_datagram and, per accepted HELLO, a UDPStream     *)
(* with its server_handshake task.  A connect() uses a port of its own, so   *)
(* everything here comes from one address.                                   *)
(*                                                                           *)
(* Stream s draws its own nonce and key pair: s itself stands for them and   *)
(* for the session keys derived from them.  An HMAC over the transcript is   *)
(* the pair of the PSK it was made with and that s.                          *)
EXTENDS Naturals, Sequences, FiniteSets

CONSTANTS
    Kinds,                    \* the clients considered, of "python" and "c"
    Psks,                     \* what the client may hold for a PSK
    ServerPsk,                \* the PSK the server resolves for it
    MaxStreams,               \* streams the server creates for this address
    MaxBucket,                \* ticks of the 30 second cookie clock
    MaxLosses,                \* datagrams a timely network may lose
    Losable                   \* and which ones: pairs <<is a UTACK, frame type>>

ASSUME HandshakeAssumption ==
    /\ Kinds \subseteq {"python", "c"}
    /\ ServerPsk \in Psks
    /\ MaxStreams \in Nat \ {0}

VARIABLES
    kind, psk,                \* this client
    timely,                   \* the network delivers or loses every datagram before
                              \* its timer runs out, and loses at most MaxLosses;
                              \* otherwise it may lose, delay and repeat any of them
    losses,
    bucket,                   \* time.time() // 30
    client,                   \* where connect() is, and the client's stream
    stream,                   \* the server's streams
    handshakes, sessions,     \* _udp_handshakes and _udp_sessions of this address
    toServer, toClient        \* datagrams on the way

config == <<kind, psk, timely>>
vars == <<config, losses, bucket, client, stream, handshakes, sessions, toServer, toClient>>

Streams == 1 .. MaxStreams
None == 0

Types == {"HELLO", "CHALLENGE", "HELLO_ACK", "SESSION_OK", "HELLO_RETRY", "DATA"}
Rank == [HELLO |-> 1, CHALLENGE |-> 2, HELLO_ACK |-> 3, SESSION_OK |-> 4]

(* A frame with what is in its payload, and the UTACK that names it.  Only   *)
(* the UTACK of a session frame carries a MAC, and only if the stream has    *)
(* its keys.                                                                 *)
frame(type, seq, body) == [utack |-> FALSE, type |-> type, seq |-> seq, body |-> body]
utack(f, key) == [utack |-> TRUE, type |-> f.type, seq |-> f.seq,
                  body |-> IF f.type = "DATA" THEN key ELSE <<>>]

(* The three client writes all numbered 0 (mutant). *)
HelloCookieSeqZero(cookie) == frame("HELLO", 0, cookie)

Hello == frame("HELLO", 0, <<>>)
HelloCookie(cookie) == frame("HELLO", 1, cookie)
HelloAck(key, s) == frame("HELLO_ACK", 2, <<key, s>>)
Data(s) == frame("DATA", 0, <<s>>)
HelloRetry(b) == frame("HELLO_RETRY", 0, <<b>>)
Challenge(s) == frame("CHALLENGE", 0, <<s>>)
SessionOk(key, s) == frame("SESSION_OK", 0, <<key, s>>)

Sending == {"hello", "cookie", "ack", "data"}
Waiting == {"await_challenge", "await_challenge_again", "await_session_ok"}
Established == {"established", "data", "sent"}

Unused == [st |-> "unused", out |-> Hello, acked |-> FALSE, buf |-> <<>>, last |-> "none"]

Init ==
    /\ kind \in Kinds /\ psk \in Psks /\ timely \in BOOLEAN
    /\ losses = 0 /\ bucket = 0
    /\ client = [phase |-> "hello", out |-> Hello, acked |-> FALSE, buf |-> <<>>,
                 last |-> "none", peer |-> None, error |-> "none"]
    /\ stream = [s \in Streams |-> Unused]
    /\ handshakes = None /\ sessions = None
    /\ toServer = {Hello} /\ toClient = {}

(* A datagram that has been delivered; without the timers it may come again. *)
Taken(net, d) == IF timely THEN net \ {d} ELSE net

(* No duplicate detection (mutant). *)
IsDuplicateNever(type, last, isServer) == FALSE

(* Duplicate detection in which a late HELLO_RETRY passes (mutant). *)
IsDuplicateNoRetry(type, last, isServer) ==
    \/ type = last
    \/ type = "CHALLENGE" /\ last = "SESSION_OK"
    \/ isServer /\ last # "none" /\ Rank[type] <= Rank[last]

IsDuplicate(type, last, isServer) ==
    \/ type = last
    \/ type = "HELLO_RETRY" /\ last # "none"
    \/ type = "CHALLENGE" /\ last = "SESSION_OK"
    \/ isServer /\ last # "none" /\ Rank[type] <= Rank[last]

-----------------------------------------------------------------------------
(* The client                                                                *)

ClientOnly == UNCHANGED <<config, losses, bucket, stream, handshakes, sessions>>

(* The ARQ timer of a pending frame expires.  On a timely network neither    *)
(* the frame nor its UTACK can still be on the way.                          *)
Names(a, f) == a.type = f.type /\ a.seq = f.seq
Expired(f, there, back) ==
    timely => f \notin there /\ \A a \in back : ~(a.utack /\ Names(a, f))

ClientRetransmit ==
    /\ client.phase \in Sending /\ ~client.acked
    /\ client.out \notin toServer
    /\ Expired(client.out, toServer, toClient)
    /\ toServer' = toServer \union {client.out}
    /\ ClientOnly /\ UNCHANGED <<client, toClient>>

(* A UTACK reaches the stream, or the loop inside usmp_udp_send.             *)
Accepts(a) == a.type = "DATA" => a.body = <<client.peer>>

ClientUtack(a) ==
    /\ a \in toClient /\ a.utack
    /\ client.phase # "failed" /\ (timely \/ ~client.acked)
    /\ toClient' = Taken(toClient, a)
    /\ client' = IF client.phase \in Sending /\ Names(a, client.out) /\ Accepts(a)
                 THEN [client EXCEPT !.acked = TRUE]
                 ELSE client
    /\ ClientOnly /\ UNCHANGED toServer

(* The write returns and the next read begins. *)
AfterWrite == [hello |-> "await_challenge", cookie |-> "await_challenge_again",
               ack |-> "await_session_ok", data |-> "sent"]

ClientResumes ==
    /\ client.phase \in Sending /\ client.acked
    /\ client' = [client EXCEPT !.phase = AfterWrite[client.phase]]
    /\ ClientOnly /\ UNCHANGED <<toServer, toClient>>

(* Reading a frame puts acks on the wire and either ends in the next write   *)
(* of frame f or leaves the client in state c.                               *)
Write(c, acks, phase, f) ==
    /\ client' = [c EXCEPT !.phase = phase, !.out = f, !.acked = FALSE]
    /\ toServer' = toServer \union acks \union {f}

Become(c, acks) == client' = c /\ toServer' = toServer \union acks

Verified(c, f) == f.body = <<psk, c.peer>>

Expected == [await_challenge |-> {"HELLO_RETRY", "CHALLENGE"},
             await_challenge_again |-> {"CHALLENGE"},
             await_session_ok |-> {"SESSION_OK"}]

(* What the handshake makes of the next frame of its stream. *)
Handle(c, f, acks) ==
    /\ c.phase \in Waiting
    /\ \/ /\ f.type = "HELLO_RETRY" /\ f.type \in Expected[c.phase]
          /\ Write(c, acks, "cookie", HelloCookie(f.body))
       \/ /\ f.type = "CHALLENGE" /\ f.type \in Expected[c.phase]
          /\ LET s == f.body[1]
             IN  Write([c EXCEPT !.peer = s], acks, "ack", HelloAck(psk, s))
       \/ /\ f.type = "SESSION_OK" /\ f.type \in Expected[c.phase]
          /\ IF Verified(c, f)
             THEN Become([c EXCEPT !.phase = "established"], acks)
             ELSE Become([c EXCEPT !.phase = "failed", !.error = "auth"], acks)
       \/ /\ f.type \notin Expected[c.phase]
          /\ Become([c EXCEPT !.phase = "failed", !.error = "protocol"], acks)

(* UDPStream.feed_packet, at any time: acknowledged, and buffered if new. *)
PythonFeed(f) ==
    /\ kind = "python" /\ client.phase # "failed"
    /\ f \in toClient /\ ~f.utack
    /\ toClient' = Taken(toClient, f)
    /\ Become(IF IsDuplicate(f.type, client.last, FALSE)
              THEN client
              ELSE [client EXCEPT !.last = f.type, !.buf = Append(@, f)],
              {utack(f, <<>>)})
    /\ ClientOnly

PythonRead ==
    /\ kind = "python" /\ client.buf # <<>>
    /\ Handle([client EXCEPT !.buf = Tail(@)], Head(client.buf), {})
    /\ ClientOnly /\ UNCHANGED toClient

(* usmp_udp_send: one frame is put aside, others are lost; none is           *)
(* acknowledged.                                                             *)
CPutAside(f) ==
    /\ kind = "c" /\ client.phase \in Sending /\ ~client.acked
    /\ f \in toClient /\ ~f.utack
    /\ toClient' = Taken(toClient, f)
    /\ client' = IF client.buf = <<>> THEN [client EXCEPT !.buf = <<f>>] ELSE client
    /\ ClientOnly /\ UNCHANGED toServer

(* usmp_udp_recv, in the handshake or once the application polls for data:   *)
(* the frame put aside, or one from the socket, is acknowledged and then     *)
(* compared with what came before.                                           *)
CRead(f) ==
    LET c == [client EXCEPT !.buf = <<>>]
        acks == {utack(f, <<>>)}
    IN  /\ kind = "c" /\ client.phase \in Waiting \union {"established", "sent"}
        /\ IF client.buf # <<>>
           THEN f = client.buf[1] /\ UNCHANGED toClient
           ELSE f \in toClient /\ ~f.utack /\ toClient' = Taken(toClient, f)
        /\ IF IsDuplicate(f.type, client.last, FALSE)
           THEN Become(c, acks)
           ELSE Handle([c EXCEPT !.last = f.type], f, acks)
        /\ ClientOnly

(* connect() has returned; the application sends. *)
StartData ==
    /\ client.phase = "established"
    /\ Write(client, {}, "data", Data(client.peer))
    /\ ClientOnly /\ UNCHANGED toClient

(* Nothing is on the way and nobody will send anything that is answered: the *)
(* client waits and no stream is busy with it, or it repeats its HELLO_ACK   *)
(* to a server that has no handshake under way any more.                     *)
Stalled ==
    /\ toServer = {} /\ toClient = {}
    /\ \/ client.phase \in Waiting /\ client.buf = <<>>
       \/ client.phase = "ack" /\ ~client.acked /\ handshakes = None
    /\ \A s \in Streams :
         \/ stream[s].st \in {"unused", "session", "gone"}
         \/ stream[s].st = "await" /\ stream[s].buf = <<>>

(* Five timers of one write run out; or the ten seconds that connect() gives *)
(* a Python client, and nobody a C client.  On a timely network this happens *)
(* only when nothing else can.                                               *)
ClientGivesUp ==
    /\ \/ client.phase \in Sending /\ ~client.acked
       \/ kind = "python" /\ client.phase \in Waiting \union (Sending \ {"data"})
    /\ timely => Stalled
    /\ client' = [client EXCEPT !.phase = "failed", !.error = "transport"]
    /\ ClientOnly /\ UNCHANGED <<toServer, toClient>>

-----------------------------------------------------------------------------
(* The server                                                                *)

ServerOnly == UNCHANGED <<config, losses, bucket, client>>

(* Only cookies of the current 30 seconds (mutant). *)
CookieValidNow(cookie) == cookie = <<bucket>>

CookieValid(cookie) == cookie \in {<<bucket>>, <<bucket - 1>>}

(* _handle_udp_datagram without a handshake under way: a HELLO without a     *)
(* cookie is answered without keeping state, once and for all; one with a    *)
(* valid cookie gets a stream, which is fed with it.                         *)
HelloArrives(f) ==
    /\ f \in toServer /\ f.type = "HELLO" /\ ~f.utack /\ handshakes = None
    /\ toServer' = Taken(toServer, f)
    /\ \/ /\ f.body = <<>>
          /\ toClient' = toClient \union {utack(f, <<>>), HelloRetry(bucket)}
          /\ UNCHANGED <<stream, handshakes>>
       \/ /\ f.body # <<>> /\ CookieValid(f.body)
          /\ \E s \in Streams :
               /\ stream[s].st = "unused" /\ \A r \in 1 .. s - 1 : stream[r].st # "unused"
               /\ stream' = [stream EXCEPT ![s] = [Unused EXCEPT !.st = "hello", !.buf = <<f>>,
                                                                 !.last = "HELLO"]]
               /\ handshakes' = s
          /\ toClient' = toClient \union {utack(f, <<>>)}
       \/ /\ f.body # <<>> /\ ~CookieValid(f.body)
          /\ UNCHANGED <<stream, handshakes, toClient>>
    /\ UNCHANGED sessions /\ ServerOnly

(* Anything else goes to the handshake under way; with none, a session frame *)
(* goes to the session and a handshake frame nowhere.                        *)
Route(type) == IF type \in {"DATA", "HELLO_RETRY"} /\ handshakes = None
               THEN sessions ELSE handshakes

(* The keys go into the stream when the handshake is over (mutant). *)
KeysLate(s) == IF stream[s].st = "session" THEN <<s>> ELSE <<>>

(* server_handshake installs the keys before it sends SESSION_OK. *)
Keys(s) == IF stream[s].st \in {"ok", "session"} THEN <<s>> ELSE <<>>

(* feed_packet of stream s.  A second copy of a session frame in the buffer  *)
(* would be dropped by the session's window and is left out.                 *)
Feed(s, f) ==
    /\ toClient' = toClient \union {utack(f, Keys(s))}
    /\ stream' = IF \/ f.type # "DATA" /\ IsDuplicate(f.type, stream[s].last, TRUE)
                    \/ f.type = "DATA" /\ \E i \in DOMAIN stream[s].buf : stream[s].buf[i] = f
                 THEN stream
                 ELSE [stream EXCEPT ![s].buf = Append(@, f),
                                     ![s].last = IF f.type = "DATA" THEN @ ELSE f.type]

FrameArrives(f) ==
    /\ f \in toServer /\ ~f.utack
    /\ f.type = "HELLO" => handshakes # None
    /\ toServer' = Taken(toServer, f)
    /\ IF Route(f.type) = None
       THEN UNCHANGED <<stream, toClient>>
       ELSE Feed(Route(f.type), f)
    /\ UNCHANGED <<handshakes, sessions>> /\ ServerOnly

ServerUtack(a) ==
    LET s == Route(a.type)
    IN  /\ a \in toServer /\ a.utack
        /\ toServer' = Taken(toServer, a)
        /\ stream' = IF s # None /\ stream[s].st \in {"challenge", "ok"} /\ Names(a, stream[s].out)
                     THEN [stream EXCEPT ![s].acked = TRUE]
                     ELSE stream
        /\ UNCHANGED <<handshakes, sessions, toClient>> /\ ServerOnly

ServerSends(s, st, f) ==
    /\ stream' = [stream EXCEPT ![s].st = st, ![s].out = f, ![s].acked = FALSE,
                                ![s].buf = Tail(@)]
    /\ toClient' = toClient \union {f}

ReadHello(s) ==
    /\ stream[s].st = "hello"
    /\ ServerSends(s, "challenge", Challenge(s))
    /\ UNCHANGED <<handshakes, sessions, toServer>> /\ ServerOnly

ChallengeTaken(s) ==
    /\ stream[s].st = "challenge" /\ stream[s].acked
    /\ stream' = [stream EXCEPT ![s].st = "await"]
    /\ UNCHANGED <<handshakes, sessions, toServer, toClient>> /\ ServerOnly

(* The handshake raises: the stream leaves the table and closes. *)
Drop(s) ==
    /\ stream' = [stream EXCEPT ![s].st = "gone"]
    /\ handshakes' = IF handshakes = s THEN None ELSE handshakes

(* The client's HMAC is not compared (mutant). *)
VerifiesAny(s, f) == f.type = "HELLO_ACK"

Verifies(s, f) == f = HelloAck(ServerPsk, s)

ReadHelloAck(s) ==
    /\ stream[s].st = "await" /\ stream[s].buf # <<>>
    /\ IF Verifies(s, Head(stream[s].buf))
       THEN ServerSends(s, "ok", SessionOk(ServerPsk, s)) /\ UNCHANGED handshakes
       ELSE Drop(s) /\ UNCHANGED toClient
    /\ UNCHANGED <<sessions, toServer>> /\ ServerOnly

(* SESSION_OK is acknowledged: _on_transport_connect registers the session,  *)
(* closing an older one of the address.                                      *)
Establish(s) ==
    /\ stream[s].st = "ok" /\ stream[s].acked
    /\ stream' = [r \in Streams |-> [stream[r] EXCEPT
                     !.st = IF r = s THEN "session" ELSE IF r = sessions THEN "gone" ELSE @]]
    /\ sessions' = s
    /\ handshakes' = None
    /\ UNCHANGED <<toServer, toClient>> /\ ServerOnly

ServerRetransmit(s) ==
    /\ stream[s].st \in {"challenge", "ok"} /\ ~stream[s].acked
    /\ stream[s].out \notin toClient
    /\ Expired(stream[s].out, toClient, toServer)
    /\ toClient' = toClient \union {stream[s].out}
    /\ UNCHANGED <<stream, handshakes, sessions, toServer>> /\ ServerOnly

(* Five timers of one write, or the ten seconds of the handshake, run out. *)
ServerGivesUp(s) ==
    /\ stream[s].st \in {"hello", "challenge", "await", "ok"}
    /\ timely => client.phase = "failed"
    /\ Drop(s)
    /\ UNCHANGED <<sessions, toServer, toClient>> /\ ServerOnly

-----------------------------------------------------------------------------
(* The network and the clock                                                 *)

Lose ==
    /\ timely /\ losses < MaxLosses
    /\ losses' = losses + 1
    /\ \/ /\ \E d \in toServer : /\ <<d.utack, d.type>> \in Losable
                                 /\ toServer' = toServer \ {d}
          /\ UNCHANGED toClient
       \/ /\ \E d \in toClient : /\ <<d.utack, d.type>> \in Losable
                                 /\ toClient' = toClient \ {d}
          /\ UNCHANGED toServer
    /\ UNCHANGED <<config, bucket, client, stream, handshakes, sessions>>

(* A timely handshake takes less than thirty seconds. *)
Tick ==
    /\ bucket < IF timely THEN 1 ELSE MaxBucket
    /\ bucket' = bucket + 1
    /\ UNCHANGED <<config, losses, client, stream, handshakes, sessions, toServer, toClient>>

ToClient(t) ==
    \/ \E d \in toClient : d.type = t /\ (ClientUtack(d) \/ PythonFeed(d) \/ CPutAside(d))
    \/ \E d \in toClient \union {client.buf[i] : i \in DOMAIN client.buf} :
         d.type = t /\ CRead(d)

ToServer(t) ==
    \E d \in toServer : d.type = t /\ (HelloArrives(d) \/ FrameArrives(d) \/ ServerUtack(d))

ClientTask == ClientResumes \/ PythonRead \/ StartData
ServerTask(s) == ReadHello(s) \/ ChallengeTaken(s) \/ ReadHelloAck(s) \/ Establish(s)

Next ==
    \/ ClientTask \/ ClientRetransmit \/ ClientGivesUp
    \/ \E s \in Streams : ServerTask(s) \/ ServerRetransmit(s) \/ ServerGivesUp(s)
    \/ \E t \in Types : ToClient(t) \/ ToServer(t)
    \/ Lose \/ Tick

Spec == Init /\ [][Next]_vars

(* On the timely network: the event loops run what is ready, timers fire,    *)
(* and a datagram that is not lost arrives.  Giving up competes with the     *)
(* retransmissions, of which there are five: it happens in the end.          *)
Fairness ==
    /\ WF_vars(timely /\ ClientTask) /\ WF_vars(timely /\ ClientRetransmit)
    /\ SF_vars(timely /\ ClientGivesUp)
    /\ \A s \in Streams : /\ WF_vars(timely /\ ServerTask(s))
                          /\ WF_vars(timely /\ ServerRetransmit(s))
    /\ \A t \in Types : WF_vars(timely /\ ToClient(t)) /\ WF_vars(timely /\ ToServer(t))

FairSpec == Spec /\ Fairness

-----------------------------------------------------------------------------

TypeOK ==
    /\ client.phase \in Sending \union Waiting \union Established \union {"failed"}
    /\ client.error \in {"none", "transport", "protocol", "auth"}
    /\ client.peer \in Streams \union {None}
    /\ Len(client.buf) <= IF kind = "c" THEN 1 ELSE 3
    /\ \A s \in Streams : /\ stream[s].st \in {"unused", "hello", "challenge", "await", "ok",
                                               "session", "gone"}
                          /\ Len(stream[s].buf) <= 3
    /\ {handshakes, sessions} \subseteq Streams \union {None}
    /\ \A d \in toServer \union toClient : d.type \in Types

(* Nobody ends up in a session alone or with the wrong partner.  A client    *)
(* that returns from connect() shares the PSK and its keys with a stream     *)
(* that has verified it; and a session of the server belongs to a client     *)
(* that holds the same keys and has the SESSION_OK in hand, or has given up  *)
(* (_handshake.py:194-225, 335-366; usmp_handshake.c:391-408).               *)
MutualAuthentication ==
    /\ client.phase \in Established =>
           /\ psk = ServerPsk
           /\ stream[client.peer].st \in {"ok", "session", "gone"}
    /\ \A s \in Streams : stream[s].st = "session" =>
           /\ psk = ServerPsk /\ client.peer = s
           /\ \/ client.phase \in Established \union {"failed"}
              \/ \E i \in DOMAIN client.buf : client.buf[i] = SessionOk(psk, s)

(* However the network repeats and reorders, a client with the right PSK is  *)
(* never handed a frame its handshake does not expect there: duplicate       *)
(* detection by last_rx_type is enough (udp.py:152-168, 258-267 of the C     *)
(* transport), although the three server frames all carry sequence 0.        *)
NoProtocolError == psk = ServerPsk => client.error \in {"none", "transport"}

(* A write that returns was taken by the other side: the UTACK of the HELLO  *)
(* with the cookie means that a stream exists, that of HELLO_ACK that a      *)
(* stream got it, that of the first session frame that the stream with these *)
(* keys got it.  UTACKs of the handshake match by type and sequence alone    *)
(* (CHANGELOG.md:105).                                                       *)
AckMeansTaken ==
    /\ client.phase = "await_challenge_again" => \E s \in Streams : stream[s].st # "unused"
    /\ client.phase = "await_session_ok" => \E s \in Streams : stream[s].last = "HELLO_ACK"
    /\ client.phase = "sent" =>
           \E i \in DOMAIN stream[client.peer].buf :
               stream[client.peer].buf[i] = Data(client.peer)

(* With no datagram repeated, a session frame is never acknowledged without  *)
(* a MAC, even one that arrives before the server has seen that its          *)
(* SESSION_OK arrived (_handshake.py:216-221).                               *)
SessionAcksSigned ==
    timely => \A a \in toClient : a.utack /\ a.type = "DATA" => a.body # <<>>

(* With the right PSK, and unless the datagrams outside Losable are lost,    *)
(* both sides get their session and the first message arrives.               *)
HandshakeCompletes ==
    (timely /\ psk = ServerPsk) ~> (client.phase = "sent" /\ sessions = client.peer)

(* usmp.h:140: usmp_connect "Returns USMP_OK (0) on success, or a negative   *)
(* usmp_err_t code on failure"; it does not return at all when HELLO_RETRY   *)
(* is lost or the server does not accept the PSK.                            *)
ConnectReturns == timely ~> (client.phase \in Established \union {"failed"})
==============================================================================
