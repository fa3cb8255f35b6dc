--------------------------- MODULE HandshakeProofs ---------------------------
(* For any number of streams, any losses, repetitions and delays, and any    *)
(* PSKs: nobody is in a session alone or with the wrong partner (IInv), no   *)
(* client meets a frame out of its turn, and every UTACK is true             *)
(* (Agreement).                                                              *)
EXTENDS Handshake, TLAPS

(* What each side may put on the wire. *)
FromClient ==
    {Hello} \union {HelloCookie(<<b>>) : b \in Nat} \union {Data(s) : s \in Streams \union {None}}
        \union {HelloAck(key, s) : key \in Psks, s \in Streams}

FromServer ==
    {HelloRetry(b) : b \in Nat} \union {Challenge(s) : s \in Streams}
        \union {SessionOk(ServerPsk, s) : s \in Streams}

Utacks == [utack : {TRUE}, type : Types, seq : Nat, body : {<<>>} \union {<<s>> : s \in Streams}]

Early == {"hello", "cookie", "await_challenge", "await_challenge_again"}
Phases == Sending \union Waiting \union Established \union {"failed"}

ClientStates ==
    [phase : Phases, out : FromClient, acked : BOOLEAN, buf : Seq(FromServer),
     last : Types \union {"none"}, peer : Streams \union {None},
     error : {"none", "transport", "protocol", "auth"}]

StreamStates ==
    [st : {"unused", "hello", "challenge", "await", "ok", "session", "gone"},
     out : FromServer \union {Hello}, acked : BOOLEAN, buf : Seq(FromClient),
     last : Types \union {"none"}]

Typed ==
    /\ psk \in Psks /\ bucket \in Nat
    /\ client \in ClientStates
    /\ stream \in [Streams -> StreamStates]
    /\ handshakes \in Streams \union {None} /\ sessions \in Streams \union {None}
    /\ toServer \subseteq FromClient \union Utacks
    /\ toClient \subseteq FromServer \union Utacks
    /\ \A s \in Streams : /\ stream[s].st = "hello" => stream[s].buf # <<>>
                          /\ stream[s].st \in {"challenge", "ok"} => stream[s].out \in FromServer

(* A HELLO_ACK, wherever it is, is this client's answer to the one challenge *)
(* it has answered.                                                          *)
OurAck(f) == f.type = "HELLO_ACK" /\ ~f.utack =>
                 client.phase \notin Early /\ f.body = <<psk, client.peer>>

AcksAreOurs ==
    /\ \A f \in toServer : OurAck(f)
    /\ OurAck(client.out)
    /\ \A s \in Streams : \A i \in DOMAIN stream[s].buf : OurAck(stream[s].buf[i])

(* A stream past the verification is the one the client has answered.        *)
Verifiers ==
    \A s \in Streams : stream[s].st \in {"ok", "session"} =>
        /\ psk = ServerPsk /\ client.peer = s /\ client.phase \notin Early
        /\ stream[s].out = SessionOk(ServerPsk, s)

(* The client holds the same PSK as a stream that has verified it. *)
Partner ==
    /\ psk = ServerPsk /\ client.peer \in Streams /\ client.phase \notin Early
    /\ stream[client.peer].st \in {"ok", "session", "gone"}

(* A SESSION_OK, wherever it is, comes from there.  *)
RealOk(f) == f.type = "SESSION_OK" /\ ~f.utack => Partner /\ f.body = <<psk, client.peer>>

OksAreReal ==
    /\ \A f \in toClient : RealOk(f)
    /\ \A i \in DOMAIN client.buf : RealOk(client.buf[i])
    /\ \A s \in Streams : RealOk(stream[s].out)
    /\ client.phase \in Established => Partner

(* The client has taken a SESSION_OK: it is done, or has it in its buffer.   *)
(* A C client acknowledges no frame before it reads it.                      *)
HasOk ==
    \/ client.phase \in Established \union {"failed"}
    \/ kind = "python" /\ \E i \in DOMAIN client.buf : client.buf[i].type = "SESSION_OK"

(* Nobody believes so before it is true. *)
OkTaken ==
    /\ client.last = "SESSION_OK" => HasOk
    /\ \A a \in toServer : a.utack /\ a.type = "SESSION_OK" => HasOk
    /\ \A s \in Streams : \/ stream[s].st = "ok" /\ stream[s].acked
                          \/ stream[s].st = "session"
                          => HasOk

IInv == Typed /\ AcksAreOurs /\ Verifiers /\ OksAreReal /\ OkTaken

-----------------------------------------------------------------------------
(* The frames                                                                *)

LEMMA ServerFrames ==
    ASSUME NEW f \in FromServer
    PROVE  /\ f.utack = FALSE /\ f.type \in Types /\ f.seq \in Nat
           /\ f.type \in {"HELLO_RETRY", "CHALLENGE", "SESSION_OK"}
           /\ f.type = "HELLO_RETRY" => HelloCookie(f.body) \in FromClient
           /\ f.type = "CHALLENGE" => f.body[1] \in Streams
           /\ f.type = "SESSION_OK" => \E s \in Streams : f = SessionOk(ServerPsk, s)
<1>1. ASSUME NEW b \in Nat, f = HelloRetry(b)
      PROVE  /\ f.utack = FALSE /\ f.type = "HELLO_RETRY" /\ f.seq = 0
             /\ HelloCookie(f.body) \in FromClient
  <2>1. f.body = <<b>>
    BY <1>1 DEF HelloRetry, frame
  <2>2. HelloCookie(<<b>>) \in FromClient
    BY DEF FromClient
  <2>3. QED
    BY <1>1, <2>1, <2>2 DEF HelloRetry, frame
<1>2. ASSUME NEW s \in Streams, f = Challenge(s)
      PROVE  f.utack = FALSE /\ f.type = "CHALLENGE" /\ f.seq = 0 /\ f.body[1] \in Streams
  BY <1>2 DEF Challenge, frame
<1>3. ASSUME NEW s \in Streams, f = SessionOk(ServerPsk, s)
      PROVE  f.utack = FALSE /\ f.type = "SESSION_OK" /\ f.seq = 0
  BY <1>3 DEF SessionOk, frame
<1>4. \/ \E b \in Nat : f = HelloRetry(b)
      \/ \E s \in Streams : f = Challenge(s)
      \/ \E s \in Streams : f = SessionOk(ServerPsk, s)
  BY DEF FromServer
<1>5. /\ f.utack = FALSE /\ f.seq = 0
      /\ f.type \in {"HELLO_RETRY", "CHALLENGE", "SESSION_OK"}
      /\ f.type = "HELLO_RETRY" => HelloCookie(f.body) \in FromClient
      /\ f.type = "CHALLENGE" => f.body[1] \in Streams
  BY <1>1, <1>2, <1>3, <1>4
<1>6. f.type = "SESSION_OK" => \E s \in Streams : f = SessionOk(ServerPsk, s)
  BY <1>1, <1>2, <1>4
<1>7. QED
  BY <1>5, <1>6 DEF Types

LEMMA ClientFrames ==
    ASSUME NEW f \in FromClient
    PROVE  f.utack = FALSE /\ f.type \in Types /\ f.seq \in Nat
  BY DEF FromClient, Hello, HelloCookie, HelloAck, Data, frame, Types

LEMMA UtackTyped ==
    ASSUME NEW f, f.type \in Types, f.seq \in Nat
    PROVE  /\ utack(f, <<>>) \in Utacks
           /\ \A s \in Streams : utack(f, <<s>>) \in Utacks
           /\ \A key : utack(f, key).utack /\ utack(f, key).type = f.type
  BY DEF Utacks, utack

LEMMA KeysTyped ==
    ASSUME NEW s \in Streams, NEW f, f.type \in Types, f.seq \in Nat
    PROVE  utack(f, Keys(s)) \in Utacks
  BY UtackTyped DEF Keys

(* What a read from the wire or a buffer can be. *)
LEMMA ToClientFrames ==
    ASSUME Typed, NEW f \in toClient, ~f.utack PROVE f \in FromServer
  BY DEF Typed, Utacks

LEMMA ToServerFrames ==
    ASSUME Typed, NEW f \in toServer, ~f.utack PROVE f \in FromClient
  BY DEF Typed, Utacks

LEMMA InitIInv == Init => IInv
<1> SUFFICES ASSUME Init PROVE IInv
  OBVIOUS
<1>1. Hello \in FromClient /\ Hello.type = "HELLO" /\ ~Hello.utack /\ Hello.utack = FALSE
  BY DEF FromClient, Hello, frame
<1>2. Typed
  <2>1. client \in ClientStates
    BY <1>1 DEF Init, ClientStates, Phases, Sending
  <2>2. stream \in [Streams -> StreamStates]
    BY <1>1 DEF Init, Unused, StreamStates
  <2>3. QED
    BY <1>1, <2>1, <2>2 DEF Init, Typed, Unused, None
<1>3. AcksAreOurs
  BY <1>1 DEF Init, AcksAreOurs, OurAck, Unused
<1>4. Verifiers /\ OksAreReal
  BY <1>1 DEF Init, Verifiers, OksAreReal, RealOk, Unused, Established
<1>5. OkTaken
  BY <1>1 DEF Init, OkTaken, Unused
<1>6. QED
  BY <1>2, <1>3, <1>4, <1>5 DEF IInv

-----------------------------------------------------------------------------
(* The client                                                                *)

(* What every step of the client has in common, and what is left to show of  *)
(* each of them.                                                             *)
LEMMA ClientPreserves ==
    ASSUME IInv, ClientOnly, toClient' \subseteq toClient, client' \in ClientStates,
           toServer' \subseteq toServer \union Utacks \union {client'.out},
           client'.phase \in Early => client.phase \in Early,
           client.phase \notin Early => client'.peer = client.peer,
           OurAck(client.out)',
           \A i \in DOMAIN client'.buf : RealOk(client'.buf[i]),
           client'.phase \in Established => Partner,
           HasOk => HasOk',
           client'.last = "SESSION_OK" => HasOk',
           \A a \in toServer' : a.utack /\ a.type = "SESSION_OK" => a \in toServer \/ HasOk'
    PROVE  IInv'
<1>0. Typed /\ AcksAreOurs /\ Verifiers /\ OksAreReal /\ OkTaken
  BY DEF IInv
<1>1. UNCHANGED <<kind, psk, timely, bucket, stream, handshakes, sessions>>
  BY DEF ClientOnly, config
<1>2. Typed'
  BY <1>0, <1>1 DEF Typed, ClientStates
<1>3. AcksAreOurs'
  <2>1. \A f : OurAck(f) => OurAck(f)'
    BY <1>1 DEF OurAck
  <2>2. \A f \in Utacks : OurAck(f)'
    BY DEF OurAck, Utacks
  <2>3. QED
    BY <1>0, <1>1, <2>1, <2>2 DEF AcksAreOurs
<1>4. Verifiers'
  BY <1>0, <1>1 DEF Verifiers
<1>5. OksAreReal'
  <2>1. Partner => Partner'
    BY <1>1 DEF Partner
  <2>2. \A f : RealOk(f) => RealOk(f)'
    BY <1>1, <2>1 DEF RealOk, Partner
  <2>3. \A s \in Streams : RealOk(stream[s].out)'
    BY <1>0, <1>1, <2>2 DEF OksAreReal
  <2>4. QED
    BY <1>0, <1>1, <2>1, <2>2, <2>3 DEF OksAreReal
<1>6. OkTaken'
  BY <1>0, <1>1 DEF OkTaken
<1>7. QED
  BY <1>2, <1>3, <1>4, <1>5, <1>6 DEF IInv

(* Reading one frame, which is gone from the buffer of c. *)
LEMMA HandlePreserves ==
    ASSUME IInv, ClientOnly, toClient' \subseteq toClient,
           NEW c \in ClientStates, NEW f \in FromServer, NEW acks, Handle(c, f, acks),
           c.phase = client.phase, c.peer = client.peer, c.out = client.out,
           RealOk(f), \A i \in DOMAIN c.buf : RealOk(c.buf[i]),
           acks \subseteq Utacks,
           \A a \in acks : a.type = "SESSION_OK" => f.type = "SESSION_OK",
           c.last = "SESSION_OK" => f.type = "SESSION_OK" \/ HasOk,
           HasOk => \/ f.type = "SESSION_OK"
                    \/ kind = "python" /\ \E i \in DOMAIN c.buf : c.buf[i].type = "SESSION_OK"
    PROVE  IInv'
<1>0. Typed /\ AcksAreOurs /\ Verifiers /\ OksAreReal /\ OkTaken
  BY DEF IInv
<1>1. c.phase \in Waiting /\ UNCHANGED <<kind, psk>>
  BY DEF Handle, ClientOnly, config
<1>2. CASE f.type = "HELLO_RETRY" /\ f.type \in Expected[c.phase]
  <2>1. client' = [c EXCEPT !.phase = "cookie", !.out = HelloCookie(f.body), !.acked = FALSE]
        /\ toServer' = toServer \union acks \union {HelloCookie(f.body)}
    BY <1>2 DEF Handle, Write
  <2>2. client' \in ClientStates
    BY <2>1, <1>2, ServerFrames DEF ClientStates, Phases, Sending
  <2>3. client.phase = "await_challenge"
    BY <1>1, <1>2 DEF Waiting, Expected
  <2>4. HelloCookie(f.body).type = "HELLO" /\ ~HelloCookie(f.body).utack
    BY DEF HelloCookie, frame
  <2>5. /\ client'.phase = "cookie" /\ client'.peer = c.peer /\ client'.buf = c.buf
        /\ client'.last = c.last /\ client'.out = HelloCookie(f.body)
    BY <2>1 DEF ClientStates
  <2>6. HasOk => HasOk'
    BY <1>1, <1>2, <2>5 DEF HasOk
  <2>7. QED
    BY <1>0, <1>1, <1>2, <2>1, <2>2, <2>3, <2>4, <2>5, <2>6, ClientPreserves
       DEF OurAck, Early, Established
<1>3. CASE f.type = "CHALLENGE" /\ f.type \in Expected[c.phase]
  <2> DEFINE s == f.body[1]
  <2>1. client' = [c EXCEPT !.peer = s, !.phase = "ack", !.out = HelloAck(psk, s),
                            !.acked = FALSE]
        /\ toServer' = toServer \union acks \union {HelloAck(psk, s)}
    BY <1>3 DEF Handle, Write, ClientStates
  <2>2. s \in Streams /\ HelloAck(psk, s) \in FromClient
    <3>1. s \in Streams /\ psk \in Psks
      BY <1>0, <1>3, ServerFrames DEF Typed
    <3>2. QED
      BY <3>1 DEF FromClient
  <2>3. client' \in ClientStates
    BY <2>1, <2>2 DEF ClientStates, Phases, Sending
  <2>4. client.phase \in Early
    BY <1>1, <1>3 DEF Waiting, Expected, Early
  <2>5. /\ HelloAck(psk, s).type = "HELLO_ACK" /\ ~HelloAck(psk, s).utack
        /\ HelloAck(psk, s).body = <<psk, s>>
    BY DEF HelloAck, frame
  <2>6. client'.phase = "ack" /\ client'.peer = s /\ client'.out = HelloAck(psk, s)
        /\ client'.buf = c.buf /\ client'.last = c.last
    BY <2>1 DEF ClientStates
  <2>7. QED
    BY <1>0, <1>1, <1>3, <2>1, <2>3, <2>4, <2>5, <2>6, ClientPreserves
       DEF OurAck, Early, Established, HasOk
<1>4. CASE f.type = "SESSION_OK" /\ f.type \in Expected[c.phase]
  <2>1. Partner
    BY <1>4, ServerFrames DEF RealOk
  <2>2. /\ client' \in {[c EXCEPT !.phase = "established"],
                        [c EXCEPT !.phase = "failed", !.error = "auth"]}
        /\ toServer' = toServer \union acks
    BY <1>4 DEF Handle, Become
  <2>3. /\ client' \in ClientStates
        /\ client'.phase \in {"established", "failed"}
        /\ client'.peer = c.peer /\ client'.out = c.out /\ client'.buf = c.buf
    BY <2>2 DEF ClientStates, Phases, Established
  <2>4. client.phase \notin Early
    BY <2>1 DEF Partner
  <2>5. OurAck(client.out)'
    BY <1>0, <1>1, <2>3, <2>4 DEF AcksAreOurs, OurAck, Early
  <2>6. HasOk'
    BY <2>3 DEF HasOk, Established
  <2>7. QED
    BY <2>1, <2>2, <2>3, <2>4, <2>5, <2>6, ClientPreserves DEF Early
<1>5. CASE f.type \notin Expected[c.phase]
  <2>1. /\ client' = [c EXCEPT !.phase = "failed", !.error = "protocol"]
        /\ toServer' = toServer \union acks
    BY <1>5 DEF Handle, Become
  <2>2. /\ client' \in ClientStates /\ client'.phase = "failed"
        /\ client'.peer = c.peer /\ client'.out = c.out /\ client'.buf = c.buf
    BY <2>1 DEF ClientStates, Phases
  <2>3. OurAck(client.out)'
    BY <1>0, <1>1, <2>2 DEF AcksAreOurs, OurAck, Early
  <2>4. HasOk'
    BY <2>2 DEF HasOk
  <2>5. QED
    BY <2>1, <2>2, <2>3, <2>4, ClientPreserves DEF Early, Established
<1>6. QED
  BY <1>2, <1>3, <1>4, <1>5 DEF Handle
LEMMA TakenShrinks ==
    ASSUME NEW net, NEW d PROVE Taken(net, d) \subseteq net
  BY DEF Taken

(* A step that leaves the client where it is, or only its acked flag. *)
LEMMA WritePreserves ==
    ASSUME IInv, ClientOnly, toClient' \subseteq toClient, NEW b \in BOOLEAN,
           client' = [client EXCEPT !.acked = b],
           toServer' \subseteq toServer \union {client.out}
    PROVE  IInv'
<1>0. Typed /\ AcksAreOurs /\ OksAreReal /\ OkTaken
  BY DEF IInv
<1>1. /\ client' \in ClientStates /\ client'.phase = client.phase /\ client'.out = client.out
      /\ client'.peer = client.peer /\ client'.buf = client.buf /\ client'.last = client.last
  BY <1>0 DEF Typed, ClientStates
<1>2. UNCHANGED <<kind, psk>>
  BY DEF ClientOnly, config
<1>3. OurAck(client.out)'
  BY <1>0, <1>1, <1>2 DEF AcksAreOurs, OurAck
<1>4. HasOk = HasOk'
  BY <1>1, <1>2 DEF HasOk
<1>5. client.out.utack = FALSE
  BY <1>0, ClientFrames DEF Typed, ClientStates
<1>6. QED
  BY <1>0, <1>1, <1>3, <1>4, <1>5, ClientPreserves DEF OksAreReal, OkTaken

LEMMA ClientTaskPreserves == IInv /\ ClientTask => IInv'
<1> SUFFICES ASSUME IInv, ClientTask PROVE IInv'
  OBVIOUS
<1>0. Typed /\ AcksAreOurs /\ Verifiers /\ OksAreReal /\ OkTaken
  BY DEF IInv
<1>1. CASE ClientResumes
  <2>1. client.phase \in Sending /\ UNCHANGED <<kind, psk, toServer, toClient>> /\ ClientOnly
    BY <1>1 DEF ClientResumes, ClientOnly, config
  <2>2. client' = [client EXCEPT !.phase = AfterWrite[client.phase]]
    BY <1>1 DEF ClientResumes
  <2>3. /\ client' \in ClientStates /\ client'.phase = AfterWrite[client.phase]
        /\ client'.out = client.out /\ client'.peer = client.peer /\ client'.buf = client.buf
        /\ client'.last = client.last
    <3>1. AfterWrite[client.phase] \in Phases
      BY <2>1 DEF AfterWrite, Phases, Sending, Waiting, Established
    <3>2. client \in ClientStates
      BY <1>0 DEF Typed
    <3>3. QED
      BY <2>2, <3>1, <3>2 DEF ClientStates
  <2>4. /\ client'.phase \in Early <=> client.phase \in Early
        /\ client'.phase \in Established <=> client.phase \in Established
        /\ client'.phase # "failed" /\ client.phase # "failed"
    BY <2>1, <2>3 DEF AfterWrite, Sending, Early, Established
  <2>5. OurAck(client.out)' /\ HasOk = HasOk'
    BY <1>0, <2>1, <2>3, <2>4 DEF AcksAreOurs, OurAck, HasOk
  <2>6. QED
    BY <1>0, <2>1, <2>3, <2>4, <2>5, ClientPreserves DEF OksAreReal, OkTaken
<1>2. CASE PythonRead
  <2> DEFINE c == [client EXCEPT !.buf = Tail(@)]
             f == Head(client.buf)
  <2>1. kind = "python" /\ client.buf # <<>> /\ Handle(c, f, {}) /\ ClientOnly
        /\ UNCHANGED toClient
    BY <1>2 DEF PythonRead
  <2>2. client.buf \in Seq(FromServer)
    BY <1>0 DEF Typed, ClientStates
  <2>3. f \in FromServer /\ f = client.buf[1] /\ Tail(client.buf) \in Seq(FromServer)
    BY <2>1, <2>2
  <2>4. /\ c \in ClientStates /\ c.buf = Tail(client.buf) /\ c.phase = client.phase
        /\ c.peer = client.peer /\ c.out = client.out /\ c.last = client.last
    BY <1>0, <2>3 DEF Typed, ClientStates
  <2>5. /\ 1 \in DOMAIN client.buf
        /\ \A i \in DOMAIN c.buf : i + 1 \in DOMAIN client.buf /\ c.buf[i] = client.buf[i + 1]
        /\ \A i \in DOMAIN client.buf : i = 1 \/ (i - 1 \in DOMAIN c.buf
                                                  /\ client.buf[i] = c.buf[i - 1])
    BY <2>1, <2>2, <2>4
  <2>6. RealOk(f) /\ \A i \in DOMAIN c.buf : RealOk(c.buf[i])
    BY <1>0, <2>3, <2>5 DEF OksAreReal
  <2>7. client.phase \in Waiting
    BY <2>1, <2>4 DEF Handle
  <2>8. HasOk => \/ f.type = "SESSION_OK"
                 \/ kind = "python" /\ \E i \in DOMAIN c.buf : c.buf[i].type = "SESSION_OK"
    BY <2>1, <2>3, <2>5, <2>7 DEF HasOk, Waiting, Established
  <2>9. c.last = "SESSION_OK" => HasOk
    BY <1>0, <2>4 DEF OkTaken
  <2>10. QED
    <3> DEFINE acks == {}
    <3>1. acks \subseteq Utacks /\ \A a \in acks : a.type = "SESSION_OK" => f.type = "SESSION_OK"
      OBVIOUS
    <3>2. Handle(c, f, acks) /\ toClient' \subseteq toClient
      BY <2>1
    <3>3. c.last = "SESSION_OK" => f.type = "SESSION_OK" \/ HasOk
      BY <2>9
    <3> HIDE DEF c, f, acks
    <3>4. QED
      BY <2>1, <2>3, <2>4, <2>6, <2>8, <3>1, <3>2, <3>3, HandlePreserves, Zenon
<1>3. CASE StartData
  <2>1. /\ client.phase = "established" /\ ClientOnly /\ UNCHANGED toClient
        /\ client' = [client EXCEPT !.phase = "data", !.out = Data(client.peer), !.acked = FALSE]
        /\ toServer' = toServer \union {Data(client.peer)}
    BY <1>3 DEF StartData, Write
  <2>2. Data(client.peer) \in FromClient
    BY <1>0 DEF Typed, ClientStates, FromClient
  <2>3. /\ client' \in ClientStates /\ client'.phase = "data"
        /\ client'.out = Data(client.peer)
        /\ client'.peer = client.peer /\ client'.buf = client.buf /\ client'.last = client.last
    BY <1>0, <2>1, <2>2 DEF Typed, ClientStates, Phases, Sending
  <2>4. Data(client.peer).type = "DATA" /\ ~Data(client.peer).utack
    BY DEF Data, frame
  <2>5. HasOk' /\ OurAck(client.out)'
    BY <2>3, <2>4 DEF HasOk, Established, OurAck
  <2>6. QED
    BY <1>0, <2>1, <2>3, <2>4, <2>5, ClientPreserves DEF Early, Established, OksAreReal
<1>4. QED
  BY <1>1, <1>2, <1>3 DEF ClientTask
LEMMA ClientRetransmitPreserves == IInv /\ ClientRetransmit => IInv'
<1> SUFFICES ASSUME IInv, ClientRetransmit PROVE IInv'
  OBVIOUS
<1>1. /\ ClientOnly /\ client' = client /\ UNCHANGED toClient
      /\ toServer' = toServer \union {client.out}
  BY DEF ClientRetransmit
<1>2. client.acked \in BOOLEAN /\ client' = [client EXCEPT !.acked = client.acked]
  BY <1>1 DEF IInv, Typed, ClientStates
<1>3. QED
  BY <1>1, <1>2, WritePreserves

LEMMA ClientUtackPreserves ==
    ASSUME IInv, NEW a, ClientUtack(a) PROVE IInv'
<1>1. /\ ClientOnly /\ toClient' \subseteq toClient /\ toServer' = toServer
      /\ client' \in {client, [client EXCEPT !.acked = TRUE]}
  BY TakenShrinks DEF ClientUtack
<1>2. \E b \in BOOLEAN : client' = [client EXCEPT !.acked = b]
  BY <1>1 DEF IInv, Typed, ClientStates
<1>3. QED
  BY <1>1, <1>2, WritePreserves

LEMMA ClientGivesUpPreserves == IInv /\ ClientGivesUp => IInv'
<1> SUFFICES ASSUME IInv, ClientGivesUp PROVE IInv'
  OBVIOUS
<1>0. Typed /\ AcksAreOurs /\ OksAreReal /\ OkTaken
  BY DEF IInv
<1>1. /\ ClientOnly /\ UNCHANGED <<kind, psk, toServer, toClient>>
      /\ client' = [client EXCEPT !.phase = "failed", !.error = "transport"]
  BY DEF ClientGivesUp, ClientOnly, config
<1>2. /\ client' \in ClientStates /\ client'.phase = "failed" /\ client'.out = client.out
      /\ client'.peer = client.peer /\ client'.buf = client.buf /\ client'.last = client.last
  BY <1>0, <1>1 DEF Typed, ClientStates, Phases
<1>3. OurAck(client.out)' /\ HasOk'
  BY <1>0, <1>1, <1>2 DEF AcksAreOurs, OurAck, HasOk, Early
<1>4. QED
  BY <1>0, <1>1, <1>2, <1>3, ClientPreserves DEF Early, Established, OksAreReal

LEMMA PythonFeedPreserves ==
    ASSUME IInv, NEW f, PythonFeed(f) PROVE IInv'
<1>0. Typed /\ AcksAreOurs /\ OksAreReal /\ OkTaken
  BY DEF IInv
<1>1. /\ kind = "python" /\ client.phase # "failed" /\ f \in toClient /\ ~f.utack /\ ClientOnly
      /\ toClient' \subseteq toClient /\ toServer' = toServer \union {utack(f, <<>>)}
      /\ UNCHANGED <<kind, psk>>
  BY TakenShrinks DEF PythonFeed, Become, ClientOnly, config
<1>2. f \in FromServer /\ f.type \in Types /\ f.seq \in Nat
  BY <1>0, <1>1, ToClientFrames, ServerFrames
<1>3. utack(f, <<>>) \in Utacks /\ utack(f, <<>>).type = f.type
  BY <1>2, UtackTyped
<1>4. CASE IsDuplicate(f.type, client.last, FALSE)
  <2>1. client' = client
    BY <1>4 DEF PythonFeed, Become
  <2>2. f.type = "SESSION_OK" => HasOk
    BY <1>0, <1>4 DEF IsDuplicate, OkTaken
  <2>3. OurAck(client.out)' /\ HasOk = HasOk'
    BY <1>0, <1>1, <2>1 DEF AcksAreOurs, OurAck, HasOk
  <2>4. QED
    BY <1>0, <1>1, <1>3, <2>1, <2>2, <2>3, ClientPreserves DEF OksAreReal, OkTaken, Typed
<1>5. CASE ~IsDuplicate(f.type, client.last, FALSE)
  <2>1. client' = [client EXCEPT !.last = f.type, !.buf = Append(@, f)]
    BY <1>5 DEF PythonFeed, Become
  <2>2. client.buf \in Seq(FromServer)
    BY <1>0 DEF Typed, ClientStates
  <2>3. /\ client' \in ClientStates /\ client'.phase = client.phase /\ client'.out = client.out
        /\ client'.peer = client.peer /\ client'.last = f.type
        /\ client'.buf = Append(client.buf, f)
    <3>1. Append(client.buf, f) \in Seq(FromServer)
      BY <1>2, <2>2
    <3>2. QED
      BY <1>0, <1>2, <2>1, <3>1 DEF Typed, ClientStates
  <2>4. /\ \A i \in DOMAIN client.buf : i \in DOMAIN client'.buf /\ client'.buf[i] = client.buf[i]
        /\ \A i \in DOMAIN client'.buf : client'.buf[i] = f
            \/ (i \in DOMAIN client.buf /\ client'.buf[i] = client.buf[i])
        /\ \E i \in DOMAIN client'.buf : client'.buf[i] = f
    BY <1>2, <2>2, <2>3
  <2>5. \A i \in DOMAIN client'.buf : RealOk(client'.buf[i])
    BY <1>0, <1>1, <2>4 DEF OksAreReal
  <2>6. (HasOk => HasOk') /\ (f.type = "SESSION_OK" => HasOk')
    BY <1>1, <2>3, <2>4 DEF HasOk
  <2>7. OurAck(client.out)'
    BY <1>0, <1>1, <2>3 DEF AcksAreOurs, OurAck
  <2>8. QED
    BY <1>0, <1>1, <1>3, <2>3, <2>5, <2>6, <2>7, ClientPreserves DEF OksAreReal
<1>6. QED
  BY <1>4, <1>5

LEMMA CPutAsidePreserves ==
    ASSUME IInv, NEW f, CPutAside(f) PROVE IInv'
<1>0. Typed /\ AcksAreOurs /\ OksAreReal /\ OkTaken
  BY DEF IInv
<1>1. /\ kind = "c" /\ f \in toClient /\ ~f.utack /\ ClientOnly
      /\ toClient' \subseteq toClient /\ toServer' = toServer
      /\ UNCHANGED <<kind, psk>>
      /\ client' \in {client, [client EXCEPT !.buf = <<f>>]}
  BY TakenShrinks DEF CPutAside, ClientOnly, config
<1>2. f \in FromServer /\ RealOk(f)
  BY <1>0, <1>1, ToClientFrames DEF OksAreReal
<1>3. /\ client' \in ClientStates /\ client'.phase = client.phase /\ client'.out = client.out
      /\ client'.peer = client.peer /\ client'.last = client.last
      /\ client'.buf \in {client.buf, <<f>>}
  <2>1. <<f>> \in Seq(FromServer)
    BY <1>2
  <2>2. QED
    BY <1>0, <1>1, <2>1 DEF Typed, ClientStates
<1>4. \A i \in DOMAIN client'.buf : RealOk(client'.buf[i])
  BY <1>0, <1>2, <1>3 DEF OksAreReal
<1>5. OurAck(client.out)' /\ HasOk = HasOk'
  BY <1>0, <1>1, <1>3 DEF AcksAreOurs, OurAck, HasOk
<1>6. QED
  BY <1>0, <1>1, <1>3, <1>4, <1>5, ClientPreserves DEF OksAreReal, OkTaken

LEMMA CReadPreserves ==
    ASSUME IInv, NEW f, CRead(f), f \in toClient \/ \E i \in DOMAIN client.buf : f = client.buf[i]
    PROVE  IInv'
<1> DEFINE c == [client EXCEPT !.buf = <<>>]
           acks == {utack(f, <<>>)}
<1>0. Typed /\ AcksAreOurs /\ OksAreReal /\ OkTaken
  BY DEF IInv
<1>1. /\ kind = "c" /\ client.phase \in Waiting \union {"established", "sent"} /\ ClientOnly
      /\ toClient' \subseteq toClient /\ UNCHANGED <<kind, psk>>
  BY TakenShrinks DEF CRead, ClientOnly, config
<1>2. f \in FromServer /\ RealOk(f)
  <2>1. client.buf \in Seq(FromServer)
    BY <1>0 DEF Typed, ClientStates
  <2>2. CASE client.buf # <<>>
    <3>1. f = client.buf[1] /\ 1 \in DOMAIN client.buf
      BY <2>1, <2>2 DEF CRead
    <3>2. QED
      BY <1>0, <2>1, <3>1 DEF OksAreReal
  <2>3. CASE client.buf = <<>>
    <3>1. f \in toClient /\ ~f.utack
      BY <2>3 DEF CRead
    <3>2. QED
      BY <1>0, <3>1, ToClientFrames DEF OksAreReal
  <2>4. QED
    BY <2>2, <2>3
<1>3. acks \subseteq Utacks /\ \A a \in acks : a.type = f.type
  <2>1. utack(f, <<>>) \in Utacks /\ utack(f, <<>>).type = f.type
    BY <1>2, ServerFrames, UtackTyped
  <2>2. QED
    BY <2>1, Zenon
<1>4. /\ c \in ClientStates /\ c.phase = client.phase /\ c.out = client.out
      /\ c.peer = client.peer /\ c.last = client.last /\ c.buf = <<>>
  <2>1. <<>> \in Seq(FromServer)
    OBVIOUS
  <2>2. QED
    BY <1>0, <2>1 DEF Typed, ClientStates
<1>5. CASE IsDuplicate(f.type, client.last, FALSE)
  <2>1. client' = c /\ toServer' = toServer \union acks
    BY <1>5 DEF CRead, Become
  <2>2. f.type = "SESSION_OK" => HasOk
    BY <1>0, <1>5 DEF IsDuplicate, OkTaken
  <2>3. OurAck(client.out)' /\ HasOk = HasOk'
    BY <1>0, <1>1, <1>4, <2>1 DEF AcksAreOurs, OurAck, HasOk
  <2>4. \A i \in DOMAIN client'.buf : RealOk(client'.buf[i])
    BY <1>4, <2>1
  <2>5. QED
    <3> HIDE DEF c, acks
    <3>1. QED
      BY <1>0, <1>1, <1>3, <1>4, <2>1, <2>2, <2>3, <2>4, ClientPreserves DEF OksAreReal, OkTaken
<1>6. CASE ~IsDuplicate(f.type, client.last, FALSE)
  <2> DEFINE d == [c EXCEPT !.last = f.type]
  <2>1. Handle(d, f, acks)
    BY <1>6 DEF CRead
  <2>2. /\ d \in ClientStates /\ d.phase = client.phase /\ d.out = client.out
        /\ d.peer = client.peer /\ d.last = f.type /\ d.buf = <<>>
    <3>1. f.type \in Types
      BY <1>2, ServerFrames
    <3>2. QED
      BY <1>4, <3>1 DEF ClientStates
  <2>3. client.phase \in Waiting
    BY <2>1, <2>2 DEF Handle
  <2>4. ~HasOk
    BY <1>1, <2>3 DEF HasOk, Waiting, Established
  <2>5. /\ \A i \in DOMAIN d.buf : RealOk(d.buf[i])
        /\ \A a \in acks : a.type = "SESSION_OK" => f.type = "SESSION_OK"
        /\ d.last = "SESSION_OK" => f.type = "SESSION_OK" \/ HasOk
        /\ HasOk => \/ f.type = "SESSION_OK"
                    \/ kind = "python" /\ \E i \in DOMAIN d.buf : d.buf[i].type = "SESSION_OK"
    BY <1>3, <2>2, <2>4
  <2>6. QED
    <3> HIDE DEF c, d, acks
    <3>1. QED
      BY <1>1, <1>2, <1>3, <2>1, <2>2, <2>5, HandlePreserves, Zenon
<1>7. QED
  BY <1>5, <1>6

LEMMA ToClientPreserves ==
    ASSUME IInv, NEW t, ToClient(t) PROVE IInv'
<1>1. CASE \E d \in toClient : ClientUtack(d) \/ PythonFeed(d) \/ CPutAside(d)
  BY <1>1, ClientUtackPreserves, PythonFeedPreserves, CPutAsidePreserves
<1>2. CASE \E d \in toClient \union {client.buf[i] : i \in DOMAIN client.buf} : CRead(d)
  BY <1>2, CReadPreserves
<1>3. QED
  BY <1>1, <1>2 DEF ToClient
-----------------------------------------------------------------------------
(* The server and the network                                                *)

PastVerification == {"ok", "session", "gone"}

(* What the invariant says of stream s, if r is its record. *)
Good(s, r) ==
    /\ r \in StreamStates
    /\ r.st = "hello" => r.buf # <<>>
    /\ r.st \in {"challenge", "ok"} => r.out \in FromServer
    /\ \A i \in DOMAIN r.buf : OurAck(r.buf[i])
    /\ r.st \in {"ok", "session"} =>
           /\ psk = ServerPsk /\ client.peer = s /\ client.phase \notin Early
           /\ r.out = SessionOk(ServerPsk, s)
    /\ r.st = "session" \/ (r.st = "ok" /\ r.acked) => HasOk

LEMMA StreamsAreGood == ASSUME IInv, NEW s \in Streams PROVE Good(s, stream[s])
<1>1. Typed /\ AcksAreOurs /\ Verifiers /\ OkTaken
  BY DEF IInv
<1>2. stream[s] \in StreamStates
  BY <1>1 DEF Typed
<1>3. \A i \in DOMAIN stream[s].buf : OurAck(stream[s].buf[i])
  BY <1>1 DEF AcksAreOurs
<1>4. /\ stream[s].st = "hello" => stream[s].buf # <<>>
      /\ stream[s].st \in {"challenge", "ok"} => stream[s].out \in FromServer
  BY <1>1, Zenon DEF Typed
<1>5. stream[s].st \in {"ok", "session"} =>
         /\ psk = ServerPsk /\ client.peer = s /\ client.phase \notin Early
         /\ stream[s].out = SessionOk(ServerPsk, s)
  BY <1>1 DEF Verifiers
<1>6. stream[s].st = "session" \/ (stream[s].st = "ok" /\ stream[s].acked) => HasOk
  BY <1>1, Zenon DEF OkTaken
<1>7. QED
  BY <1>2, <1>3, <1>4, <1>5, <1>6, Zenon DEF Good

(* What every step of theirs has in common, and what is left to show of each *)
LEMMA ServerPreserves ==
    ASSUME IInv, UNCHANGED <<kind, psk, client>>, bucket' \in Nat, toServer' \subseteq toServer,
           stream' \in [Streams -> StreamStates],
           handshakes' \in Streams \union {None}, sessions' \in Streams \union {None},
           toClient' \subseteq FromServer \union Utacks,
           \A s \in Streams : Good(s, stream'[s]),
           \A s \in Streams :
              stream[s].st \in PastVerification => stream'[s].st \in PastVerification,
           \A s \in Streams : stream'[s].out = stream[s].out \/ RealOk(stream[s].out)',
           \A f \in toClient' : f \in toClient \/ RealOk(f)'
    PROVE  IInv'
<1>0. Typed /\ AcksAreOurs /\ OksAreReal /\ OkTaken
  BY DEF IInv
<1>1. Typed'
  BY <1>0 DEF Typed, Good
<1>2. AcksAreOurs'
  <2>1. \A f : OurAck(f) => OurAck(f)'
    BY DEF OurAck
  <2>2. \A s \in Streams : \A i \in DOMAIN stream'[s].buf : OurAck(stream'[s].buf[i])
    BY DEF Good
  <2>3. QED
    BY <1>0, <2>1, <2>2 DEF AcksAreOurs
<1>3. Verifiers'
  BY DEF Verifiers, Good
<1>4. OksAreReal'
  <2>1. Partner => Partner'
    BY DEF Partner, PastVerification
  <2>2. \A f : RealOk(f) => RealOk(f)'
    BY <2>1 DEF RealOk
  <2>3. \A s \in Streams : RealOk(stream[s].out)'
    BY <1>0, <2>2 DEF OksAreReal
  <2>4. QED
    BY <1>0, <2>1, <2>2, <2>3 DEF OksAreReal
<1>5. OkTaken'
  <2>1. HasOk = HasOk'
    BY DEF HasOk
  <2>2. QED
    BY <1>0, <2>1 DEF OkTaken, Good
<1>6. QED
  BY <1>1, <1>2, <1>3, <1>4, <1>5 DEF IInv

(* A step that makes the record of stream s r. *)
LEMMA OneStreamPreserves ==
    ASSUME IInv, ServerOnly, toServer' \subseteq toServer, NEW s \in Streams, NEW r,
           stream' = [stream EXCEPT ![s] = r],
           handshakes' \in Streams \union {None}, sessions' = sessions,
           toClient' \subseteq FromServer \union Utacks,
           Good(s, r),
           stream[s].st \in PastVerification => r.st \in PastVerification,
           r.out = stream[s].out \/ RealOk(stream[s].out)',
           \A f \in toClient' : f \in toClient \/ RealOk(f)'
    PROVE  IInv'
<1>0. Typed
  BY DEF IInv
<1>1. UNCHANGED <<kind, psk, client>> /\ bucket' \in Nat /\ sessions' \in Streams \union {None}
  BY <1>0 DEF ServerOnly, config, Typed
<1>2. stream' \in [Streams -> StreamStates] /\ stream'[s] = r
      /\ \A q \in Streams \ {s} : stream'[q] = stream[q]
  BY <1>0 DEF Typed, Good
<1>3. \A q \in Streams : Good(q, stream'[q])
  BY <1>2, StreamsAreGood
<1>4. QED
  BY <1>1, <1>2, <1>3, ServerPreserves

(* One that changes no stream. *)
LEMMA NoStreamPreserves ==
    ASSUME IInv, UNCHANGED <<kind, psk, client, stream, handshakes, sessions>>, bucket' \in Nat,
           toServer' \subseteq toServer, toClient' \subseteq FromServer \union Utacks,
           \A f \in toClient' : f \in toClient \/ RealOk(f)'
    PROVE  IInv'
<1>0. Typed
  BY DEF IInv
<1>1. /\ stream' \in [Streams -> StreamStates] /\ stream' = stream
      /\ handshakes' \in Streams \union {None} /\ sessions' \in Streams \union {None}
  BY <1>0 DEF Typed
<1>2. \A s \in Streams : Good(s, stream'[s])
  BY <1>1, StreamsAreGood
<1>3. QED
  BY <1>1, <1>2, ServerPreserves
LEMMA LosePreserves == IInv /\ Lose => IInv'
<1> SUFFICES ASSUME IInv, Lose PROVE IInv'
  OBVIOUS
<1>1. /\ UNCHANGED <<kind, psk, client, stream, handshakes, sessions, bucket>>
      /\ toServer' \subseteq toServer /\ toClient' \subseteq toClient
  BY DEF Lose, config
<1>2. QED
  BY <1>1, NoStreamPreserves DEF IInv, Typed

LEMMA TickPreserves == IInv /\ Tick => IInv'
<1> SUFFICES ASSUME IInv, Tick PROVE IInv'
  OBVIOUS
<1>1. /\ UNCHANGED <<kind, psk, client, stream, handshakes, sessions, toServer, toClient>>
      /\ bucket' = bucket + 1
  BY DEF Tick, config
<1>2. QED
  BY <1>1, NoStreamPreserves DEF IInv, Typed

LEMMA HelloArrivesPreserves ==
    ASSUME IInv, NEW f, HelloArrives(f) PROVE IInv'
<1>0. Typed /\ AcksAreOurs
  BY DEF IInv
<1>1. /\ f \in toServer /\ f.type = "HELLO" /\ ~f.utack /\ toServer' \subseteq toServer
      /\ UNCHANGED sessions /\ ServerOnly
  BY TakenShrinks DEF HelloArrives
<1>2. f \in FromClient /\ OurAck(f) /\ utack(f, <<>>) \in Utacks /\ utack(f, <<>>).utack
  BY <1>0, <1>1, ToServerFrames, ClientFrames, UtackTyped DEF AcksAreOurs
<1>3. UNCHANGED <<kind, psk, client, bucket>> /\ bucket' \in Nat
  BY <1>0, <1>1 DEF ServerOnly, config, Typed
<1>4. CASE /\ toClient' = toClient \union {utack(f, <<>>), HelloRetry(bucket)}
           /\ UNCHANGED <<stream, handshakes>>
  <2>1. HelloRetry(bucket) \in FromServer /\ HelloRetry(bucket).type = "HELLO_RETRY"
    BY <1>0 DEF Typed, FromServer, HelloRetry, frame
  <2>2. toClient' \subseteq FromServer \union Utacks
    BY <1>0, <1>2, <1>4, <2>1 DEF Typed
  <2>3. \A d \in toClient' : d \in toClient \/ RealOk(d)'
    BY <1>2, <1>4, <2>1 DEF RealOk
  <2>4. QED
    BY <1>1, <1>3, <1>4, <2>2, <2>3, NoStreamPreserves
<1>5. ASSUME NEW s \in Streams, stream[s].st = "unused",
             stream' = [stream EXCEPT ![s] = [Unused EXCEPT !.st = "hello", !.buf = <<f>>,
                                                            !.last = "HELLO"]],
             handshakes' = s, toClient' = toClient \union {utack(f, <<>>)}
      PROVE  IInv'
  <2> DEFINE r == [Unused EXCEPT !.st = "hello", !.buf = <<f>>, !.last = "HELLO"]
  <2>1. Hello.type = "HELLO" /\ Hello \in FromServer \union {Hello}
    BY DEF Hello, frame
  <2>2. <<f>> \in Seq(FromClient)
    BY <1>2
  <2>3. r.st = "hello" /\ r.buf = <<f>> /\ r.out = Hello /\ r \in StreamStates
    BY <2>1, <2>2 DEF Unused, StreamStates, Types
  <2>4. Good(s, r)
    BY <1>2, <2>3 DEF Good
  <2>5. RealOk(stream[s].out)'
    BY <1>0, <1>5, <2>1, <2>3 DEF RealOk, Typed
  <2>6. /\ toClient' \subseteq FromServer \union Utacks
        /\ \A d \in toClient' : d \in toClient \/ RealOk(d)'
    BY <1>0, <1>2, <1>5 DEF Typed, RealOk
  <2>7. stream' = [stream EXCEPT ![s] = r] /\ handshakes' \in Streams \union {None}
    BY <1>5
  <2>8. QED
    <3> HIDE DEF r
    <3>1. QED
      BY <1>1, <1>5, <2>4, <2>5, <2>6, <2>7, OneStreamPreserves DEF PastVerification
<1>6. CASE UNCHANGED <<stream, handshakes, toClient>>
  BY <1>0, <1>1, <1>3, <1>6, NoStreamPreserves DEF Typed
<1>7. QED
  BY <1>4, <1>5, <1>6 DEF HelloArrives

(* What stream s makes of a frame. *)
LEMMA FeedPreserves ==
    ASSUME IInv, ServerOnly, toServer' \subseteq toServer, NEW f \in FromClient, OurAck(f),
           NEW s \in Streams, Feed(s, f), UNCHANGED <<handshakes, sessions>>
    PROVE  IInv'
<1>0. Typed
  BY DEF IInv
<1>1. UNCHANGED <<kind, psk, client, bucket>> /\ bucket' \in Nat
      /\ handshakes' \in Streams \union {None}
  BY <1>0 DEF ServerOnly, config, Typed
<1>2. utack(f, Keys(s)) \in Utacks /\ utack(f, Keys(s)).utack /\ f.type \in Types
  BY ClientFrames, KeysTyped, UtackTyped
<1>3. toClient' = toClient \union {utack(f, Keys(s))}
  BY DEF Feed
<1>4. /\ toClient' \subseteq FromServer \union Utacks
      /\ \A d \in toClient' : d \in toClient \/ RealOk(d)'
  BY <1>0, <1>2, <1>3 DEF Typed, RealOk
<1>5. CASE stream' = stream
  BY <1>1, <1>4, <1>5, NoStreamPreserves
<1>6. CASE stream' = [stream EXCEPT ![s].buf = Append(@, f),
                                    ![s].last = IF f.type = "DATA" THEN @ ELSE f.type]
  <2> DEFINE r == [stream[s] EXCEPT !.buf = Append(@, f),
                                    !.last = IF f.type = "DATA" THEN @ ELSE f.type]
  <2>1. stream' = [stream EXCEPT ![s] = r]
    BY <1>0, <1>6 DEF Typed, StreamStates
  <2>2. Good(s, stream[s]) /\ stream[s].buf \in Seq(FromClient) /\ stream[s] \in StreamStates
    BY StreamsAreGood DEF Good, StreamStates
  <2>3. Append(stream[s].buf, f) \in Seq(FromClient) /\ Append(stream[s].buf, f) # <<>>
    BY <2>2
  <2>4. /\ r \in StreamStates /\ r.st = stream[s].st /\ r.out = stream[s].out
        /\ r.acked = stream[s].acked /\ r.buf = Append(stream[s].buf, f)
    BY <1>2, <2>2, <2>3 DEF StreamStates
  <2>5. \A i \in DOMAIN r.buf : r.buf[i] = f \/ (i \in DOMAIN stream[s].buf
                                              /\ r.buf[i] = stream[s].buf[i])
    BY <2>2, <2>4
  <2>6. \A i \in DOMAIN r.buf : OurAck(r.buf[i])
    BY <2>2, <2>5 DEF Good
  <2>7. Good(s, r)
    <3> HIDE DEF r
    <3>1. QED
      BY <2>2, <2>3, <2>4, <2>6 DEF Good
  <2>8. QED
    <3> HIDE DEF r
    <3>1. QED
      BY <1>1, <1>4, <2>1, <2>4, <2>7, OneStreamPreserves
<1>7. QED
  BY <1>5, <1>6 DEF Feed

LEMMA FrameArrivesPreserves ==
    ASSUME IInv, NEW f, FrameArrives(f) PROVE IInv'
<1>0. Typed /\ AcksAreOurs
  BY DEF IInv
<1>1. /\ f \in toServer /\ ~f.utack /\ toServer' \subseteq toServer
      /\ UNCHANGED <<handshakes, sessions>> /\ ServerOnly
  BY TakenShrinks DEF FrameArrives
<1>2. f \in FromClient /\ OurAck(f)
  BY <1>0, <1>1, ToServerFrames DEF AcksAreOurs
<1>3. CASE Route(f.type) = None
  <2>1. UNCHANGED <<kind, psk, client, bucket, stream, toClient>> /\ bucket' \in Nat
    BY <1>0, <1>1, <1>3 DEF FrameArrives, ServerOnly, config, Typed
  <2>2. QED
    BY <1>0, <1>1, <2>1, NoStreamPreserves DEF Typed
<1>4. CASE Route(f.type) # None
  <2>1. Route(f.type) \in Streams /\ Feed(Route(f.type), f)
    BY <1>0, <1>4 DEF FrameArrives, Route, Typed
  <2>2. QED
    BY <1>1, <1>2, <2>1, FeedPreserves
<1>5. QED
  BY <1>3, <1>4
LEMMA ServerUtackPreserves ==
    ASSUME IInv, NEW a, ServerUtack(a) PROVE IInv'
<1> DEFINE s == Route(a.type)
<1>0. Typed /\ OkTaken
  BY DEF IInv
<1>1. /\ a \in toServer /\ a.utack /\ toServer' \subseteq toServer
      /\ UNCHANGED <<handshakes, sessions, toClient>> /\ ServerOnly
  BY TakenShrinks DEF ServerUtack
<1>2. UNCHANGED <<kind, psk, client, bucket>> /\ bucket' \in Nat
      /\ handshakes' \in Streams \union {None} /\ toClient' \subseteq FromServer \union Utacks
  BY <1>0, <1>1 DEF ServerOnly, config, Typed
<1>3. CASE stream' = stream
  BY <1>1, <1>2, <1>3, NoStreamPreserves
<1>4. CASE /\ s # None /\ stream[s].st \in {"challenge", "ok"} /\ Names(a, stream[s].out)
           /\ stream' = [stream EXCEPT ![s].acked = TRUE]
  <2> DEFINE r == [stream[s] EXCEPT !.acked = TRUE]
  <2>1. s \in Streams
    BY <1>0, <1>4 DEF Route, Typed
  <2>2. Good(s, stream[s]) /\ stream[s] \in StreamStates
    BY <2>1, StreamsAreGood DEF Good
  <2>3. stream' = [stream EXCEPT ![s] = r]
    BY <1>0, <1>4, <2>1 DEF Typed, StreamStates
  <2>4. /\ r \in StreamStates /\ r.st = stream[s].st /\ r.out = stream[s].out
        /\ r.buf = stream[s].buf
    BY <2>2 DEF StreamStates
  <2>5. r.st = "ok" => HasOk
    <3>1. SUFFICES ASSUME stream[s].st = "ok" PROVE HasOk
      BY <2>4
    <3>2. stream[s].out = SessionOk(ServerPsk, s)
      BY <2>2, <3>1 DEF Good
    <3>3. a.type = "SESSION_OK"
      BY <1>4, <3>2 DEF Names, SessionOk, frame
    <3>4. QED
      BY <1>0, <1>1, <3>3 DEF OkTaken
  <2>6. Good(s, r)
    <3> HIDE DEF r, s
    <3>1. QED
      BY <2>2, <2>4, <2>5 DEF Good
  <2>7. QED
    <3> HIDE DEF r, s
    <3>1. QED
      BY <1>1, <1>2, <2>1, <2>3, <2>4, <2>6, OneStreamPreserves
<1>5. QED
  BY <1>3, <1>4 DEF ServerUtack

LEMMA ToServerPreserves ==
    ASSUME IInv, NEW t, ToServer(t) PROVE IInv'
  BY HelloArrivesPreserves, FrameArrivesPreserves, ServerUtackPreserves DEF ToServer

(* Reading one frame and writing f. *)
LEMMA SendsPreserves ==
    ASSUME IInv, ServerOnly, UNCHANGED <<handshakes, sessions, toServer>>, NEW s \in Streams,
           stream[s].buf # <<>>, stream[s].st \notin PastVerification,
           NEW st \in {"challenge", "ok"},
           NEW f \in FromServer, ServerSends(s, st, f), RealOk(f)',
           st = "ok" => /\ psk = ServerPsk /\ client.peer = s /\ client.phase \notin Early
                        /\ f = SessionOk(ServerPsk, s)
    PROVE  IInv'
<1> DEFINE r == [stream[s] EXCEPT !.st = st, !.out = f, !.acked = FALSE, !.buf = Tail(@)]
<1>0. Typed
  BY DEF IInv
<1>1. stream' = [stream EXCEPT ![s] = r] /\ toClient' = toClient \union {f}
  BY <1>0 DEF ServerSends, Typed, StreamStates
<1>2. Good(s, stream[s]) /\ stream[s] \in StreamStates /\ stream[s].buf \in Seq(FromClient)
  BY StreamsAreGood DEF Good, StreamStates
<1>3. Tail(stream[s].buf) \in Seq(FromClient)
  BY <1>2
<1>4. /\ r \in StreamStates /\ r.st = st /\ r.out = f /\ r.acked = FALSE
      /\ r.buf = Tail(stream[s].buf)
  BY <1>2, <1>3 DEF StreamStates
<1>5. \A i \in DOMAIN r.buf : i + 1 \in DOMAIN stream[s].buf /\ r.buf[i] = stream[s].buf[i + 1]
  BY <1>2, <1>4
<1>6. \A i \in DOMAIN r.buf : OurAck(r.buf[i])
  BY <1>2, <1>5 DEF Good
<1>7. Good(s, r)
  <2> HIDE DEF r
  <2>1. QED
    BY <1>4, <1>6 DEF Good
<1>8. RealOk(stream[s].out)' /\ toClient' \subseteq FromServer \union Utacks
      /\ \A d \in toClient' : d \in toClient \/ RealOk(d)'
  <2>1. stream'[s].out = f
    BY <1>0, <1>1, <1>4 DEF Typed
  <2>2. RealOk(stream[s].out)'
    BY <2>1 DEF RealOk
  <2>3. QED
    BY <1>0, <1>1, <2>2 DEF Typed
<1>9. handshakes' \in Streams \union {None}
  BY <1>0 DEF Typed
<1>10. QED
  <2> HIDE DEF r
  <2>1. QED
    BY <1>1, <1>7, <1>8, <1>9, OneStreamPreserves

(* The stream is done with: it leaves the table. *)
LEMMA DropPreserves ==
    ASSUME IInv, ServerOnly, UNCHANGED <<sessions, toServer, toClient>>, NEW s \in Streams, Drop(s)
    PROVE  IInv'
<1> DEFINE r == [stream[s] EXCEPT !.st = "gone"]
<1>0. Typed
  BY DEF IInv
<1>1. stream' = [stream EXCEPT ![s] = r] /\ handshakes' \in Streams \union {None}
  BY <1>0 DEF Drop, Typed, StreamStates
<1>2. Good(s, stream[s]) /\ stream[s] \in StreamStates
  BY StreamsAreGood DEF Good
<1>3. /\ r \in StreamStates /\ r.st = "gone" /\ r.out = stream[s].out
      /\ r.buf = stream[s].buf
  BY <1>2 DEF StreamStates
<1>4. Good(s, r)
  <2> HIDE DEF r
  <2>1. QED
    BY <1>2, <1>3 DEF Good
<1>5. toClient' \subseteq FromServer \union Utacks
  BY <1>0 DEF Typed
<1>6. QED
  <2> HIDE DEF r
  <2>1. QED
    BY <1>1, <1>3, <1>4, <1>5, OneStreamPreserves DEF PastVerification

LEMMA EstablishPreserves ==
    ASSUME IInv, NEW s \in Streams, Establish(s) PROVE IInv'
<1>0. Typed
  BY DEF IInv
<1>1. /\ stream[s].st = "ok" /\ stream[s].acked /\ UNCHANGED <<toServer, toClient>>
      /\ stream' = [r \in Streams |-> [stream[r] EXCEPT
             !.st = IF r = s THEN "session" ELSE IF r = sessions THEN "gone" ELSE @]]
      /\ sessions' = s /\ handshakes' = None /\ ServerOnly
  BY DEF Establish
<1>2. UNCHANGED <<kind, psk, client, bucket>> /\ bucket' \in Nat
      /\ handshakes' \in Streams \union {None} /\ sessions' \in Streams \union {None}
      /\ toClient' \subseteq FromServer \union Utacks
  BY <1>0, <1>1 DEF ServerOnly, config, Typed
<1>3. \A r \in Streams :
         /\ stream'[r] \in StreamStates /\ stream'[r].out = stream[r].out
         /\ stream'[r].acked = stream[r].acked /\ stream'[r].buf = stream[r].buf
         /\ stream'[r].st = IF r = s THEN "session" ELSE IF r = sessions THEN "gone"
                            ELSE stream[r].st
  BY <1>0, <1>1 DEF Typed, StreamStates
<1>4. stream' \in [Streams -> StreamStates]
  BY <1>1, <1>3
<1>5. ASSUME NEW r \in Streams PROVE Good(r, stream'[r])
  <2>1. Good(r, stream[r]) /\ Good(s, stream[s])
    BY StreamsAreGood
  <2>2. QED
    BY <1>1, <1>3, <2>1 DEF Good
<1>6. QED
  BY <1>1, <1>2, <1>3, <1>4, <1>5, ServerPreserves DEF PastVerification
LEMMA ReadHelloPreserves ==
    ASSUME IInv, NEW s \in Streams, ReadHello(s) PROVE IInv'
<1>1. /\ stream[s].st = "hello" /\ ServerSends(s, "challenge", Challenge(s)) /\ ServerOnly
      /\ UNCHANGED <<handshakes, sessions, toServer>>
  BY DEF ReadHello
<1>2. stream[s].buf # <<>>
  BY <1>1, StreamsAreGood DEF Good
<1>3. Challenge(s) \in FromServer
  BY DEF FromServer
<1>4. RealOk(Challenge(s))'
  BY DEF RealOk, Challenge, frame
<1>5. QED
  BY <1>1, <1>2, <1>3, <1>4, SendsPreserves DEF PastVerification

LEMMA ChallengeTakenPreserves ==
    ASSUME IInv, NEW s \in Streams, ChallengeTaken(s) PROVE IInv'
<1> DEFINE r == [stream[s] EXCEPT !.st = "await"]
<1>0. Typed
  BY DEF IInv
<1>1. /\ stream[s].st = "challenge" /\ ServerOnly /\ stream' = [stream EXCEPT ![s] = r]
      /\ UNCHANGED <<handshakes, sessions, toServer, toClient>>
  BY <1>0 DEF ChallengeTaken, Typed, StreamStates
<1>2. Good(s, stream[s]) /\ stream[s] \in StreamStates
  BY StreamsAreGood DEF Good
<1>3. /\ r \in StreamStates /\ r.st = "await" /\ r.out = stream[s].out
      /\ r.buf = stream[s].buf
  BY <1>2 DEF StreamStates
<1>4. Good(s, r)
  <2> HIDE DEF r
  <2>1. QED
    BY <1>2, <1>3 DEF Good
<1>5. handshakes' \in Streams \union {None} /\ toClient' \subseteq FromServer \union Utacks
  BY <1>0, <1>1 DEF Typed
<1>6. QED
  <2> HIDE DEF r
  <2>1. QED
    BY <1>1, <1>3, <1>4, <1>5, OneStreamPreserves DEF PastVerification

(* The HMAC that verifies is this client's: the stream and the client have   *)
(* the PSK and the key pair in common.                                       *)
LEMMA ReadHelloAckPreserves ==
    ASSUME IInv, NEW s \in Streams, ReadHelloAck(s) PROVE IInv'
<1> DEFINE f == Head(stream[s].buf)
<1>0. Typed
  BY DEF IInv
<1>1. /\ stream[s].st = "await" /\ stream[s].buf # <<>> /\ UNCHANGED <<sessions, toServer>>
      /\ ServerOnly
  BY DEF ReadHelloAck
<1>2. CASE ~Verifies(s, f)
  BY <1>1, <1>2, DropPreserves DEF ReadHelloAck
<1>3. CASE Verifies(s, f)
  <2>1. ServerSends(s, "ok", SessionOk(ServerPsk, s)) /\ UNCHANGED handshakes
    BY <1>3 DEF ReadHelloAck
  <2>2. Good(s, stream[s]) /\ stream[s].buf \in Seq(FromClient)
    BY StreamsAreGood DEF Good, StreamStates
  <2>3. OurAck(f)
    <3>1. f = stream[s].buf[1] /\ 1 \in DOMAIN stream[s].buf
      BY <1>1, <2>2
    <3>2. QED
      BY <2>2, <3>1 DEF Good
  <2>4. f.type = "HELLO_ACK" /\ ~f.utack /\ f.body = <<ServerPsk, s>>
    BY <1>3 DEF Verifies, HelloAck, frame
  <2>5. client.phase \notin Early /\ psk = ServerPsk /\ client.peer = s
    BY <2>3, <2>4 DEF OurAck
  <2>6. SessionOk(ServerPsk, s) \in FromServer
    BY DEF FromServer
  <2>7. RealOk(SessionOk(ServerPsk, s))'
    <3>1. stream'[s].st = "ok"
      BY <1>0, <2>1 DEF ServerSends, Typed, StreamStates
    <3>2. UNCHANGED <<psk, client>>
      BY <1>1 DEF ServerOnly, config
    <3>3. Partner'
      BY <2>5, <3>1, <3>2 DEF Partner
    <3>4. SessionOk(ServerPsk, s).body = <<ServerPsk, s>>
      BY DEF SessionOk, frame
    <3>5. QED
      BY <2>5, <3>2, <3>3, <3>4 DEF RealOk
  <2>8. QED
    BY <1>1, <2>1, <2>5, <2>6, <2>7, SendsPreserves DEF PastVerification
<1>4. QED
  BY <1>2, <1>3

LEMMA ServerRetransmitPreserves ==
    ASSUME IInv, NEW s \in Streams, ServerRetransmit(s) PROVE IInv'
<1>0. Typed /\ OksAreReal
  BY DEF IInv
<1>1. /\ UNCHANGED <<stream, handshakes, sessions, toServer>> /\ ServerOnly
      /\ toClient' = toClient \union {stream[s].out}
      /\ stream[s].st \in {"challenge", "ok"}
  BY DEF ServerRetransmit
<1>2. UNCHANGED <<kind, psk, client, bucket>> /\ bucket' \in Nat
  BY <1>0, <1>1 DEF ServerOnly, config, Typed
<1>3. stream[s].out \in FromServer
  BY <1>1, StreamsAreGood DEF Good
<1>4. RealOk(stream[s].out)'
  BY <1>0, <1>1, <1>2 DEF OksAreReal, RealOk, Partner
<1>5. \A d \in toClient' : d \in toClient \/ RealOk(d)'
  BY <1>1, <1>2, <1>4 DEF RealOk, Partner
<1>6. toClient' \subseteq FromServer \union Utacks
  BY <1>0, <1>1, <1>3 DEF Typed
<1>7. QED
  BY <1>1, <1>2, <1>5, <1>6, NoStreamPreserves

LEMMA ServerGivesUpPreserves ==
    ASSUME IInv, NEW s \in Streams, ServerGivesUp(s) PROVE IInv'
  BY DropPreserves DEF ServerGivesUp

-----------------------------------------------------------------------------
(* Every step                                                                *)

LEMMA NextIInv == IInv /\ [Next]_vars => IInv'
<1> SUFFICES ASSUME IInv, [Next]_vars PROVE IInv'
  OBVIOUS
<1>1. CASE ClientTask \/ ClientRetransmit \/ ClientGivesUp
  BY <1>1, ClientTaskPreserves, ClientRetransmitPreserves, ClientGivesUpPreserves
<1>2. ASSUME NEW s \in Streams, ServerTask(s) \/ ServerRetransmit(s) \/ ServerGivesUp(s)
      PROVE  IInv'
  BY <1>2, ReadHelloPreserves, ChallengeTakenPreserves, ReadHelloAckPreserves, EstablishPreserves,
     ServerRetransmitPreserves, ServerGivesUpPreserves DEF ServerTask
<1>3. ASSUME NEW t \in Types, ToClient(t) \/ ToServer(t) PROVE IInv'
  BY <1>3, ToClientPreserves, ToServerPreserves
<1>4. CASE Lose \/ Tick
  BY <1>4, LosePreserves, TickPreserves
<1>5. CASE UNCHANGED vars
  <2>1. Typed /\ UNCHANGED <<kind, psk, client, stream, handshakes, sessions, bucket,
                             toServer, toClient>>
    BY <1>5 DEF vars, config, IInv
  <2>2. QED
    BY <2>1, NoStreamPreserves DEF Typed
<1>6. QED
  BY <1>1, <1>2, <1>3, <1>4, <1>5 DEF Next

LEMMA Authenticated == IInv => MutualAuthentication
<1> SUFFICES ASSUME IInv PROVE MutualAuthentication
  OBVIOUS
<1>0. Typed /\ Verifiers /\ OksAreReal /\ OkTaken
  BY DEF IInv
<1>1. client.phase \in Established =>
         psk = ServerPsk /\ stream[client.peer].st \in {"ok", "session", "gone"}
  BY <1>0 DEF OksAreReal, Partner
<1>2. ASSUME NEW s \in Streams, stream[s].st = "session"
      PROVE  /\ psk = ServerPsk /\ client.peer = s
             /\ \/ client.phase \in Established \union {"failed"}
                \/ \E i \in DOMAIN client.buf : client.buf[i] = SessionOk(psk, s)
  <2>1. psk = ServerPsk /\ client.peer = s /\ HasOk
    BY <1>0, <1>2 DEF Verifiers, OkTaken
  <2>2. ASSUME NEW i \in DOMAIN client.buf, client.buf[i].type = "SESSION_OK"
        PROVE  client.buf[i] = SessionOk(psk, s)
    <3>1. client.buf[i] \in FromServer /\ RealOk(client.buf[i])
      BY <1>0 DEF Typed, ClientStates, OksAreReal
    <3>2. PICK r \in Streams : client.buf[i] = SessionOk(ServerPsk, r)
      BY <2>2, <3>1, ServerFrames
    <3>3. client.buf[i].body = <<ServerPsk, r>> /\ client.buf[i].body = <<psk, client.peer>>
      BY <2>2, <3>1, <3>2, ServerFrames DEF RealOk, SessionOk, frame
    <3>4. r = s
      BY <2>1, <3>3
    <3>5. QED
      BY <2>1, <3>2, <3>4
  <2>3. QED
    BY <2>1, <2>2 DEF HasOk
<1>3. QED
  BY <1>1, <1>2 DEF MutualAuthentication

(* Nobody ends up in a session alone or with the wrong partner: a client     *)
(* that returns from connect() has the PSK of the server and the keys of a   *)
(* stream that verified it, and a session of the server belongs to a client  *)
(* that has them too and got its SESSION_OK.  This holds however datagrams   *)
(* are lost, delayed, repeated and reordered, of the Python client and of    *)
(* the C client (_handshake.py:194-225, 335-366; usmp_handshake.c:391-408).  *)
THEOREM Authentication == Spec => []MutualAuthentication
<1>1. QED
  BY InitIInv, NextIInv, Authenticated, PTL DEF Spec

-----------------------------------------------------------------------------
(* What both sides know of each other                                        *)
(*                                                                           *)
(* The second half of the invariant: which frames are where, in which order  *)
(* the client can meet them, and what each UTACK says of the server.         *)

(* The order in which the server's frames can arrive, and how far a phase    *)
(* has come in it.                                                           *)
Nth == [none |-> 0, HELLO_RETRY |-> 1, CHALLENGE |-> 2, SESSION_OK |-> 3]
Floor == [hello |-> 0, await_challenge |-> 0, cookie |-> 1, await_challenge_again |-> 1,
          ack |-> 2, await_session_ok |-> 2, established |-> 3, data |-> 3, sent |-> 3,
          failed |-> 0]

(* What waits for a Python client is newer than what it has read, each frame *)
(* is newer than the one before it, and duplicate detection knows the        *)
(* newest; a C client puts aside one frame of any age.                       *)
InOrder(c) ==
    /\ c.last \in DOMAIN Nth /\ Floor[c.phase] <= Nth[c.last]
    /\ kind = "c" => Len(c.buf) <= 1
    /\ kind # "c" =>
         /\ Len(c.buf) <= Nth[c.last]
         /\ \A i \in DOMAIN c.buf : /\ Floor[c.phase] < Nth[c.buf[i].type]
                                    /\ Nth[c.buf[i].type] <= Nth[c.last]
         /\ \A i, j \in DOMAIN c.buf : i < j => Nth[c.buf[i].type] < Nth[c.buf[j].type]

IsCookie(f) == ~f.utack /\ f.type = "HELLO" /\ f.seq = 1
IsCookieAck(a) == a.utack /\ a.type = "HELLO" /\ a.seq = 1

(* The frame being written is the one of the phase. *)
OutFits(c) ==
    /\ c.phase = "hello" => c.out = Hello
    /\ c.phase = "cookie" => IsCookie(c.out)
    /\ c.phase = "ack" => c.out.type = "HELLO_ACK"
    /\ c.phase = "data" => c.out = Data(c.peer)

ClientFits ==
    /\ InOrder(client) /\ OutFits(client)
    /\ client.phase \in Early => client.peer = None
    /\ client.error \in {"none", "transport"}

Active == {"hello", "challenge", "await", "ok"}

HasData(buf) == \E i \in DOMAIN buf : buf[i].type = "DATA"

(* A stream's buffer holds one frame of each type at most: the HELLO it was  *)
(* created with, until it is read, HELLO_ACK and a session frame.            *)
BufferFits(r) ==
    /\ r.last \in {"none", "HELLO", "HELLO_ACK"}
    /\ r.st = "unused" => r = Unused
    /\ r.st # "unused" => r.last # "none"
    /\ Len(r.buf) <= (IF r.last = "HELLO_ACK" THEN 2 ELSE IF r.last = "HELLO" THEN 1 ELSE 0)
                     + (IF HasData(r.buf) THEN 1 ELSE 0)
    /\ \A i \in DOMAIN r.buf : r.buf[i].type = "HELLO" => i = 1 /\ r.st \in {"hello", "gone"}
    /\ r.st = "hello" => r.buf[1].type = "HELLO"

(* The two tables and the streams agree. *)
TablesFit ==
    /\ \A s \in Streams : stream[s].st \in Active <=> handshakes = s
    /\ sessions # None => stream[sessions].st = "session"

Used(s) == stream[s].st # "unused"

(* A challenge comes from a stream, a session frame from the client that has *)
(* its session.                                                              *)
RealChallenge(f) == f.type = "CHALLENGE" /\ ~f.utack => Used(f.body[1])
OurData(f) == f.type = "DATA" /\ ~f.utack => Partner /\ f = Data(client.peer)

FramesFit ==
    /\ \A f \in toClient : RealChallenge(f)
    /\ \A i \in DOMAIN client.buf : RealChallenge(client.buf[i])
    /\ \A s \in Streams : RealChallenge(stream[s].out)
    /\ \A f \in toServer : OurData(f)
    /\ \A s \in Streams : \A i \in DOMAIN stream[s].buf : OurData(stream[s].buf[i])

(* What a UTACK says: the cookie made a stream, a stream got the HELLO_ACK,  *)
(* the stream whose keys signed it got the session frame.                    *)
CookieTaken == \E s \in Streams : Used(s)
AckTaken == \E s \in Streams : stream[s].last = "HELLO_ACK"
DataTaken(s) == \E i \in DOMAIN stream[s].buf : stream[s].buf[i] = Data(s)

AckIsTrue(a) ==
    /\ IsCookieAck(a) => CookieTaken
    /\ a.utack /\ a.type = "HELLO_ACK" => AckTaken
    /\ a.utack /\ a.type = "DATA" => \A s \in Streams : a.body = <<s>> => DataTaken(s)

WritesTaken(c) ==
    /\ (c.phase = "cookie" /\ c.acked) \/ c.phase = "await_challenge_again" => CookieTaken
    /\ (c.phase = "ack" /\ c.acked) \/ c.phase = "await_session_ok" => AckTaken
    /\ (c.phase = "data" /\ c.acked) \/ c.phase = "sent" => DataTaken(c.peer)

AcksFit == (\A a \in toClient : AckIsTrue(a)) /\ WritesTaken(client)

(* On a timely network the cookie is on its way, or its UTACK is, or it was  *)
(* acknowledged: never two of these.  So no second stream is created for a   *)
(* client that has answered a challenge, and its frames go to the stream     *)
(* that has its keys.                                                        *)
OneCookie ==
    /\ \A f \in toServer : IsCookie(f) =>
         /\ f = client.out /\ client.peer = None /\ client.phase \in {"cookie", "failed"}
         /\ client.phase = "cookie" => ~client.acked
         /\ \A a \in toClient : ~IsCookieAck(a)
    /\ client.phase \in {"hello", "await_challenge"} => \A a \in toClient : ~IsCookieAck(a)
    /\ client.phase \in Early => \A s \in Streams : stream[s].st # "gone"
    /\ client.peer # None => handshakes \in {None, client.peer}
    /\ \A a \in toClient : a.utack /\ a.type = "DATA" => a.body # <<>>

Agreement ==
    /\ ClientFits
    /\ \A s \in Streams : BufferFits(stream[s])
    /\ TablesFit /\ FramesFit /\ AcksFit
    /\ timely => OneCookie

-----------------------------------------------------------------------------
(* The client                                                                *)

LEMMA PartnerStays ==
    ASSUME ClientOnly, client'.phase \in Early => client.phase \in Early,
           client.phase \notin Early => client'.peer = client.peer
    PROVE  /\ Partner => Partner' /\ client'.peer = client.peer
           /\ \A f : OurData(f) => OurData(f)'
<1>1. UNCHANGED <<psk, stream>>
  BY DEF ClientOnly, config
<1>2. Partner => Partner' /\ client'.peer = client.peer
  BY <1>1 DEF Partner
<1>3. QED
  BY <1>2 DEF OurData

(* What a step of the client leaves to show. *)
LEMMA ClientAgrees ==
    ASSUME IInv, Agreement, ClientOnly, toClient' \subseteq toClient,
           toServer' \subseteq toServer \union Utacks \union {client'.out},
           client'.phase \in Early => client.phase \in Early /\ client'.peer = None,
           client.phase \notin Early => client'.peer = client.peer,
           client'.error \in {"none", "transport"},
           InOrder(client)', OutFits(client)', WritesTaken(client)',
           \A i \in DOMAIN client'.buf : RealChallenge(client'.buf[i]),
           client'.out \in toServer' => client'.out \in toServer \/ OurData(client.out)',
           timely =>
             /\ \A f \in toServer' : IsCookie(f) =>
                  /\ f = client'.out /\ client'.peer = None
                  /\ client'.phase \in {"cookie", "failed"}
                  /\ client'.phase = "cookie" => ~client'.acked
                  /\ \A a \in toClient' : ~IsCookieAck(a)
             /\ client'.phase \in {"hello", "await_challenge"} =>
                  client.phase \in {"hello", "await_challenge"}
             /\ client'.peer # None => handshakes \in {None, client'.peer}
    PROVE  Agreement'
<1>1. UNCHANGED <<kind, psk, timely, stream, handshakes, sessions>>
  BY DEF ClientOnly, config
<1>2. ClientFits' /\ \A s \in Streams : BufferFits(stream[s])'
  BY <1>1 DEF Agreement, ClientFits, BufferFits
<1>3. TablesFit'
  BY <1>1 DEF Agreement, TablesFit
<1>4. FramesFit'
  <2>1. \A f : RealChallenge(f) => RealChallenge(f)'
    BY <1>1 DEF RealChallenge, Used
  <2>2. \A f : OurData(f) => OurData(f)'
    BY PartnerStays
  <2>3. \A f \in Utacks : OurData(f)'
    BY DEF OurData, Utacks
  <2>4. FramesFit
    BY DEF Agreement
  <2>5. \A s \in Streams : \A i \in DOMAIN stream[s].buf : OurData(stream[s].buf[i])'
    BY <1>1, <2>2, <2>4 DEF FramesFit
  <2>6. \A s \in Streams : RealChallenge(stream[s].out)'
    BY <1>1, <2>1, <2>4 DEF FramesFit
  <2>7. (\A i \in DOMAIN client.buf : RealChallenge(client.buf[i]))'
    BY <2>1
  <2>8. \A f \in toServer' : OurData(f)'
    BY <2>2, <2>3, <2>4 DEF FramesFit
  <2>9. \A f \in toClient' : RealChallenge(f)'
    BY <2>1, <2>4 DEF FramesFit
  <2>10. QED
    BY <1>1, <2>5, <2>6, <2>7, <2>8, <2>9 DEF FramesFit
<1>5. AcksFit'
  BY <1>1 DEF Agreement, AcksFit, AckIsTrue, CookieTaken, AckTaken, DataTaken, Used
<1>6. timely' => OneCookie'
  BY <1>1 DEF Agreement, OneCookie
<1>7. QED
  BY <1>2, <1>3, <1>4, <1>5, <1>6 DEF Agreement

LEMMA CookieKinds ==
    /\ \A f \in Utacks : ~IsCookie(f)
    /\ ~IsCookie(Hello)
    /\ \A b : IsCookie(HelloCookie(b)) /\ HelloCookie(b).type = "HELLO"
    /\ \A key, s : ~IsCookie(HelloAck(key, s)) /\ HelloAck(key, s).type = "HELLO_ACK"
    /\ \A s : ~IsCookie(Data(s)) /\ Data(s).type = "DATA" /\ Hello.type = "HELLO"
<1>1. \A f \in Utacks : ~IsCookie(f)
  BY DEF IsCookie, Utacks
<1>2. QED
  BY <1>1 DEF IsCookie, Hello, HelloCookie, HelloAck, Data, frame

(* A frame that is newer than the floor of the phase is one the phase        *)
(* expects, unless it is a SESSION_OK that comes too early.                  *)
LEMMA NewerIsExpected ==
    ASSUME NEW c \in ClientStates, c.phase \in Waiting, NEW f \in FromServer,
           Floor[c.phase] < Nth[f.type],
           f.type = "SESSION_OK" => c.phase \notin Early
    PROVE  f.type \in Expected[c.phase]
<1>1. f.type \in {"HELLO_RETRY", "CHALLENGE", "SESSION_OK"}
  BY ServerFrames
<1>2. QED
  BY <1>1 DEF Waiting, Floor, Nth, Early, Expected

(* Reading one frame, which is gone from the buffer of c. *)
LEMMA HandleAgrees ==
    ASSUME IInv, Agreement, ClientOnly, toClient' \subseteq toClient,
           NEW c \in ClientStates, NEW f \in FromServer, NEW acks \in SUBSET Utacks,
           Handle(c, f, acks),
           c.phase = client.phase, c.peer = client.peer, c.error = client.error,
           RealOk(f), RealChallenge(f), \A i \in DOMAIN c.buf : RealChallenge(c.buf[i]),
           Floor[c.phase] < Nth[f.type], Nth[f.type] <= Nth[c.last], c.last \in DOMAIN Nth,
           kind = "c" => Len(c.buf) <= 1,
           kind # "c" =>
             /\ Len(c.buf) <= Nth[c.last]
             /\ \A i \in DOMAIN c.buf : /\ Nth[f.type] < Nth[c.buf[i].type]
                                        /\ Nth[c.buf[i].type] <= Nth[c.last]
             /\ \A i, j \in DOMAIN c.buf : i < j => Nth[c.buf[i].type] < Nth[c.buf[j].type]
    PROVE  Agreement'
<1>1. /\ c.phase \in Waiting /\ UNCHANGED <<kind, psk, timely, stream, handshakes>>
      /\ client.error \in {"none", "transport"} /\ (client.phase \in Early => client.peer = None)
      /\ timely => OneCookie
  BY DEF Handle, ClientOnly, config, Agreement, ClientFits
<1>2. f.type \in Expected[c.phase]
  <2>1. f.type = "SESSION_OK" => c.phase \notin Early
    BY ServerFrames DEF RealOk, Partner
  <2>2. QED
    BY <1>1, <2>1, NewerIsExpected
<1>3. ASSUME NEW phase, client'.phase = phase, Floor[phase] = Nth[f.type],
             client'.buf = c.buf, client'.last = c.last
      PROVE  InOrder(client)'
  BY <1>1, <1>3 DEF InOrder
<1>4. CASE f.type = "HELLO_RETRY"
  <2>1. client' = [c EXCEPT !.phase = "cookie", !.out = HelloCookie(f.body), !.acked = FALSE]
        /\ toServer' = toServer \union acks \union {HelloCookie(f.body)}
    BY <1>2, <1>4 DEF Handle, Write
  <2>2. client.phase = "await_challenge"
    BY <1>1, <1>2, <1>4 DEF Waiting, Expected
  <2>3. /\ client'.phase = "cookie" /\ client'.peer = c.peer /\ client'.buf = c.buf
        /\ client'.last = c.last /\ client'.out = HelloCookie(f.body) /\ client'.acked = FALSE
        /\ client'.error = c.error
    BY <2>1 DEF ClientStates
  <2>4. InOrder(client)'
    BY <1>3, <1>4, <2>3 DEF Floor, Nth
  <2>5. OutFits(client)' /\ WritesTaken(client)' /\ client'.phase \in Early
        /\ client.phase \in Early /\ client'.peer = None
    BY <1>1, <2>2, <2>3, CookieKinds DEF OutFits, WritesTaken, Early
  <2>6. OurData(client.out)'
    BY <2>3, CookieKinds DEF OurData
  <2>7. timely =>
          /\ \A g \in toServer' : IsCookie(g) => g = client'.out
          /\ \A a \in toClient' : ~IsCookieAck(a)
    BY <1>1, <2>1, <2>2, <2>3, CookieKinds DEF OneCookie
  <2>8. QED
    BY <1>1, <2>1, <2>2, <2>3, <2>4, <2>5, <2>6, <2>7, ClientAgrees
<1>5. CASE f.type = "CHALLENGE"
  <2> DEFINE s == f.body[1]
  <2>1. client' = [c EXCEPT !.peer = s, !.phase = "ack", !.out = HelloAck(psk, s),
                            !.acked = FALSE]
        /\ toServer' = toServer \union acks \union {HelloAck(psk, s)}
    BY <1>2, <1>5 DEF Handle, Write, ClientStates
  <2>2. client.phase \in {"await_challenge", "await_challenge_again"} /\ client.phase \in Early
    BY <1>1, <1>2, <1>5 DEF Waiting, Expected, Early
  <2>3. /\ client'.phase = "ack" /\ client'.peer = s /\ client'.buf = c.buf
        /\ client'.last = c.last /\ client'.out = HelloAck(psk, s) /\ client'.acked = FALSE
        /\ client'.error = c.error
    BY <2>1 DEF ClientStates
  <2>4. InOrder(client)'
    BY <1>3, <1>5, <2>3 DEF Floor, Nth
  <2>5. OutFits(client)' /\ WritesTaken(client)' /\ client'.phase \notin Early
    BY <2>3, CookieKinds DEF OutFits, WritesTaken, Early
  <2>6. OurData(client.out)'
    BY <2>3, CookieKinds DEF OurData
  <2>7. timely => \A g \in toServer' : ~IsCookie(g)
    BY <1>1, <2>1, <2>2, CookieKinds DEF OneCookie
  <2>8. timely => handshakes = s
    <3>1. SUFFICES ASSUME timely PROVE handshakes = s
      OBVIOUS
    <3>2. s \in Streams /\ Used(s)
      BY <1>5, ServerFrames DEF RealChallenge
    <3>3. stream[s].st \notin {"ok", "session", "gone"}
      BY <1>1, <2>2, <3>1, <3>2 DEF IInv, Verifiers, OneCookie
    <3>4. stream[s] \in StreamStates
      BY <3>2 DEF IInv, Typed
    <3>5. stream[s].st \in Active
      BY <3>2, <3>3, <3>4 DEF Used, Active, StreamStates
    <3>6. QED
      BY <3>2, <3>5 DEF Agreement, TablesFit
  <2>9. QED
    BY <1>1, <2>1, <2>2, <2>3, <2>4, <2>5, <2>6, <2>7, <2>8, ClientAgrees
<1>6. CASE f.type = "SESSION_OK"
  <2>1. Partner /\ Verified(c, f)
    BY <1>6, ServerFrames DEF RealOk, Verified
  <2>2. client' = [c EXCEPT !.phase = "established"] /\ toServer' = toServer \union acks
    BY <1>2, <1>6, <2>1 DEF Handle, Become
  <2>3. /\ client'.phase = "established" /\ client'.peer = c.peer /\ client'.buf = c.buf
        /\ client'.last = c.last /\ client'.error = c.error
    BY <2>2 DEF ClientStates
  <2>4. InOrder(client)'
    BY <1>3, <1>6, <2>3 DEF Floor, Nth
  <2>5. OutFits(client)' /\ WritesTaken(client)' /\ client'.phase \notin Early
        /\ client.phase \notin Early
    BY <2>1, <2>3 DEF OutFits, WritesTaken, Early, Partner
  <2>6. client.phase \notin {"cookie", "failed"}
    BY <1>1 DEF Waiting
  <2>7. timely => \A g \in toServer' : ~IsCookie(g)
    BY <1>1, <2>2, <2>6, CookieKinds DEF OneCookie
  <2>8. client'.out \in toServer' => client'.out \in toServer \/ OurData(client.out)'
    <3>1. \A g \in Utacks : g.utack
      BY DEF Utacks
    <3>2. client'.out \in Utacks => OurData(client.out)'
      BY <3>1 DEF OurData
    <3>3. QED
      BY <2>2, <3>2
  <2>9. timely => (client'.peer # None => handshakes \in {None, client'.peer})
    BY <1>1, <2>3 DEF OneCookie
  <2>10. QED
    BY <1>1, <2>2, <2>3, <2>4, <2>5, <2>7, <2>8, <2>9, ClientAgrees
<1>7. QED
  BY <1>4, <1>5, <1>6, ServerFrames

(* What the invariants say of the client at rest. *)
LEMMA ClientFacts ==
    ASSUME IInv, Agreement
    PROVE  /\ client \in ClientStates /\ client.buf \in Seq(FromServer)
           /\ InOrder(client) /\ OutFits(client) /\ WritesTaken(client)
           /\ client.phase \in Early => client.peer = None
           /\ client.error \in {"none", "transport"}
           /\ \A i \in DOMAIN client.buf : RealChallenge(client.buf[i])
           /\ \A f \in toClient : RealChallenge(f)
           /\ timely => OneCookie
  BY DEF IInv, Typed, ClientStates, Agreement, ClientFits, AcksFit, FramesFit

(* The UTACK of the frame being written: it says what the write waits for. *)
LEMMA WriteAgrees ==
    ASSUME IInv, Agreement, ClientOnly, toClient' \subseteq toClient, NEW b \in BOOLEAN,
           client' = [client EXCEPT !.acked = b],
           toServer' \subseteq toServer \union {client.out},
           client.out \in toServer' => client.out \in toServer \/ client.phase \in Sending,
           b => client.acked \/ WritesTaken(client)',
           timely => /\ b => client.acked \/ \A f \in toServer' : ~IsCookie(f)
                     /\ IsCookie(client.out) /\ client.out \in toServer' \ toServer =>
                          ~b /\ \A a \in toClient' : ~IsCookieAck(a)
    PROVE  Agreement'
<1>1. UNCHANGED <<kind, psk, timely, stream, handshakes>>
  BY DEF ClientOnly, config
<1>2. /\ client' \in ClientStates /\ client'.phase = client.phase /\ client'.out = client.out
      /\ client'.peer = client.peer /\ client'.buf = client.buf /\ client'.last = client.last
      /\ client'.error = client.error /\ client'.acked = b
  BY ClientFacts DEF ClientStates
<1>3. InOrder(client)' /\ OutFits(client)'
  BY <1>1, <1>2, ClientFacts DEF InOrder, OutFits
<1>4. WritesTaken(client)'
  <2>1. CookieTaken' = CookieTaken /\ AckTaken' = AckTaken
        /\ \A s : DataTaken(s)' = DataTaken(s)
    BY <1>1 DEF CookieTaken, AckTaken, DataTaken, Used
  <2>2. CASE b => client.acked
    BY <1>2, <2>1, <2>2, ClientFacts DEF WritesTaken
  <2>3. QED
    BY <2>2
<1>5. client'.out \in toServer' => client'.out \in toServer \/ OurData(client.out)'
  <2>1. SUFFICES ASSUME client.phase \in Sending, client.out.type = "DATA"
                 PROVE  OurData(client.out)'
    BY <1>2 DEF OurData
  <2>2. client.phase = "data" /\ client.out = Data(client.peer)
    BY <2>1, ClientFacts, CookieKinds DEF Sending, OutFits, IsCookie
  <2>3. Partner
    BY <2>2 DEF IInv, OksAreReal, Established
  <2>4. OurData(client.out)
    BY <2>2, <2>3 DEF OurData
  <2>5. QED
    BY <1>2, <2>4, PartnerStays
<1>6. timely => \A f \in toServer' : IsCookie(f) =>
         /\ f = client.out /\ client.peer = None /\ client.phase \in {"cookie", "failed"}
         /\ client.phase = "cookie" => ~b
         /\ \A a \in toClient' : ~IsCookieAck(a)
  <2>1. SUFFICES ASSUME timely, NEW f \in toServer', IsCookie(f)
                 PROVE  /\ f = client.out /\ client.peer = None
                        /\ client.phase \in {"cookie", "failed"}
                        /\ client.phase = "cookie" => ~b
                        /\ \A a \in toClient' : ~IsCookieAck(a)
    OBVIOUS
  <2>2. OneCookie
    BY <2>1, ClientFacts
  <2>3. CASE f \in toServer
    BY <2>1, <2>2, <2>3 DEF OneCookie
  <2>4. CASE f \notin toServer
    <3>1. f = client.out /\ client.phase \in Sending
      BY <2>1, <2>4
    <3>2. client.phase = "cookie"
      BY <2>1, <3>1, ClientFacts, CookieKinds DEF Sending, OutFits, IsCookie
    <3>3. client.peer = None
      BY <3>2, ClientFacts DEF Early
    <3>4. QED
      BY <2>1, <2>4, <3>1, <3>2, <3>3
  <2>5. QED
    BY <2>3, <2>4
<1>7. timely => (client.peer # None => handshakes \in {None, client.peer})
  BY ClientFacts DEF OneCookie
<1>8. QED
  BY <1>1, <1>2, <1>3, <1>4, <1>5, <1>6, <1>7, ClientFacts, ClientAgrees

LEMMA ClientRetransmitAgrees == IInv /\ Agreement /\ ClientRetransmit => Agreement'
<1> SUFFICES ASSUME IInv, Agreement, ClientRetransmit PROVE Agreement'
  OBVIOUS
<1>1. /\ ClientOnly /\ client' = client /\ UNCHANGED toClient /\ ~client.acked
      /\ client.phase \in Sending /\ toServer' = toServer \union {client.out}
      /\ Expired(client.out, toServer, toClient)
  BY DEF ClientRetransmit
<1>2. client.acked \in BOOLEAN /\ client' = [client EXCEPT !.acked = client.acked]
  BY <1>1, ClientFacts DEF ClientStates
<1>3. timely /\ IsCookie(client.out) => \A a \in toClient' : ~IsCookieAck(a)
  BY <1>1 DEF Expired, Names, IsCookie, IsCookieAck
<1>4. QED
  BY <1>1, <1>2, <1>3, WriteAgrees

LEMMA ClientUtackAgrees ==
    ASSUME IInv, Agreement, NEW a, ClientUtack(a) PROVE Agreement'
<1>1. /\ ClientOnly /\ toClient' \subseteq toClient /\ toServer' = toServer
      /\ a \in toClient /\ a.utack /\ UNCHANGED stream
  BY TakenShrinks DEF ClientUtack, ClientOnly
<1>2. CASE client' = client
  <2>1. client.acked \in BOOLEAN /\ client' = [client EXCEPT !.acked = client.acked]
    BY <1>2, ClientFacts DEF ClientStates
  <2>2. QED
    BY <1>1, <2>1, WriteAgrees
<1>3. CASE /\ client' = [client EXCEPT !.acked = TRUE]
           /\ client.phase \in Sending /\ Names(a, client.out) /\ Accepts(a)
  <2>1. AckIsTrue(a)
    BY <1>1 DEF Agreement, AcksFit
  <2>2. /\ client'.phase = client.phase /\ client'.out = client.out
        /\ client'.peer = client.peer
    BY <1>3, ClientFacts DEF ClientStates
  <2>3. CookieTaken' = CookieTaken /\ AckTaken' = AckTaken
        /\ \A s : DataTaken(s)' = DataTaken(s)
    BY <1>1 DEF CookieTaken, AckTaken, DataTaken, Used
  <2>4. CASE client.phase = "hello"
    <3>1. WritesTaken(client)'
      BY <2>2, <2>4 DEF WritesTaken
    <3>2. timely => \A f \in toServer' : ~IsCookie(f)
      BY <1>1, <2>4, ClientFacts DEF OneCookie
    <3>3. QED
      BY <1>1, <1>3, <3>1, <3>2, WriteAgrees
  <2>5. CASE client.phase = "cookie"
    <3>1. IsCookieAck(a)
      BY <1>1, <1>3, <2>5, ClientFacts DEF OutFits, IsCookie, IsCookieAck, Names
    <3>2. WritesTaken(client)'
      BY <2>1, <2>2, <2>3, <2>5, <3>1 DEF WritesTaken, AckIsTrue
    <3>3. timely => \A f \in toServer' : ~IsCookie(f)
      BY <1>1, <3>1, ClientFacts DEF OneCookie
    <3>4. QED
      BY <1>1, <1>3, <3>2, <3>3, WriteAgrees
  <2>6. CASE client.phase = "ack"
    <3>1. a.type = "HELLO_ACK"
      BY <1>3, <2>6, ClientFacts DEF OutFits, Names
    <3>2. WritesTaken(client)'
      BY <1>1, <2>1, <2>2, <2>3, <2>6, <3>1 DEF WritesTaken, AckIsTrue
    <3>3. timely => \A f \in toServer' : ~IsCookie(f)
      BY <1>1, <2>6, ClientFacts DEF OneCookie
    <3>4. QED
      BY <1>1, <1>3, <3>2, <3>3, WriteAgrees
  <2>7. CASE client.phase = "data"
    <3>1. a.type = "DATA" /\ a.body = <<client.peer>>
      BY <1>3, <2>7, ClientFacts, CookieKinds DEF OutFits, Names, Accepts
    <3>2. client.peer \in Streams
      BY <2>7 DEF IInv, OksAreReal, Partner, Established
    <3>3. WritesTaken(client)'
      BY <1>1, <2>1, <2>2, <2>3, <2>7, <3>1, <3>2 DEF WritesTaken, AckIsTrue
    <3>4. timely => \A f \in toServer' : ~IsCookie(f)
      BY <1>1, <2>7, ClientFacts DEF OneCookie
    <3>5. QED
      BY <1>1, <1>3, <3>3, <3>4, WriteAgrees
  <2>8. QED
    BY <1>3, <2>4, <2>5, <2>6, <2>7 DEF Sending
<1>4. QED
  BY <1>2, <1>3 DEF ClientUtack

(* A step that only changes the client's buffer and what its duplicate       *)
(* detection remembers.                                                      *)
LEMMA BufferAgrees ==
    ASSUME IInv, Agreement, ClientOnly, toClient' \subseteq toClient,
           toServer' \subseteq toServer \union Utacks,
           client'.phase = client.phase, client'.out = client.out, client'.peer = client.peer,
           client'.acked = client.acked, client'.error = client.error,
           InOrder(client)',
           \A i \in DOMAIN client'.buf : RealChallenge(client'.buf[i])
    PROVE  Agreement'
<1>1. UNCHANGED <<timely, stream, handshakes>>
  BY DEF ClientOnly, config
<1>2. CookieTaken' = CookieTaken /\ AckTaken' = AckTaken
      /\ \A s : DataTaken(s)' = DataTaken(s)
  BY <1>1 DEF CookieTaken, AckTaken, DataTaken, Used
<1>3. OutFits(client)' /\ WritesTaken(client)'
  BY <1>2, ClientFacts DEF OutFits, WritesTaken
<1>4. client'.out \in toServer' => client'.out \in toServer \/ OurData(client.out)'
  <2>1. \A g \in Utacks : g.utack
    BY DEF Utacks
  <2>2. client'.out \in Utacks => OurData(client.out)'
    BY <2>1 DEF OurData
  <2>3. QED
    BY <2>2
<1>5. timely => \A f \in toServer' : IsCookie(f) => f \in toServer
  BY CookieKinds
<1>6. QED
  BY <1>1, <1>3, <1>4, <1>5, ClientFacts, ClientAgrees DEF OneCookie

LEMMA ServerOrder ==
    ASSUME NEW f \in FromServer PROVE f.type \in DOMAIN Nth /\ Nth[f.type] \in 1 .. 3
<1>1. f.type \in {"HELLO_RETRY", "CHALLENGE", "SESSION_OK"}
  BY ServerFrames
<1>2. QED
  BY <1>1 DEF Nth

LEMMA ClientResumesAgrees == IInv /\ Agreement /\ ClientResumes => Agreement'
<1> SUFFICES ASSUME IInv, Agreement, ClientResumes PROVE Agreement'
  OBVIOUS
<1>1. /\ client.phase \in Sending /\ client.acked /\ ClientOnly
      /\ UNCHANGED <<kind, timely, stream, handshakes, toServer, toClient>>
      /\ client' = [client EXCEPT !.phase = AfterWrite[client.phase]]
  BY DEF ClientResumes, ClientOnly, config
<1>2. /\ client'.phase = AfterWrite[client.phase] /\ client'.out = client.out
      /\ client'.peer = client.peer /\ client'.buf = client.buf /\ client'.last = client.last
      /\ client'.error = client.error /\ client'.acked = client.acked
  BY <1>1, ClientFacts DEF ClientStates
<1>3. Floor[client'.phase] = Floor[client.phase]
  BY <1>1, <1>2 DEF AfterWrite, Floor, Sending
<1>4. InOrder(client)'
  BY <1>1, <1>2, <1>3, ClientFacts DEF InOrder
<1>5. CookieTaken' = CookieTaken /\ AckTaken' = AckTaken
      /\ \A s : DataTaken(s)' = DataTaken(s)
  BY <1>1 DEF CookieTaken, AckTaken, DataTaken, Used
<1>6. OutFits(client)' /\ WritesTaken(client)'
  BY <1>1, <1>2, <1>5, ClientFacts DEF OutFits, WritesTaken, AfterWrite, Sending
<1>7. /\ client'.phase \in Early <=> client.phase \in Early
      /\ client'.phase \in {"hello", "await_challenge"} =>
           client.phase \in {"hello", "await_challenge"}
  BY <1>1, <1>2 DEF AfterWrite, Sending, Early
<1>8. timely => /\ \A f \in toServer' : ~IsCookie(f)
                /\ client'.peer # None => handshakes \in {None, client'.peer}
  BY <1>1, <1>2, ClientFacts DEF OneCookie, Sending
<1>9. QED
  BY <1>1, <1>2, <1>4, <1>6, <1>7, <1>8, ClientFacts, ClientAgrees

LEMMA StartDataAgrees == IInv /\ Agreement /\ StartData => Agreement'
<1> SUFFICES ASSUME IInv, Agreement, StartData PROVE Agreement'
  OBVIOUS
<1>1. /\ client.phase = "established" /\ ClientOnly
      /\ UNCHANGED <<kind, timely, stream, handshakes, toClient>>
      /\ client' = [client EXCEPT !.phase = "data", !.out = Data(client.peer), !.acked = FALSE]
      /\ toServer' = toServer \union {Data(client.peer)}
  BY DEF StartData, Write, ClientOnly, config
<1>2. /\ client'.phase = "data" /\ client'.out = Data(client.peer)
      /\ client'.peer = client.peer /\ client'.buf = client.buf /\ client'.last = client.last
      /\ client'.error = client.error /\ client'.acked = FALSE
  BY <1>1, ClientFacts DEF ClientStates
<1>3. InOrder(client)'
  BY <1>1, <1>2, ClientFacts DEF InOrder, Floor
<1>4. OutFits(client)' /\ WritesTaken(client)' /\ client'.phase \notin Early
  BY <1>2 DEF OutFits, WritesTaken, Early
<1>5. OurData(client.out)'
  <2>1. Partner
    BY <1>1 DEF IInv, OksAreReal, Established
  <2>2. Partner'
    BY <1>2, <1>4, <2>1, PartnerStays, <1>1 DEF Early
  <2>3. QED
    BY <1>2, <2>2 DEF OurData
<1>6. timely => /\ \A f \in toServer' : ~IsCookie(f)
                /\ client'.peer # None => handshakes \in {None, client'.peer}
  BY <1>1, <1>2, ClientFacts, CookieKinds DEF OneCookie
<1>7. QED
  BY <1>1, <1>2, <1>3, <1>4, <1>5, <1>6, ClientFacts, ClientAgrees

LEMMA ClientGivesUpAgrees == IInv /\ Agreement /\ ClientGivesUp => Agreement'
<1> SUFFICES ASSUME IInv, Agreement, ClientGivesUp PROVE Agreement'
  OBVIOUS
<1>1. /\ ClientOnly /\ UNCHANGED <<kind, timely, stream, handshakes, toServer, toClient>>
      /\ client' = [client EXCEPT !.phase = "failed", !.error = "transport"]
  BY DEF ClientGivesUp, ClientOnly, config
<1>2. /\ client'.phase = "failed" /\ client'.out = client.out
      /\ client'.peer = client.peer /\ client'.buf = client.buf /\ client'.last = client.last
      /\ client'.error = "transport"
  BY <1>1, ClientFacts DEF ClientStates
<1>3. client.phase # "failed" => client.phase \in Phases
  BY ClientFacts DEF ClientStates
<1>4. InOrder(client)'
  <2>1. Floor["failed"] = 0 /\ \A p \in Phases : 0 <= Floor[p]
    BY DEF Floor, Phases, Sending, Waiting, Established
  <2>2. client.phase \in Phases /\ \A t \in DOMAIN Nth : Nth[t] \in Nat
    BY ClientFacts DEF ClientStates, Nth
  <2>3. Floor[client.phase] \in Nat
    BY <2>2 DEF Floor, Phases, Sending, Waiting, Established
  <2>4. kind # "c" => \A i \in DOMAIN client.buf : Nth[client.buf[i].type] \in Nat
    <3>1. \A i \in DOMAIN client.buf : client.buf[i] \in FromServer
      BY ClientFacts
    <3>2. QED
      BY <3>1, ServerOrder
  <2>5. QED
    BY <1>1, <1>2, <2>1, <2>2, <2>3, <2>4, ClientFacts DEF InOrder
<1>5. OutFits(client)' /\ WritesTaken(client)' /\ client'.phase \notin Early
  BY <1>2 DEF OutFits, WritesTaken, Early
<1>6. timely => /\ \A f \in toServer' : IsCookie(f) =>
                     /\ f = client'.out /\ client'.peer = None
                     /\ \A a \in toClient' : ~IsCookieAck(a)
                /\ client'.peer # None => handshakes \in {None, client'.peer}
  BY <1>1, <1>2, ClientFacts DEF OneCookie
<1>7. QED
  BY <1>1, <1>2, <1>4, <1>5, <1>6, ClientFacts, ClientAgrees

(* Duplicate detection passes exactly what is newer than all that came       *)
(* before.                                                                   *)
LEMMA PassesTheNewer ==
    ASSUME NEW f \in FromServer, NEW last \in DOMAIN Nth
    PROVE  IsDuplicate(f.type, last, FALSE) <=> Nth[f.type] <= Nth[last]
<1>1. f.type \in {"HELLO_RETRY", "CHALLENGE", "SESSION_OK"}
  BY ServerFrames
<1>2. last \in {"none", "HELLO_RETRY", "CHALLENGE", "SESSION_OK"}
  BY DEF Nth
<1>3. CASE f.type = "HELLO_RETRY"
  BY <1>2, <1>3 DEF IsDuplicate, Nth
<1>4. CASE f.type = "CHALLENGE"
  BY <1>2, <1>4 DEF IsDuplicate, Nth
<1>5. CASE f.type = "SESSION_OK"
  BY <1>2, <1>5 DEF IsDuplicate, Nth
<1>6. QED
  BY <1>1, <1>3, <1>4, <1>5

LEMMA PythonReadAgrees == IInv /\ Agreement /\ PythonRead => Agreement'
<1> SUFFICES ASSUME IInv, Agreement, PythonRead PROVE Agreement'
  OBVIOUS
<1> DEFINE c == [client EXCEPT !.buf = Tail(@)]
           f == Head(client.buf)
           acks == {}
<1>1. kind = "python" /\ client.buf # <<>> /\ Handle(c, f, acks) /\ ClientOnly
      /\ UNCHANGED toClient
  BY DEF PythonRead
<1>2. f \in FromServer /\ f = client.buf[1] /\ Tail(client.buf) \in Seq(FromServer)
      /\ 1 \in DOMAIN client.buf /\ Len(Tail(client.buf)) = Len(client.buf) - 1
  BY <1>1, ClientFacts
<1>3. /\ c \in ClientStates /\ c.buf = Tail(client.buf) /\ c.phase = client.phase
      /\ c.peer = client.peer /\ c.last = client.last /\ c.error = client.error
  BY <1>2, ClientFacts DEF ClientStates
<1>4. \A i \in DOMAIN c.buf : i + 1 \in DOMAIN client.buf /\ c.buf[i] = client.buf[i + 1]
                              /\ i \in Nat \ {0}
  BY <1>1, <1>3, ClientFacts
<1>5. RealOk(f) /\ RealChallenge(f) /\ \A i \in DOMAIN c.buf : RealChallenge(c.buf[i])
  BY <1>2, <1>4, ClientFacts DEF IInv, OksAreReal
<1>6. /\ c.last \in DOMAIN Nth /\ Nth[c.last] \in Nat /\ Len(client.buf) \in Nat
      /\ Floor[c.phase] < Nth[f.type] /\ Nth[f.type] <= Nth[c.last]
      /\ Len(client.buf) <= Nth[c.last]
  BY <1>1, <1>2, <1>3, ClientFacts DEF InOrder, Nth
<1>7. \A i \in DOMAIN c.buf : /\ Nth[f.type] < Nth[c.buf[i].type]
                              /\ Nth[c.buf[i].type] <= Nth[c.last]
  BY <1>1, <1>2, <1>3, <1>4, ClientFacts DEF InOrder
<1>8. \A i, j \in DOMAIN c.buf : i < j => Nth[c.buf[i].type] < Nth[c.buf[j].type]
  BY <1>1, <1>4, ClientFacts DEF InOrder
<1>9. Len(c.buf) <= Nth[c.last]
  BY <1>2, <1>3, <1>6
<1>10. kind # "c" /\ acks \in SUBSET Utacks /\ toClient' \subseteq toClient
  BY <1>1
<1>11. QED
  <2> HIDE DEF c, f, acks
  <2>1. QED
    BY <1>1, <1>2, <1>3, <1>5, <1>6, <1>7, <1>8, <1>9, <1>10, HandleAgrees

LEMMA PythonFeedAgrees ==
    ASSUME IInv, Agreement, NEW f, PythonFeed(f) PROVE Agreement'
<1>1. /\ kind = "python" /\ f \in toClient /\ ~f.utack /\ ClientOnly /\ UNCHANGED kind
      /\ toClient' \subseteq toClient /\ toServer' = toServer \union {utack(f, <<>>)}
  BY TakenShrinks DEF PythonFeed, Become, ClientOnly, config
<1>2. f \in FromServer /\ utack(f, <<>>) \in Utacks /\ RealChallenge(f)
  BY <1>1, ToClientFrames, ServerFrames, UtackTyped, ClientFacts DEF IInv
<1>3. client.last \in DOMAIN Nth
  BY ClientFacts DEF InOrder
<1>4. CASE IsDuplicate(f.type, client.last, FALSE)
  <2>1. client' = client
    BY <1>4 DEF PythonFeed, Become
  <2>2. InOrder(client)'
    BY <1>1, <2>1, ClientFacts DEF InOrder
  <2>3. QED
    BY <1>1, <1>2, <2>1, <2>2, ClientFacts, BufferAgrees
<1>5. CASE ~IsDuplicate(f.type, client.last, FALSE)
  <2>1. client' = [client EXCEPT !.last = f.type, !.buf = Append(@, f)]
    BY <1>5 DEF PythonFeed, Become
  <2>2. /\ client'.phase = client.phase /\ client'.out = client.out
        /\ client'.peer = client.peer /\ client'.last = f.type
        /\ client'.error = client.error /\ client'.acked = client.acked
        /\ client'.buf = Append(client.buf, f)
    BY <2>1, ClientFacts DEF ClientStates
  <2>3. /\ DOMAIN client'.buf = 1 .. Len(client.buf) + 1 /\ DOMAIN client.buf = 1 .. Len(client.buf)
        /\ Len(client'.buf) = Len(client.buf) + 1 /\ Len(client.buf) \in Nat
        /\ client'.buf[Len(client.buf) + 1] = f
        /\ \A i \in 1 .. Len(client.buf) : client'.buf[i] = client.buf[i]
    BY <1>2, <2>2, ClientFacts
  <2>4. Nth[client.last] < Nth[f.type] /\ Nth[client.last] \in Nat /\ Nth[f.type] \in Nat
        /\ f.type \in DOMAIN Nth
    <3>1. Nth[client.last] \in Nat
      BY <1>3 DEF Nth
    <3>2. Nth[f.type] \in Nat /\ f.type \in DOMAIN Nth
      BY <1>2, ServerOrder
    <3>3. ~(Nth[f.type] <= Nth[client.last])
      BY <1>2, <1>3, <1>5, PassesTheNewer
    <3>4. QED
      BY <3>1, <3>2, <3>3
  <2>5. /\ Floor[client.phase] \in Nat /\ Floor[client.phase] <= Nth[client.last]
        /\ Len(client.buf) <= Nth[client.last]
    BY <1>1, ClientFacts DEF InOrder, ClientStates, Floor, Phases, Sending, Waiting, Established
  <2>6. \A i \in 1 .. Len(client.buf) : Nth[client.buf[i].type] \in Nat
    BY <2>3, ClientFacts, ServerOrder
  <2>7. \A i \in DOMAIN client'.buf :
           /\ Floor[client'.phase] < Nth[client'.buf[i].type]
           /\ Nth[client'.buf[i].type] <= Nth[client'.last]
    <3>1. TAKE i \in DOMAIN client'.buf
    <3>2. CASE i = Len(client.buf) + 1
      BY <2>2, <2>3, <2>4, <2>5, <3>2
    <3>3. CASE i \in 1 .. Len(client.buf)
      <4>1. /\ Floor[client.phase] < Nth[client.buf[i].type]
            /\ Nth[client.buf[i].type] <= Nth[client.last]
        BY <1>1, <2>3, <3>3, ClientFacts DEF InOrder
      <4>2. client'.buf[i] = client.buf[i] /\ Nth[client.buf[i].type] \in Nat
        BY <2>3, <2>6, <3>3
      <4>3. QED
        BY <2>2, <2>4, <4>1, <4>2
    <3>4. QED
      BY <2>3, <3>2, <3>3
  <2>8. \A i, j \in DOMAIN client'.buf :
           i < j => Nth[client'.buf[i].type] < Nth[client'.buf[j].type]
    <3>1. SUFFICES ASSUME NEW i \in DOMAIN client'.buf, NEW j \in DOMAIN client'.buf, i < j
                   PROVE  Nth[client'.buf[i].type] < Nth[client'.buf[j].type]
      OBVIOUS
    <3>2. i \in 1 .. Len(client.buf)
      BY <2>3, <3>1
    <3>3. CASE j = Len(client.buf) + 1
      <4>1. Nth[client.buf[i].type] <= Nth[client.last]
        BY <1>1, <2>3, <3>2, ClientFacts DEF InOrder
      <4>2. Nth[client.buf[i].type] \in Nat
        BY <2>6, <3>2
      <4>3. client'.buf[i] = client.buf[i] /\ client'.buf[j] = f
        BY <2>3, <3>2, <3>3
      <4>4. Nth[client.buf[i].type] < Nth[f.type]
        BY <2>4, <4>1, <4>2
      <4>5. QED
        BY <4>3, <4>4
    <3>4. CASE j \in 1 .. Len(client.buf)
      <4>1. Nth[client.buf[i].type] < Nth[client.buf[j].type]
        BY <1>1, <2>3, <3>1, <3>2, <3>4, ClientFacts DEF InOrder
      <4>2. client'.buf[i] = client.buf[i] /\ client'.buf[j] = client.buf[j]
        BY <2>3, <3>2, <3>4
      <4>3. QED
        BY <4>1, <4>2
    <3>5. QED
      BY <2>3, <3>3, <3>4
  <2>9. Floor[client'.phase] <= Nth[client'.last] /\ Len(client'.buf) <= Nth[client'.last]
    BY <2>2, <2>3, <2>4, <2>5
  <2>10. InOrder(client)'
    BY <1>1, <2>2, <2>4, <2>7, <2>8, <2>9 DEF InOrder
  <2>11. \A i \in DOMAIN client'.buf : RealChallenge(client'.buf[i])
    BY <1>2, <2>3, ClientFacts
  <2>12. QED
    BY <1>1, <1>2, <2>2, <2>10, <2>11, BufferAgrees
<1>6. QED
  BY <1>4, <1>5

LEMMA CPutAsideAgrees ==
    ASSUME IInv, Agreement, NEW f, CPutAside(f) PROVE Agreement'
<1>1. /\ kind = "c" /\ f \in toClient /\ ~f.utack /\ ClientOnly /\ UNCHANGED kind
      /\ toClient' \subseteq toClient /\ toServer' = toServer
      /\ client' \in {client, [client EXCEPT !.buf = <<f>>]}
  BY TakenShrinks DEF CPutAside, ClientOnly, config
<1>2. f \in FromServer /\ RealChallenge(f)
  BY <1>1, ToClientFrames, ClientFacts DEF IInv
<1>3. /\ client'.phase = client.phase /\ client'.out = client.out
      /\ client'.peer = client.peer /\ client'.last = client.last
      /\ client'.error = client.error /\ client'.acked = client.acked
      /\ client'.buf \in {client.buf, <<f>>}
  BY <1>1, ClientFacts DEF ClientStates
<1>4. InOrder(client)'
  <2>1. Len(<<f>>) = 1
    OBVIOUS
  <2>2. Len(client'.buf) <= 1
    <3>1. Len(client.buf) <= 1
      BY <1>1, ClientFacts DEF InOrder
    <3>2. client'.buf = client.buf \/ client'.buf = <<f>>
      BY <1>3
    <3>3. CASE client'.buf = client.buf
      BY <3>1, <3>3
    <3>4. CASE client'.buf = <<f>>
      BY <3>4
    <3>5. QED
      BY <3>2, <3>3, <3>4
  <2>3. QED
    BY <1>1, <1>3, <2>2, ClientFacts DEF InOrder
<1>5. \A i \in DOMAIN client'.buf : RealChallenge(client'.buf[i])
  BY <1>2, <1>3, ClientFacts
<1>6. QED
  BY <1>1, <1>3, <1>4, <1>5, BufferAgrees

LEMMA CReadAgrees ==
    ASSUME IInv, Agreement, NEW f, CRead(f) PROVE Agreement'
<1> DEFINE c == [client EXCEPT !.buf = <<>>]
           acks == {utack(f, <<>>)}
<1>1. /\ kind = "c" /\ ClientOnly /\ UNCHANGED kind /\ toClient' \subseteq toClient
      /\ client.phase \in Waiting \union {"established", "sent"}
  BY TakenShrinks DEF CRead, ClientOnly, config
<1>2. f \in FromServer /\ RealOk(f) /\ RealChallenge(f)
  <2>1. CASE client.buf # <<>>
    <3>1. f = client.buf[1] /\ 1 \in DOMAIN client.buf
      BY <2>1, ClientFacts DEF CRead
    <3>2. QED
      BY <3>1, ClientFacts DEF IInv, OksAreReal
  <2>2. CASE client.buf = <<>>
    <3>1. f \in toClient /\ ~f.utack
      BY <2>2 DEF CRead
    <3>2. QED
      BY <3>1, ToClientFrames, ClientFacts DEF IInv, OksAreReal
  <2>3. QED
    BY <2>1, <2>2
<1>3. acks \in SUBSET Utacks
  BY <1>2, ServerFrames, UtackTyped
<1>4. client.last \in DOMAIN Nth /\ Floor[client.phase] <= Nth[client.last]
  BY ClientFacts DEF InOrder
<1>5. /\ c \in ClientStates /\ c.phase = client.phase /\ c.out = client.out
      /\ c.peer = client.peer /\ c.last = client.last /\ c.buf = <<>>
      /\ c.error = client.error /\ c.acked = client.acked
  <2>1. <<>> \in Seq(FromServer)
    OBVIOUS
  <2>2. QED
    BY <2>1, ClientFacts DEF ClientStates
<1>6. CASE IsDuplicate(f.type, client.last, FALSE)
  <2>1. client' = c /\ toServer' = toServer \union acks
    BY <1>6 DEF CRead, Become
  <2>2. InOrder(client)'
    <3> HIDE DEF c
    <3>1. QED
      BY <1>1, <1>4, <1>5, <2>1 DEF InOrder
  <2>3. QED
    <3> HIDE DEF c, acks
    <3>1. QED
      BY <1>1, <1>3, <1>5, <2>1, <2>2, BufferAgrees
<1>7. CASE ~IsDuplicate(f.type, client.last, FALSE)
  <2> DEFINE d == [c EXCEPT !.last = f.type]
  <2>1. Handle(d, f, acks)
    BY <1>7 DEF CRead
  <2>2. Nth[client.last] < Nth[f.type] /\ Nth[client.last] \in Nat /\ Nth[f.type] \in Nat
        /\ f.type \in DOMAIN Nth /\ f.type \in Types
    <3>1. Nth[client.last] \in Nat
      BY <1>4 DEF Nth
    <3>2. Nth[f.type] \in Nat /\ f.type \in DOMAIN Nth /\ f.type \in Types
      <4>1. Nth[f.type] \in 1 .. 3 /\ f.type \in DOMAIN Nth
        BY <1>2, ServerOrder
      <4>2. f.type \in Types
        BY <1>2, ServerFrames
      <4>3. QED
        BY <4>1, <4>2
    <3>3. ~(Nth[f.type] <= Nth[client.last])
      BY <1>2, <1>4, <1>7, PassesTheNewer
    <3>4. QED
      BY <3>1, <3>2, <3>3
  <2>3. /\ d \in ClientStates /\ d.phase = client.phase /\ d.out = client.out
        /\ d.peer = client.peer /\ d.last = f.type /\ d.buf = <<>> /\ d.error = client.error
    BY <1>5, <2>2 DEF ClientStates
  <2>4. Floor[client.phase] \in Nat
    BY ClientFacts DEF ClientStates, Floor, Phases, Sending, Waiting, Established
  <2>5. Floor[d.phase] < Nth[f.type] /\ Nth[f.type] <= Nth[d.last] /\ d.last \in DOMAIN Nth
        /\ Len(d.buf) <= 1 /\ \A i \in DOMAIN d.buf : RealChallenge(d.buf[i])
    BY <1>4, <2>2, <2>3, <2>4
  <2>6. QED
    <3> HIDE DEF c, d, acks
    <3>1. QED
      BY <1>1, <1>2, <1>3, <2>1, <2>3, <2>5, HandleAgrees
<1>8. QED
  BY <1>6, <1>7

LEMMA ToClientAgrees ==
    ASSUME IInv, Agreement, NEW t, ToClient(t) PROVE Agreement'
  BY ClientUtackAgrees, PythonFeedAgrees, CPutAsideAgrees, CReadAgrees DEF ToClient

LEMMA ClientTaskAgrees == IInv /\ Agreement /\ ClientTask => Agreement'
  BY ClientResumesAgrees, PythonReadAgrees, StartDataAgrees DEF ClientTask

-----------------------------------------------------------------------------
(* The server and the network                                                *)

(* What the record r of stream s keeps of the one it replaces. *)
Keeps(s, r) ==
    /\ BufferFits(r)
    /\ stream[s].st # "unused" => r.st # "unused"
    /\ stream[s].st \in PastVerification => r.st \in PastVerification
    /\ stream[s].last = "HELLO_ACK" => r.last = "HELLO_ACK"
    /\ DataTaken(s) => \E i \in DOMAIN r.buf : r.buf[i] = Data(s)
    /\ \A i \in DOMAIN r.buf : OurData(r.buf[i])
    /\ \/ r.out = stream[s].out \/ r.out.type # "CHALLENGE"
       \/ r.out = Challenge(s) /\ r.st # "unused"

LEMMA StreamFacts ==
    ASSUME IInv, Agreement, NEW s \in Streams
    PROVE  /\ stream[s] \in StreamStates /\ stream[s].buf \in Seq(FromClient)
           /\ BufferFits(stream[s]) /\ Keeps(s, stream[s])
           /\ stream[s].st \in Active <=> handshakes = s
           /\ \A i \in DOMAIN stream[s].buf : OurAck(stream[s].buf[i])
<1>1. stream[s] \in StreamStates /\ stream[s].buf \in Seq(FromClient)
  BY DEF IInv, Typed, StreamStates
<1>2. BufferFits(stream[s]) /\ (stream[s].st \in Active <=> handshakes = s)
      /\ \A i \in DOMAIN stream[s].buf : OurData(stream[s].buf[i])
  BY DEF Agreement, TablesFit, FramesFit
<1>3. Keeps(s, stream[s])
  BY <1>2 DEF Keeps, DataTaken
<1>4. QED
  BY <1>1, <1>2, <1>3 DEF IInv, AcksAreOurs

(* What a step of the server or of the network leaves to show. *)
LEMMA ServerAgrees ==
    ASSUME IInv, Agreement, UNCHANGED <<kind, psk, timely, client>>, toServer' \subseteq toServer,
           \A s \in Streams : Keeps(s, stream'[s]),
           TablesFit',
           \A f \in toClient' : f \in toClient \/ (RealChallenge(f)' /\ AckIsTrue(f)'),
           timely => OneCookie'
    PROVE  Agreement'
<1>1. ClientFits'
  BY DEF Agreement, ClientFits, InOrder, OutFits
<1>2. \A s \in Streams : BufferFits(stream[s])'
  BY DEF Keeps, BufferFits
<1>3. \A s \in Streams : Used(s) => Used(s)'
  BY DEF Keeps, Used
<1>4. Partner => Partner'
  BY DEF Partner, Keeps, PastVerification
<1>5. FramesFit'
  <2>1. \A f : OurData(f) => OurData(f)'
    BY <1>4 DEF OurData
  <2>2. \A f \in FromServer : RealChallenge(f) => RealChallenge(f)'
    BY <1>3, ServerFrames DEF RealChallenge
  <2>3. FramesFit
    BY DEF Agreement
  <2>4. \A f \in toClient' : RealChallenge(f)'
    <3>1. SUFFICES ASSUME NEW f \in toClient, ~f.utack PROVE RealChallenge(f)'
      BY DEF RealChallenge
    <3>2. f \in FromServer /\ RealChallenge(f)
      BY <2>3, <3>1, ToClientFrames DEF IInv, FramesFit
    <3>3. QED
      BY <2>2, <3>2
  <2>5. \A i \in DOMAIN client.buf : RealChallenge(client.buf[i])'
    BY <2>2, ClientFacts
  <2>6. ASSUME NEW s \in Streams PROVE RealChallenge(stream[s].out)'
    <3>1. CASE stream'[s].out = stream[s].out
      <4>1. RealChallenge(stream[s].out) /\ stream[s].out \in FromServer \union {Hello}
        BY <2>3, StreamFacts DEF FramesFit, StreamStates
      <4>2. RealChallenge(Hello)'
        BY DEF RealChallenge, Hello, frame
      <4>3. QED
        BY <2>2, <3>1, <4>1, <4>2 DEF RealChallenge
    <3>2. CASE stream'[s].out.type # "CHALLENGE"
      BY <3>2 DEF RealChallenge
    <3>3. CASE stream'[s].out = Challenge(s) /\ stream'[s].st # "unused"
      BY <3>3 DEF RealChallenge, Challenge, frame, Used
    <3>4. QED
      BY <3>1, <3>2, <3>3 DEF Keeps
  <2>7. \A f \in toServer' : OurData(f)'
    BY <2>1, <2>3 DEF FramesFit
  <2>8. \A s \in Streams : (\A i \in DOMAIN stream[s].buf : OurData(stream[s].buf[i]))'
    BY <2>1 DEF Keeps
  <2>9. QED
    BY <2>4, <2>5, <2>6, <2>7, <2>8 DEF FramesFit
<1>6. AcksFit'
  <2>1. CookieTaken => CookieTaken'
    BY <1>3 DEF CookieTaken
  <2>2. AckTaken => AckTaken'
    BY DEF AckTaken, Keeps
  <2>3. \A s \in Streams : DataTaken(s) => DataTaken(s)'
    BY DEF DataTaken, Keeps
  <2>4. \A f : AckIsTrue(f) => AckIsTrue(f)'
    BY <2>1, <2>2, <2>3 DEF AckIsTrue
  <2>5. WritesTaken(client)'
    <3>1. client.phase \in Established => client.peer \in Streams
      BY DEF IInv, OksAreReal, Partner
    <3>2. QED
      BY <2>1, <2>2, <2>3, <3>1, ClientFacts DEF WritesTaken, Established
  <2>6. QED
    BY <2>4, <2>5 DEF Agreement, AcksFit
<1>7. QED
  BY <1>1, <1>2, <1>5, <1>6 DEF Agreement

(* The same for a step that changes only stream s. *)
LEMMA OneStreamAgrees ==
    ASSUME IInv, Agreement, UNCHANGED <<kind, psk, timely, client, sessions>>,
           toServer' \subseteq toServer,
           NEW s \in Streams, NEW r, stream' = [stream EXCEPT ![s] = r], Keeps(s, r),
           r.st \in Active <=> handshakes' = s,
           handshakes' = handshakes \/ {handshakes, handshakes'} \subseteq {None, s},
           stream[s].st = "session" => r.st = "session",
           \A f \in toClient' : f \in toClient \/ (RealChallenge(f)' /\ AckIsTrue(f)'),
           timely => OneCookie'
    PROVE  Agreement'
<1>1. \A t \in Streams : stream'[t] = IF t = s THEN r ELSE stream[t]
  BY DEF IInv, Typed
<1>2. \A t \in Streams : Keeps(t, stream'[t])
  BY <1>1, StreamFacts
<1>3. TablesFit'
  <2>1. ASSUME NEW t \in Streams PROVE stream'[t].st \in Active <=> handshakes' = t
    <3>1. CASE t = s
      BY <1>1, <3>1
    <3>2. CASE t # s
      <4>1. stream[t].st \in Active <=> handshakes = t
        BY StreamFacts
      <4>2. t # None
        BY DEF Streams, None
      <4>3. QED
        BY <1>1, <3>2, <4>1, <4>2
    <3>3. QED
      BY <3>1, <3>2
  <2>2. sessions # None => sessions \in Streams /\ stream[sessions].st = "session"
    BY DEF IInv, Typed, Agreement, TablesFit
  <2>3. sessions' # None => stream'[sessions'].st = "session"
    BY <1>1, <2>2
  <2>4. QED
    BY <2>1, <2>3 DEF TablesFit
<1>4. QED
  BY <1>2, <1>3, ServerAgrees

(* A step that leaves the streams alone. *)
LEMMA NoStreamAgrees ==
    ASSUME IInv, Agreement, UNCHANGED <<kind, psk, timely, client, stream, handshakes, sessions>>,
           toServer' \subseteq toServer,
           \A f \in toClient' : f \in toClient \/ (RealChallenge(f)' /\ AckIsTrue(f)'),
           timely => OneCookie'
    PROVE  Agreement'
<1>1. \A s \in Streams : Keeps(s, stream'[s])
  BY StreamFacts
<1>2. TablesFit'
  BY DEF Agreement, TablesFit
<1>3. QED
  BY <1>1, <1>2, ServerAgrees

(* The exchange of the cookie is not touched by a step that acknowledges     *)
(* nothing and ends no handshake before its time.                            *)
LEMMA CookieKept ==
    ASSUME OneCookie, UNCHANGED client, toServer' \subseteq toServer,
           \A a \in toClient' : a \in toClient \/ ~a.utack,
           client.phase \in Early => \A s \in Streams : stream'[s].st # "gone",
           handshakes' \in {None, handshakes}
    PROVE  OneCookie'
<1>1. \A a \in toClient' : IsCookieAck(a) => a \in toClient
  BY DEF IsCookieAck
<1>2. QED
  BY <1>1 DEF OneCookie

LEMMA HelloFrames ==
    ASSUME NEW f \in FromClient, f.type = "HELLO"
    PROVE  /\ f.body = <<>> => ~IsCookie(f)
           /\ f.body # <<>> => IsCookie(f)
<1>1. \/ f = Hello
      \/ \E b \in Nat : f = HelloCookie(<<b>>)
      \/ \E s \in Streams \union {None} : f = Data(s)
      \/ \E key \in Psks, s \in Streams : f = HelloAck(key, s)
  BY DEF FromClient
<1>2. f = Hello \/ \E b \in Nat : f = HelloCookie(<<b>>)
  BY <1>1, CookieKinds
<1>3. Hello.body = <<>> /\ \A b : HelloCookie(<<b>>).body = <<b>> /\ <<b>> # <<>>
  BY DEF Hello, HelloCookie, frame
<1>4. QED
  BY <1>2, <1>3, CookieKinds

LEMMA RetryIsHarmless == \A b : HelloRetry(b).type = "HELLO_RETRY" /\ ~HelloRetry(b).utack
  BY DEF HelloRetry, frame

(* Reading the cookie from the wire leaves no other behind. *)
LEMMA CookieRead ==
    ASSUME IInv, Agreement, timely, NEW f \in toServer, IsCookie(f), toServer' = Taken(toServer, f)
    PROVE  /\ client.peer = None /\ client.phase \notin {"hello", "await_challenge"}
           /\ \A g \in toServer' : ~IsCookie(g)
  BY ClientFacts DEF OneCookie, Taken

LEMMA HelloArrivesAgrees ==
    ASSUME IInv, Agreement, NEW f, HelloArrives(f) PROVE Agreement'
<1>1. /\ f \in toServer /\ f.type = "HELLO" /\ ~f.utack /\ handshakes = None
      /\ toServer' = Taken(toServer, f) /\ toServer' \subseteq toServer
      /\ UNCHANGED <<kind, psk, timely, client, sessions>>
  BY TakenShrinks DEF HelloArrives, ServerOnly, config
<1>2. f \in FromClient
  BY <1>1, ToServerFrames DEF IInv
<1>3. utack(f, <<>>).type = "HELLO" /\ utack(f, <<>>).seq = f.seq /\ utack(f, <<>>).utack
  BY <1>1 DEF utack
<1>4. RealChallenge(utack(f, <<>>))' /\ \A b : RealChallenge(HelloRetry(b))'
  BY <1>3, RetryIsHarmless DEF RealChallenge
<1>5. CASE f.body = <<>>
  <2>1. /\ toClient' = toClient \union {utack(f, <<>>), HelloRetry(bucket)}
        /\ UNCHANGED <<stream, handshakes>>
    BY <1>5 DEF HelloArrives
  <2>2. ~IsCookieAck(utack(f, <<>>)) /\ ~IsCookieAck(HelloRetry(bucket))
    BY <1>1, <1>2, <1>3, <1>5, HelloFrames, RetryIsHarmless DEF IsCookie, IsCookieAck
  <2>3. \A g \in toClient' : g \in toClient \/ (RealChallenge(g)' /\ AckIsTrue(g)')
    <3>1. AckIsTrue(utack(f, <<>>))'
      BY <1>3, <2>2 DEF AckIsTrue
    <3>2. \A b : AckIsTrue(HelloRetry(b))'
      BY RetryIsHarmless DEF AckIsTrue, IsCookieAck
    <3>3. QED
      BY <1>4, <2>1, <3>1, <3>2
  <2>4. timely => OneCookie'
    BY <1>1, <1>3, <2>1, <2>2, RetryIsHarmless, ClientFacts DEF OneCookie
  <2>5. QED
    BY <1>1, <2>1, <2>3, <2>4, NoStreamAgrees
<1>6. CASE f.body # <<>> /\ ~CookieValid(f.body)
  <2>1. UNCHANGED <<stream, handshakes, toClient>>
    BY <1>6 DEF HelloArrives
  <2>2. timely => OneCookie'
    BY <1>1, <2>1, ClientFacts DEF OneCookie
  <2>3. QED
    BY <1>1, <2>1, <2>2, NoStreamAgrees
<1>7. CASE f.body # <<>> /\ CookieValid(f.body)
  <2>1. PICK s \in Streams :
           /\ stream[s].st = "unused" /\ handshakes' = s
           /\ stream' = [stream EXCEPT ![s] = [Unused EXCEPT !.st = "hello", !.buf = <<f>>,
                                                             !.last = "HELLO"]]
    BY <1>7 DEF HelloArrives
  <2>2. toClient' = toClient \union {utack(f, <<>>)} /\ IsCookie(f)
    BY <1>1, <1>2, <1>7, HelloFrames DEF HelloArrives
  <2> DEFINE r == [Unused EXCEPT !.st = "hello", !.buf = <<f>>, !.last = "HELLO"]
  <2>3. /\ r.st = "hello" /\ r.buf = <<f>> /\ r.last = "HELLO" /\ r.out = Hello
        /\ \A i \in DOMAIN r.buf : i = 1 /\ r.buf[i] = f
        /\ r.buf[1] = f /\ Len(r.buf) = 1
    BY DEF Unused
  <2>4. stream[s] = Unused
    BY <2>1, StreamFacts DEF BufferFits
  <2>5. BufferFits(r)
    <3> HIDE DEF r
    <3>1. ~HasData(r.buf)
      BY <1>1, <2>3 DEF HasData
    <3>2. QED
      BY <1>1, <2>3, <3>1 DEF BufferFits
  <2>6. Keeps(s, r)
    <3> HIDE DEF r
    <3>1. ~DataTaken(s) /\ stream[s].last = "none" /\ stream[s].out = Hello
      BY <2>4 DEF Unused, DataTaken
    <3>2. QED
      BY <1>1, <2>1, <2>3, <2>5, <3>1 DEF Keeps, PastVerification, OurData
  <2>7. CookieTaken'
    <3>1. stream'[s].st = "hello"
      BY <2>1, <2>3 DEF IInv, Typed
    <3>2. QED
      BY <3>1 DEF CookieTaken, Used
  <2>8. \A g \in toClient' : g \in toClient \/ (RealChallenge(g)' /\ AckIsTrue(g)')
    BY <1>3, <1>4, <2>2, <2>7 DEF AckIsTrue
  <2>9. timely => OneCookie'
    <3>1. SUFFICES ASSUME timely PROVE OneCookie'
      OBVIOUS
    <3>2. /\ client.peer = None /\ client.phase \notin {"hello", "await_challenge"}
          /\ \A g \in toServer' : ~IsCookie(g)
      BY <1>1, <2>2, <3>1, CookieRead
    <3>3. \A t \in Streams : stream'[t].st = stream[t].st \/ stream'[t].st = "hello"
      <4> HIDE DEF r
      <4>1. QED
        BY <2>1, <2>3 DEF IInv, Typed, r
    <3>4. \A a \in toClient' : a.utack /\ a.type = "DATA" => a \in toClient
      BY <1>3, <2>2
    <3>5. QED
      BY <1>1, <3>1, <3>2, <3>3, <3>4, ClientFacts DEF OneCookie
  <2>10. r.st \in Active /\ {handshakes, handshakes'} \subseteq {None, s}
    BY <1>1, <2>1, <2>3 DEF Active
  <2>11. stream' = [stream EXCEPT ![s] = r] /\ stream[s].st # "session" /\ handshakes' = s
    BY <2>1
  <2>12. QED
    <3> HIDE DEF r
    <3>1. QED
      BY <1>1, <2>6, <2>8, <2>9, <2>10, <2>11, OneStreamAgrees
<1>8. QED
  BY <1>5, <1>6, <1>7

LEMMA ClientFrameTypes ==
    ASSUME NEW f \in FromClient
    PROVE  f.type \in {"HELLO", "HELLO_ACK", "DATA"}
<1>1. \/ f = Hello
      \/ \E b \in Nat : f = HelloCookie(<<b>>)
      \/ \E s \in Streams \union {None} : f = Data(s)
      \/ \E key \in Psks, s \in Streams : f = HelloAck(key, s)
  BY DEF FromClient
<1>2. QED
  BY <1>1, CookieKinds

(* A frame appended to a buffer that had none of its type. *)
NewTo(q, f) ==
    IF f.type = "DATA" THEN \A i \in DOMAIN q.buf : q.buf[i] # f
                       ELSE ~IsDuplicate(f.type, q.last, TRUE)

Appended(q, f, r) ==
    /\ r.st = q.st /\ r.out = q.out /\ r.buf = Append(q.buf, f)
    /\ r.last = IF f.type = "DATA" THEN q.last ELSE f.type

LEMMA AppendFits ==
    ASSUME IInv, Agreement, NEW s \in Streams, Used(s), NEW f \in FromClient, OurData(f),
           NewTo(stream[s], f), NEW r, Appended(stream[s], f, r)
    PROVE  /\ Keeps(s, r) /\ r.st = stream[s].st
           /\ f.type = "HELLO_ACK" => r.last = "HELLO_ACK"
           /\ \E i \in DOMAIN r.buf : r.buf[i] = f
<1> DEFINE buf == stream[s].buf
<1>1. /\ r.st = stream[s].st /\ r.out = stream[s].out
      /\ r.buf = Append(buf, f) /\ r.last = (IF f.type = "DATA" THEN stream[s].last ELSE f.type)
      /\ f.type # "DATA" => ~IsDuplicate(f.type, stream[s].last, TRUE)
      /\ f.type = "DATA" => \A i \in DOMAIN buf : buf[i] # f
  BY DEF Appended, NewTo
<1>2. /\ DOMAIN r.buf = 1 .. Len(buf) + 1 /\ DOMAIN buf = 1 .. Len(buf) /\ Len(buf) \in Nat
      /\ Len(r.buf) = Len(buf) + 1 /\ r.buf[Len(buf) + 1] = f
      /\ \A i \in 1 .. Len(buf) : r.buf[i] = buf[i]
  BY <1>1, StreamFacts
<1>3. /\ stream[s].last \in {"HELLO", "HELLO_ACK"} /\ BufferFits(stream[s])
      /\ \A i \in DOMAIN buf : OurData(buf[i])
  BY StreamFacts DEF BufferFits, Used, Keeps
<1>4. f.type \in {"HELLO_ACK", "DATA"}
  <2>1. f.type # "HELLO"
    BY <1>1, <1>3 DEF IsDuplicate, Rank
  <2>2. QED
    BY <2>1, ClientFrameTypes
<1>5. \A i \in DOMAIN r.buf : r.buf[i] = f \/ (i \in DOMAIN buf /\ r.buf[i] = buf[i])
  BY <1>2
<1>6. \A i \in DOMAIN buf : i \in DOMAIN r.buf /\ r.buf[i] = buf[i]
  BY <1>2
<1>7. Len(r.buf) <= (IF r.last = "HELLO_ACK" THEN 2 ELSE IF r.last = "HELLO" THEN 1 ELSE 0)
                    + (IF HasData(r.buf) THEN 1 ELSE 0)
  <2>1. CASE f.type = "HELLO_ACK"
    <3>1. stream[s].last = "HELLO" /\ r.last = "HELLO_ACK"
      BY <1>1, <1>3, <2>1 DEF IsDuplicate, Rank
    <3>2. HasData(buf) => HasData(r.buf)
      BY <1>6 DEF HasData
    <3>3. Len(buf) <= 1 + (IF HasData(buf) THEN 1 ELSE 0)
      BY <1>3, <3>1 DEF BufferFits
    <3>4. QED
      BY <1>2, <3>1, <3>2, <3>3
  <2>2. CASE f.type = "DATA"
    <3>1. ~HasData(buf)
      <4>1. \A i \in DOMAIN buf : buf[i] \in FromClient
        BY StreamFacts
      <4>2. \A i \in DOMAIN buf : buf[i].type = "DATA" => buf[i] = f
        BY <1>3, <2>2, <4>1, ClientFrames DEF OurData
      <4>3. QED
        BY <1>1, <2>2, <4>2 DEF HasData
    <3>2. HasData(r.buf)
      BY <1>2, <2>2 DEF HasData
    <3>3. Len(buf) <= IF stream[s].last = "HELLO_ACK" THEN 2 ELSE 1
      BY <1>3, <3>1 DEF BufferFits
    <3>4. r.last = stream[s].last
      BY <1>1, <2>2
    <3>5. QED
      BY <1>2, <1>3, <3>2, <3>3, <3>4
  <2>3. QED
    BY <1>4, <2>1, <2>2
<1>8. BufferFits(r)
  <2>1. r.last \in {"HELLO", "HELLO_ACK"} /\ r.st # "unused"
    BY <1>1, <1>3, <1>4 DEF Used
  <2>2. \A i \in DOMAIN r.buf : r.buf[i].type = "HELLO" => i = 1 /\ r.st \in {"hello", "gone"}
    BY <1>1, <1>3, <1>4, <1>5 DEF BufferFits
  <2>3. r.st = "hello" => r.buf[1].type = "HELLO"
    <3>1. r.st = "hello" => buf # <<>> /\ buf[1].type = "HELLO"
      BY <1>1, <1>3 DEF BufferFits, IInv, Typed
    <3>2. buf # <<>> => r.buf[1] = buf[1]
      BY <1>2, StreamFacts
    <3>3. QED
      BY <3>1, <3>2
  <2>4. QED
    BY <1>7, <2>1, <2>2, <2>3 DEF BufferFits
<1>9. \A i \in DOMAIN r.buf : OurData(r.buf[i])
  BY <1>3, <1>5
<1>10. DataTaken(s) => \E i \in DOMAIN r.buf : r.buf[i] = Data(s)
  BY <1>6 DEF DataTaken
<1>11. Keeps(s, r)
  BY <1>1, <1>3, <1>4, <1>8, <1>9, <1>10 DEF Keeps
<1>12. f.type = "HELLO_ACK" => r.last = "HELLO_ACK"
  BY <1>1
<1>13. QED
  BY <1>1, <1>2, <1>11, <1>12

LEMMA FeedAgrees ==
    ASSUME IInv, Agreement, NEW f \in toServer, ~f.utack, f.type = "HELLO" => handshakes # None,
           toServer' = Taken(toServer, f), NEW s \in Streams, s = Route(f.type), Feed(s, f),
           UNCHANGED <<kind, psk, timely, client, handshakes, sessions>>
    PROVE  Agreement'
<1>1. f \in FromClient /\ OurData(f) /\ toServer' \subseteq toServer
  BY ToServerFrames, TakenShrinks DEF IInv, Agreement, FramesFit
<1>2. Used(s) /\ \/ handshakes = s
                 \/ handshakes = None /\ f.type = "DATA" /\ stream[s].st = "session"
  <2>1. f.type # "HELLO_RETRY"
    BY <1>1, ClientFrameTypes
  <2>2. CASE handshakes = s
    BY <2>2, StreamFacts DEF Used, Active
  <2>3. CASE handshakes # s
    <3>1. handshakes = None /\ f.type = "DATA" /\ sessions = s
      BY <2>1, <2>3 DEF Route
    <3>2. s # None
      BY DEF Streams, None
    <3>3. stream[s].st = "session"
      BY <3>1, <3>2 DEF Agreement, TablesFit
    <3>4. QED
      BY <3>1, <3>3 DEF Used
  <2>4. QED
    BY <2>2, <2>3
<1>0. PICK a : a = utack(f, Keys(s))
  OBVIOUS
<1>3. /\ toClient' = toClient \union {a}
      /\ a.utack /\ a.type = f.type /\ a.seq = f.seq
      /\ a.body = IF f.type = "DATA" THEN Keys(s) ELSE <<>>
  BY <1>0 DEF Feed, utack
<1>4. /\ Keeps(s, stream'[s]) /\ stream'[s].st = stream[s].st
      /\ f.type = "HELLO_ACK" => stream'[s].last = "HELLO_ACK"
      /\ f.type = "DATA" => \E i \in DOMAIN stream'[s].buf : stream'[s].buf[i] = f
      /\ \A t \in Streams : t # s => stream'[t] = stream[t]
  <2>1. CASE \/ f.type # "DATA" /\ IsDuplicate(f.type, stream[s].last, TRUE)
             \/ f.type = "DATA" /\ \E i \in DOMAIN stream[s].buf : stream[s].buf[i] = f
    <3>1. stream' = stream
      BY <2>1 DEF Feed
    <3>2. f.type = "HELLO_ACK" => stream[s].last = "HELLO_ACK"
      <4>1. stream[s].last \in {"HELLO", "HELLO_ACK"}
        BY <1>2, StreamFacts DEF BufferFits, Used
      <4>2. QED
        BY <2>1, <4>1 DEF IsDuplicate, Rank
    <3>3. QED
      BY <2>1, <3>1, <3>2, StreamFacts
  <2>2. CASE ~ \/ f.type # "DATA" /\ IsDuplicate(f.type, stream[s].last, TRUE)
               \/ f.type = "DATA" /\ \E i \in DOMAIN stream[s].buf : stream[s].buf[i] = f
    <3>0. PICK r : r = [stream[s] EXCEPT !.buf = Append(@, f),
                                         !.last = IF f.type = "DATA" THEN @ ELSE f.type]
      OBVIOUS
    <3>1. stream' = [stream EXCEPT ![s] = r]
      BY <2>2, <3>0 DEF Feed, IInv, Typed, StreamStates
    <3>2. stream'[s] = r /\ \A t \in Streams : t # s => stream'[t] = stream[t]
      BY <3>1 DEF IInv, Typed
    <3>3. NewTo(stream[s], f)
      BY <2>2 DEF NewTo
    <3>4. Appended(stream[s], f, r)
      BY <3>0, StreamFacts DEF StreamStates, Appended
    <3>5. /\ Keeps(s, r) /\ r.st = stream[s].st
          /\ f.type = "HELLO_ACK" => r.last = "HELLO_ACK"
          /\ \E i \in DOMAIN r.buf : r.buf[i] = f
      BY <1>1, <1>2, <3>3, <3>4, AppendFits
    <3>6. QED
      BY <3>2, <3>5
  <2>3. QED
    BY <2>1, <2>2
<1>5. RealChallenge(a)' /\ AckIsTrue(a)'
  <2>1. IsCookieAck(a) => CookieTaken'
    BY <1>2, <1>4 DEF CookieTaken, Used
  <2>2. a.type = "HELLO_ACK" => AckTaken'
    BY <1>3, <1>4 DEF AckTaken
  <2>3. ASSUME NEW t \in Streams, a.type = "DATA", a.body = <<t>> PROVE DataTaken(t)'
    <3>1. t = s /\ stream[s].st \in {"ok", "session"}
      BY <1>3, <2>3 DEF Keys
    <3>2. client.peer = s
      BY <3>1 DEF IInv, Verifiers
    <3>3. f = Data(s)
      BY <1>1, <1>3, <2>3, <3>2 DEF OurData
    <3>4. QED
      BY <1>3, <1>4, <2>3, <3>1, <3>3 DEF DataTaken
  <2>4. RealChallenge(a)'
    BY <1>3 DEF RealChallenge
  <2>5. QED
    BY <2>1, <2>2, <2>3, <2>4 DEF AckIsTrue
<1>6. timely => OneCookie'
  <2>1. SUFFICES ASSUME timely PROVE OneCookie'
    OBVIOUS
  <2>2. OneCookie
    BY <2>1, ClientFacts
  <2>3. IsCookieAck(a) => IsCookie(f)
    BY <1>3 DEF IsCookieAck, IsCookie
  <2>4. f.type = "DATA" => a.body # <<>>
    <3>1. SUFFICES ASSUME f.type = "DATA" PROVE Keys(s) # <<>>
      BY <1>3
    <3>2. Partner
      BY <1>1, <3>1 DEF OurData
    <3>3. client.peer # None
      BY <3>2 DEF Partner, Streams, None
    <3>4. CASE handshakes = s
      <4>1. client.peer = s /\ stream[s].st \in Active
        BY <2>2, <3>3, <3>4, StreamFacts DEF OneCookie, Streams, None
      <4>2. stream[s].st = "ok"
        BY <3>2, <4>1 DEF Partner, Active
      <4>3. QED
        BY <4>2 DEF Keys
    <3>5. CASE stream[s].st = "session"
      BY <3>5 DEF Keys
    <3>6. QED
      BY <1>2, <3>4, <3>5
  <2>5. \A t \in Streams : stream'[t].st = stream[t].st
    BY <1>4
  <2>6. CASE IsCookie(f)
    <3>1. /\ client.peer = None /\ client.phase \notin {"hello", "await_challenge"}
          /\ \A g \in toServer' : ~IsCookie(g)
      BY <2>1, <2>6, CookieRead
    <3>2. f.type # "DATA"
      BY <2>6 DEF IsCookie
    <3>3. QED
      BY <1>1, <1>3, <2>2, <2>5, <3>1, <3>2 DEF OneCookie
  <2>7. CASE ~IsCookie(f)
    BY <1>1, <1>3, <2>2, <2>3, <2>4, <2>5, <2>7 DEF OneCookie
  <2>8. QED
    BY <2>6, <2>7
<1>7. \A t \in Streams : Keeps(t, stream'[t])
  BY <1>4, StreamFacts
<1>8. TablesFit'
  <2>1. \A t \in Streams : stream'[t].st = stream[t].st
    BY <1>4
  <2>2. sessions # None => sessions \in Streams
    BY DEF IInv, Typed
  <2>3. QED
    BY <2>1, <2>2 DEF Agreement, TablesFit
<1>9. QED
  BY <1>1, <1>3, <1>5, <1>6, <1>7, <1>8, ServerAgrees

LEMMA FrameArrivesAgrees ==
    ASSUME IInv, Agreement, NEW f, FrameArrives(f) PROVE Agreement'
<1>1. /\ f \in toServer /\ ~f.utack /\ toServer' = Taken(toServer, f)
      /\ toServer' \subseteq toServer
      /\ f.type = "HELLO" => handshakes # None
      /\ UNCHANGED <<kind, psk, timely, client, handshakes, sessions>>
  BY TakenShrinks DEF FrameArrives, ServerOnly, config
<1>2. CASE Route(f.type) = None
  <2>1. UNCHANGED <<stream, toClient>>
    BY <1>2 DEF FrameArrives
  <2>2. timely => OneCookie'
    BY <1>1, <2>1, ClientFacts DEF OneCookie
  <2>3. QED
    BY <1>1, <2>1, <2>2, NoStreamAgrees
<1>3. CASE Route(f.type) # None
  <2>1. Route(f.type) \in Streams /\ Feed(Route(f.type), f)
    BY <1>3 DEF FrameArrives, Route, IInv, Typed
  <2>2. QED
    BY <1>1, <2>1, FeedAgrees
<1>4. QED
  BY <1>2, <1>3

(* A stream that moves on without touching its buffer. *)
Moved(q, r) ==
    /\ r.buf = q.buf /\ r.last = q.last /\ r.out = q.out
    /\ \/ r.st = q.st /\ q.st # "unused"
       \/ r.st = "gone" /\ q.st # "unused"
       \/ q.st \notin {"unused", "hello", "gone"} /\ r.st \notin {"unused", "hello"}
    /\ q.st \in PastVerification => r.st \in PastVerification

LEMMA MovedFits ==
    ASSUME IInv, Agreement, NEW s \in Streams, NEW r, Moved(stream[s], r) PROVE Keeps(s, r)
<1>1. BufferFits(stream[s]) /\ Keeps(s, stream[s])
  BY StreamFacts
<1>2. r.st # "unused" /\ stream[s].st # "unused"
  BY DEF Moved
<1>3. BufferFits(r)
  BY <1>1, <1>2 DEF Moved, BufferFits
<1>4. QED
  BY <1>1, <1>2, <1>3 DEF Moved, Keeps

(* Reading the frame at the head, which is no session frame, and writing f.  *)
Sent(q, st, f, r) ==
    /\ q.st \in {"hello", "await"} /\ q.buf # <<>> /\ q.buf[1].type # "DATA"
    /\ r.buf = Tail(q.buf) /\ r.last = q.last /\ r.st = st /\ r.out = f

LEMMA SentFits ==
    ASSUME IInv, Agreement, NEW s \in Streams, NEW r, NEW st \in {"challenge", "ok"}, NEW f,
           f = Challenge(s) \/ f.type # "CHALLENGE", Sent(stream[s], st, f, r)
    PROVE  Keeps(s, r)
<1> DEFINE buf == stream[s].buf
<1>1. /\ stream[s].st \in {"hello", "await"} /\ buf # <<>> /\ buf[1].type # "DATA"
      /\ r.buf = Tail(buf) /\ r.last = stream[s].last /\ r.st = st /\ r.out = f
  BY DEF Sent
<1>2. /\ BufferFits(stream[s]) /\ buf \in Seq(FromClient)
      /\ \A i \in DOMAIN buf : OurData(buf[i])
  BY StreamFacts DEF Keeps
<1>3. /\ Len(r.buf) = Len(buf) - 1 /\ Len(buf) \in Nat
      /\ \A i \in DOMAIN r.buf : i \in Nat \ {0} /\ i + 1 \in DOMAIN buf /\ r.buf[i] = buf[i + 1]
  BY <1>1, <1>2
<1>4. \A i \in DOMAIN buf : i # 1 => i - 1 \in DOMAIN r.buf /\ r.buf[i - 1] = buf[i]
  BY <1>1, <1>2
<1>5. HasData(buf) => HasData(r.buf)
  BY <1>1, <1>4 DEF HasData
<1>6. Len(r.buf) <= (IF r.last = "HELLO_ACK" THEN 2 ELSE IF r.last = "HELLO" THEN 1 ELSE 0)
                    + (IF HasData(r.buf) THEN 1 ELSE 0)
  <2>1. Len(buf) <= (IF r.last = "HELLO_ACK" THEN 2 ELSE IF r.last = "HELLO" THEN 1 ELSE 0)
                    + (IF HasData(buf) THEN 1 ELSE 0)
    BY <1>1, <1>2 DEF BufferFits
  <2>2. QED
    BY <1>3, <1>5, <2>1
<1>7. \A i \in DOMAIN r.buf : r.buf[i].type # "HELLO"
  BY <1>2, <1>3 DEF BufferFits
<1>8. BufferFits(r)
  BY <1>1, <1>2, <1>6, <1>7 DEF BufferFits
<1>9. \A i \in DOMAIN r.buf : OurData(r.buf[i])
  BY <1>2, <1>3
<1>10. DataTaken(s) => \E i \in DOMAIN r.buf : r.buf[i] = Data(s)
  BY <1>1, <1>4, CookieKinds DEF DataTaken
<1>11. QED
  BY <1>1, <1>8, <1>9, <1>10 DEF Keeps, PastVerification

LEMMA ServerUtackAgrees ==
    ASSUME IInv, Agreement, NEW a, ServerUtack(a) PROVE Agreement'
<1>0. PICK s : s = Route(a.type)
  OBVIOUS
<1>1. /\ toServer' \subseteq toServer
      /\ UNCHANGED <<kind, psk, timely, client, handshakes, sessions, toClient>>
  BY TakenShrinks DEF ServerUtack, ServerOnly, config
<1>2. CASE stream' = stream
  <2>1. timely => OneCookie'
    BY <1>1, <1>2, ClientFacts DEF OneCookie
  <2>2. QED
    BY <1>1, <1>2, <2>1, NoStreamAgrees
<1>3. CASE /\ s # None /\ stream[s].st \in {"challenge", "ok"}
           /\ stream' = [stream EXCEPT ![s].acked = TRUE]
  <2>1. s \in Streams
    BY <1>0, <1>3 DEF Route, IInv, Typed
  <2>2. PICK r : r = [stream[s] EXCEPT !.acked = TRUE]
    OBVIOUS
  <2>3. stream' = [stream EXCEPT ![s] = r]
    BY <1>3, <2>1, <2>2 DEF IInv, Typed, StreamStates
  <2>4. Moved(stream[s], r) /\ r.st = stream[s].st
    BY <1>3, <2>1, <2>2, StreamFacts DEF StreamStates, Moved
  <2>5. r.st \in Active <=> handshakes' = s
    BY <1>1, <2>1, <2>4, StreamFacts
  <2>6. timely => OneCookie'
    <3>1. \A t \in Streams : stream'[t].st = stream[t].st
      BY <2>1, <2>3, <2>4 DEF IInv, Typed
    <3>2. QED
      BY <1>1, <3>1, ClientFacts DEF OneCookie
  <2>7. Keeps(s, r)
    BY <2>1, <2>4, MovedFits
  <2>8. QED
    BY <1>1, <2>1, <2>3, <2>4, <2>5, <2>6, <2>7, OneStreamAgrees
<1>4. QED
  BY <1>0, <1>2, <1>3 DEF ServerUtack

LEMMA ToServerAgrees ==
    ASSUME IInv, Agreement, NEW t, ToServer(t) PROVE Agreement'
  BY HelloArrivesAgrees, FrameArrivesAgrees, ServerUtackAgrees DEF ToServer

(* Reading one frame and writing f. *)
LEMMA SendsAgrees ==
    ASSUME IInv, Agreement, ServerOnly, UNCHANGED <<handshakes, sessions, toServer>>,
           NEW s \in Streams, NEW st \in {"challenge", "ok"}, NEW f,
           f = Challenge(s) \/ f.type # "CHALLENGE", ~f.utack,
           stream[s].st \in {"hello", "await"}, stream[s].buf # <<>>,
           stream[s].buf[1].type # "DATA", ServerSends(s, st, f)
    PROVE  Agreement'
<1>1. UNCHANGED <<kind, psk, timely, client>> /\ toClient' = toClient \union {f}
  BY DEF ServerOnly, config, ServerSends
<1>2. PICK r : r = [stream[s] EXCEPT !.st = st, !.out = f, !.acked = FALSE, !.buf = Tail(@)]
  OBVIOUS
<1>3. stream' = [stream EXCEPT ![s] = r]
  BY <1>2 DEF ServerSends, IInv, Typed, StreamStates
<1>4. Sent(stream[s], st, f, r)
  BY <1>2, StreamFacts DEF StreamStates, Sent
<1>5. Keeps(s, r)
  BY <1>4, SentFits
<1>6. r.st = st /\ r.st \in Active /\ handshakes = s
  BY <1>4, StreamFacts DEF Sent, Active
<1>7. stream'[s].st = st /\ \A t \in Streams : t # s => stream'[t] = stream[t]
  BY <1>3, <1>6 DEF IInv, Typed
<1>8. RealChallenge(f)' /\ AckIsTrue(f)'
  <2>1. Challenge(s).body[1] = s
    BY DEF Challenge, frame
  <2>2. QED
    BY <1>7, <2>1 DEF RealChallenge, AckIsTrue, IsCookieAck, Used
<1>9. timely => OneCookie'
  BY <1>1, <1>7, ClientFacts, CookieKept DEF OneCookie
<1>10. QED
  BY <1>1, <1>3, <1>5, <1>6, <1>8, <1>9, OneStreamAgrees

LEMMA ReadHelloAgrees ==
    ASSUME IInv, Agreement, NEW s \in Streams, ReadHello(s) PROVE Agreement'
<1>1. /\ stream[s].st = "hello" /\ ServerSends(s, "challenge", Challenge(s)) /\ ServerOnly
      /\ UNCHANGED <<handshakes, sessions, toServer>>
  BY DEF ReadHello
<1>2. stream[s].buf # <<>> /\ stream[s].buf[1].type = "HELLO"
  BY <1>1, StreamFacts DEF BufferFits, IInv, Typed
<1>3. ~Challenge(s).utack
  BY DEF Challenge, frame
<1>4. QED
  BY <1>1, <1>2, <1>3, SendsAgrees

(* The stream leaves the table.  On a timely network that happens only once  *)
(* the client has failed or has shown that it does not know the PSK.         *)
LEMMA DropAgrees ==
    ASSUME IInv, Agreement, ServerOnly, UNCHANGED <<sessions, toServer, toClient>>,
           NEW s \in Streams, stream[s].st \in Active, Drop(s),
           timely => client.phase \notin Early
    PROVE  Agreement'
<1>1. UNCHANGED <<kind, psk, timely, client>> /\ handshakes = s /\ handshakes' = None
  BY StreamFacts DEF ServerOnly, config, Drop
<1>2. PICK r : r = [stream[s] EXCEPT !.st = "gone"]
  OBVIOUS
<1>3. stream' = [stream EXCEPT ![s] = r]
  BY <1>2 DEF Drop, IInv, Typed, StreamStates
<1>4. Moved(stream[s], r) /\ r.st = "gone"
  BY <1>2, StreamFacts DEF StreamStates, Moved, Active, PastVerification
<1>5. Keeps(s, r)
  BY <1>4, MovedFits
<1>6. timely => OneCookie'
  BY <1>1, ClientFacts, CookieKept
<1>7. s # None /\ stream[s].st # "session" /\ r.st \notin Active
  BY <1>4 DEF Streams, None, Active
<1>8. QED
  BY <1>1, <1>3, <1>5, <1>6, <1>7, OneStreamAgrees

LEMMA ChallengeTakenAgrees ==
    ASSUME IInv, Agreement, NEW s \in Streams, ChallengeTaken(s) PROVE Agreement'
<1>1. /\ UNCHANGED <<kind, psk, timely, client, handshakes, sessions, toServer, toClient>>
      /\ stream[s].st = "challenge"
  BY DEF ChallengeTaken, ServerOnly, config
<1>2. PICK r : r = [stream[s] EXCEPT !.st = "await"]
  OBVIOUS
<1>3. stream' = [stream EXCEPT ![s] = r]
  BY <1>2 DEF ChallengeTaken, IInv, Typed, StreamStates
<1>4. Moved(stream[s], r) /\ r.st = "await"
  BY <1>1, <1>2, StreamFacts DEF StreamStates, Moved, PastVerification
<1>5. Keeps(s, r)
  BY <1>4, MovedFits
<1>6. r.st \in Active /\ handshakes = s
  BY <1>1, <1>4, StreamFacts DEF Active
<1>7. timely => OneCookie'
  <2>1. \A t \in Streams : stream'[t].st = stream[t].st \/ stream'[t].st = "await"
    BY <1>3, <1>4 DEF IInv, Typed
  <2>2. QED
    BY <1>1, <2>1, ClientFacts, CookieKept DEF OneCookie
<1>8. QED
  BY <1>1, <1>3, <1>5, <1>6, <1>7, OneStreamAgrees

LEMMA ReadHelloAckAgrees ==
    ASSUME IInv, Agreement, NEW s \in Streams, ReadHelloAck(s) PROVE Agreement'
<1>1. /\ stream[s].st = "await" /\ stream[s].buf # <<>> /\ UNCHANGED <<sessions, toServer>>
      /\ ServerOnly
  BY DEF ReadHelloAck
<1>2. PICK f : f = Head(stream[s].buf)
  OBVIOUS
<1>3. f = stream[s].buf[1] /\ 1 \in DOMAIN stream[s].buf /\ f \in FromClient
  BY <1>1, <1>2, StreamFacts
<1>4. f.type \in {"HELLO_ACK", "DATA"}
  <2>1. f.type # "HELLO"
    BY <1>1, <1>3, StreamFacts DEF BufferFits
  <2>2. QED
    BY <1>3, <2>1, ClientFrameTypes
<1>5. CASE Verifies(s, f)
  <2>1. ServerSends(s, "ok", SessionOk(ServerPsk, s)) /\ UNCHANGED handshakes
    BY <1>2, <1>5 DEF ReadHelloAck
  <2>2. stream[s].buf[1].type # "DATA"
    BY <1>3, <1>5, CookieKinds DEF Verifies
  <2>3. SessionOk(ServerPsk, s).type # "CHALLENGE" /\ ~SessionOk(ServerPsk, s).utack
    BY DEF SessionOk, frame
  <2>4. QED
    BY <1>1, <2>1, <2>2, <2>3, SendsAgrees
<1>6. CASE ~Verifies(s, f)
  <2>1. Drop(s) /\ UNCHANGED toClient
    BY <1>2, <1>6 DEF ReadHelloAck
  <2>2. client.phase \notin Early
    <3>1. OurAck(f) /\ OurData(f) /\ ~f.utack
      BY <1>3, StreamFacts, ClientFrames DEF Keeps
    <3>2. QED
      BY <1>4, <3>1 DEF OurAck, OurData, Partner
  <2>3. QED
    BY <1>1, <2>1, <2>2, DropAgrees DEF Active
<1>7. QED
  BY <1>5, <1>6

(* The session the new one replaces is closed. *)
LEMMA EstablishAgrees ==
    ASSUME IInv, Agreement, NEW s \in Streams, Establish(s) PROVE Agreement'
<1>1. /\ UNCHANGED <<kind, psk, timely, client, toServer, toClient>>
      /\ sessions' = s /\ handshakes' = None /\ stream[s].st = "ok"
  BY DEF Establish, ServerOnly, config
<1>2. \A r \in Streams :
         stream'[r] = [stream[r] EXCEPT
             !.st = IF r = s THEN "session" ELSE IF r = sessions THEN "gone" ELSE @]
  BY DEF Establish
<1>3. handshakes = s
  BY <1>1, StreamFacts DEF Active
<1>4. ASSUME NEW r \in Streams
      PROVE  Keeps(r, stream'[r]) /\ stream'[r].st \notin Active
             /\ (r = s => stream'[r].st = "session")
  <2>1. PICK old : old = stream[r]
    OBVIOUS
  <2>2. PICK new : new = stream'[r]
    OBVIOUS
  <2>3. new = [old EXCEPT !.st = IF r = s THEN "session"
                                 ELSE IF r = sessions THEN "gone" ELSE @]
    BY <1>2, <2>1, <2>2
  <2>4. old \in StreamStates /\ (old.st \in Active <=> handshakes = r) /\ BufferFits(old)
        /\ Keeps(r, old)
    BY <2>1, StreamFacts
  <2>5. new.buf = old.buf /\ new.last = old.last /\ new.out = old.out
        /\ new.st = IF r = s THEN "session" ELSE IF r = sessions THEN "gone" ELSE old.st
    BY <2>3, <2>4 DEF StreamStates
  <2>6. CASE r = s
    <3>1. Moved(old, new)
      BY <1>1, <2>1, <2>5, <2>6 DEF Moved, PastVerification
    <3>2. QED
      BY <2>1, <2>2, <2>5, <2>6, <3>1, MovedFits DEF Active
  <2>7. CASE r # s /\ r = sessions
    <3>1. old.st = "session"
      BY <2>1, <2>7 DEF Agreement, TablesFit, Streams, None
    <3>2. Moved(old, new)
      BY <2>5, <2>7, <3>1 DEF Moved, PastVerification
    <3>3. QED
      BY <2>1, <2>2, <2>5, <2>7, <3>2, MovedFits DEF Active
  <2>8. CASE r # s /\ r # sessions
    <3>1. new = old
      BY <2>3, <2>4, <2>8 DEF StreamStates
    <3>2. old.st \notin Active
      BY <1>3, <2>4, <2>8
    <3>3. QED
      BY <2>1, <2>2, <2>4, <2>8, <3>1, <3>2
  <2>9. QED
    BY <2>6, <2>7, <2>8
<1>5. TablesFit'
  <2>1. \A r \in Streams : r # None
    BY DEF Streams, None
  <2>2. QED
    BY <1>1, <1>4, <2>1 DEF TablesFit
<1>6. timely => OneCookie'
  <2>1. client.phase \notin Early
    BY <1>1 DEF IInv, Verifiers
  <2>2. QED
    BY <1>1, <2>1, ClientFacts, CookieKept
<1>7. QED
  BY <1>1, <1>4, <1>5, <1>6, ServerAgrees

LEMMA ServerRetransmitAgrees ==
    ASSUME IInv, Agreement, NEW s \in Streams, ServerRetransmit(s) PROVE Agreement'
<1>1. /\ UNCHANGED <<kind, psk, timely, client, stream, handshakes, sessions, toServer>>
      /\ toClient' = toClient \union {stream[s].out} /\ stream[s].st \in {"challenge", "ok"}
  BY DEF ServerRetransmit, ServerOnly, config
<1>2. PICK f : f = stream[s].out
  OBVIOUS
<1>3. f \in FromServer /\ ~f.utack /\ RealChallenge(f)
  BY <1>1, <1>2, ServerFrames DEF IInv, Typed, Agreement, FramesFit
<1>4. RealChallenge(f)' /\ AckIsTrue(f)'
  BY <1>1, <1>3 DEF RealChallenge, Used, AckIsTrue, IsCookieAck
<1>5. timely => OneCookie'
  <2>1. \A a \in toClient' : a \in toClient \/ ~a.utack
    BY <1>1, <1>2, <1>3
  <2>2. timely /\ client.phase \in Early => \A t \in Streams : stream'[t].st # "gone"
    BY <1>1, ClientFacts DEF OneCookie
  <2>3. QED
    BY <1>1, <2>1, <2>2, ClientFacts, CookieKept
<1>6. QED
  BY <1>1, <1>2, <1>4, <1>5, NoStreamAgrees

LEMMA ServerGivesUpAgrees ==
    ASSUME IInv, Agreement, NEW s \in Streams, ServerGivesUp(s) PROVE Agreement'
<1>1. /\ stream[s].st \in Active /\ ServerOnly /\ Drop(s)
      /\ UNCHANGED <<sessions, toServer, toClient>>
  BY DEF ServerGivesUp, Active
<1>2. timely => client.phase \notin Early
  BY DEF ServerGivesUp, Early
<1>3. QED
  BY <1>1, <1>2, DropAgrees

LEMMA LoseAgrees == IInv /\ Agreement /\ Lose => Agreement'
<1> SUFFICES ASSUME IInv, Agreement, Lose PROVE Agreement'
  OBVIOUS
<1>1. /\ UNCHANGED <<kind, psk, timely, client, stream, handshakes, sessions>>
      /\ toServer' \subseteq toServer /\ toClient' \subseteq toClient
  BY DEF Lose, config
<1>2. timely => OneCookie'
  <2>1. timely /\ client.phase \in Early => \A t \in Streams : stream'[t].st # "gone"
    BY <1>1, ClientFacts DEF OneCookie
  <2>2. QED
    BY <1>1, <2>1, ClientFacts, CookieKept
<1>3. QED
  BY <1>1, <1>2, NoStreamAgrees

(* The clock, and a step that changes nothing. *)
LEMMA TickAgrees ==
    ASSUME IInv, Agreement, Tick \/ UNCHANGED vars PROVE Agreement'
<1>1. UNCHANGED <<kind, psk, timely, client, stream, handshakes, sessions, toServer, toClient>>
  BY DEF Tick, config, vars
<1>2. timely => OneCookie'
  BY <1>1, ClientFacts DEF OneCookie
<1>3. QED
  BY <1>1, <1>2, NoStreamAgrees

LEMMA InitAgreement == Init => Agreement
<1> SUFFICES ASSUME Init PROVE Agreement
  OBVIOUS
<1>1. ~Hello.utack /\ Hello.type = "HELLO" /\ Hello.seq = 0
  BY DEF Hello, frame
<1>2. /\ client.phase = "hello" /\ client.out = Hello /\ client.acked = FALSE
      /\ client.buf = <<>> /\ client.last = "none" /\ client.peer = None
      /\ client.error = "none"
  BY DEF Init
<1>3. /\ \A s \in Streams : stream[s] = Unused
      /\ handshakes = None /\ sessions = None /\ toServer = {Hello} /\ toClient = {}
  BY DEF Init
<1>4. /\ Unused.st = "unused" /\ Unused.out = Hello /\ Unused.buf = <<>>
      /\ Unused.last = "none"
  BY DEF Unused
<1>5. ClientFits
  <2>1. InOrder(client)
    BY <1>2 DEF InOrder, Nth, Floor
  <2>2. OutFits(client)
    BY <1>2 DEF OutFits
  <2>3. QED
    BY <1>2, <2>1, <2>2 DEF ClientFits
<1>6. \A s \in Streams : BufferFits(stream[s])
  BY <1>3, <1>4 DEF BufferFits, HasData
<1>7. TablesFit
  BY <1>3, <1>4 DEF TablesFit, Active, Streams, None
<1>8. FramesFit
  BY <1>1, <1>2, <1>3, <1>4 DEF FramesFit, RealChallenge, OurData
<1>9. AcksFit
  BY <1>2, <1>3 DEF AcksFit, WritesTaken
<1>10. OneCookie
  BY <1>1, <1>2, <1>3, <1>4 DEF OneCookie, IsCookie
<1>11. QED
  BY <1>5, <1>6, <1>7, <1>8, <1>9, <1>10 DEF Agreement

LEMMA NextAgreement == IInv /\ Agreement /\ [Next]_vars => Agreement'
<1> SUFFICES ASSUME IInv, Agreement, [Next]_vars PROVE Agreement'
  OBVIOUS
<1>1. CASE ClientTask
  BY <1>1, ClientTaskAgrees
<1>2. CASE ClientRetransmit
  BY <1>2, ClientRetransmitAgrees
<1>3. CASE ClientGivesUp
  BY <1>3, ClientGivesUpAgrees
<1>4. ASSUME NEW s \in Streams, ServerTask(s) \/ ServerRetransmit(s) \/ ServerGivesUp(s)
      PROVE  Agreement'
  BY <1>4, ReadHelloAgrees, ChallengeTakenAgrees, ReadHelloAckAgrees, EstablishAgrees,
     ServerRetransmitAgrees, ServerGivesUpAgrees DEF ServerTask
<1>5. ASSUME NEW t \in Types, ToClient(t) \/ ToServer(t) PROVE Agreement'
  BY <1>5, ToClientAgrees, ToServerAgrees
<1>6. CASE Lose
  BY <1>6, LoseAgrees
<1>7. CASE Tick \/ UNCHANGED vars
  BY <1>7, TickAgrees
<1>8. QED
  BY <1>1, <1>2, <1>3, <1>4, <1>5, <1>6, <1>7 DEF Next

LEMMA AgreementHolds == Spec => [](IInv /\ Agreement)
<1>1. Init => IInv /\ Agreement
  BY InitIInv, InitAgreement
<1>2. IInv /\ Agreement /\ [Next]_vars => (IInv /\ Agreement)'
  BY NextIInv, NextAgreement
<1>3. QED
  BY <1>1, <1>2, PTL DEF Spec

-----------------------------------------------------------------------------
(* What follows                                                              *)

(* Every variable keeps its type, and the buffers their bounds: a Python     *)
(* client never holds more than three frames, a C client one, and a stream   *)
(* of the server three, whatever the network repeats.                        *)
THEOREM TypeCorrect == Spec => []TypeOK
<1>1. IInv /\ Agreement => TypeOK
  <2> SUFFICES ASSUME IInv, Agreement PROVE TypeOK
    OBVIOUS
  <2>1. /\ client.phase \in Phases /\ client.error \in {"none", "transport", "protocol", "auth"}
        /\ client.peer \in Streams \union {None}
    BY ClientFacts DEF ClientStates
  <2>2. Len(client.buf) <= IF kind = "c" THEN 1 ELSE 3
    <3>1. /\ client.last \in DOMAIN Nth /\ (kind = "c" => Len(client.buf) <= 1)
          /\ (kind # "c" => Len(client.buf) <= Nth[client.last]) /\ Len(client.buf) \in Nat
      BY ClientFacts DEF InOrder
    <3>2. Nth[client.last] \in 0 .. 3
      BY <3>1 DEF Nth
    <3>3. QED
      BY <3>1, <3>2
  <2>3. ASSUME NEW s \in Streams
        PROVE  /\ stream[s].st \in {"unused", "hello", "challenge", "await", "ok",
                                    "session", "gone"}
               /\ Len(stream[s].buf) <= 3
    <3>1. stream[s] \in StreamStates /\ BufferFits(stream[s]) /\ Len(stream[s].buf) \in Nat
      BY StreamFacts
    <3>2. Len(stream[s].buf) <= 3
      BY <3>1 DEF BufferFits
    <3>3. QED
      BY <3>1, <3>2 DEF StreamStates
  <2>4. {handshakes, sessions} \subseteq Streams \union {None}
    BY DEF IInv, Typed
  <2>5. \A d \in toServer \union toClient : d.type \in Types
    BY ServerFrames, ClientFrames DEF IInv, Typed, Utacks
  <2>6. QED
    BY <2>1, <2>2, <2>3, <2>4, <2>5 DEF TypeOK, Phases
<1>2. QED
  BY <1>1, AgreementHolds, PTL

(* A client that holds the right PSK never sees a frame out of its turn, in  *)
(* whatever order and however often the three server frames arrive.          *)
THEOREM NeverOutOfTurn == Spec => []NoProtocolError
<1>1. IInv /\ Agreement => NoProtocolError
  BY DEF Agreement, ClientFits, NoProtocolError
<1>2. QED
  BY <1>1, AgreementHolds, PTL

(* A write that returned was taken, for each of the three writes that wait   *)
(* for a UTACK, although the UTACKs of the handshake name a frame by its     *)
(* type and sequence alone.                                                  *)
THEOREM WritesArrive == Spec => []AckMeansTaken
<1>1. IInv /\ Agreement => AckMeansTaken
  BY DEF Agreement, AcksFit, WritesTaken, CookieTaken, AckTaken, DataTaken, Used, AckMeansTaken
<1>2. QED
  BY <1>1, AgreementHolds, PTL

(* On a timely network no session frame is acknowledged by a stream without  *)
(* keys.                                                                     *)
THEOREM AcksAreSigned == Spec => []SessionAcksSigned
<1>1. IInv /\ Agreement => SessionAcksSigned
  BY DEF Agreement, OneCookie, SessionAcksSigned
<1>2. QED
  BY <1>1, AgreementHolds, PTL
==============================================================================
