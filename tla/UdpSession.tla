----------------------------- MODULE UdpSession -----------------------------
(* Two Python peers in an established session over UDP: USMPSession          *)
(* (_session.py) on top of UDPStream (transport/udp.py) at each end.         *)
(*                                                                           *)
(* A coroutine runs alone between two awaits, so an action is the code from  *)
(* one await to the next.  An operation holds _send_lock from its first      *)
(* frame to its last; job[p] is the operation holding it.  feed_packet is a  *)
(* callback of the event loop and runs at any point in between, as does the  *)
(* recv coroutine, which takes no lock unless it must answer a PING.         *)
(*                                                                           *)
(* Keys: rotations always derive both directions together, so one value      *)
(* gen[p], the sequence of salts mixed in so far, stands for p's key pair.   *)
(* A frame decrypts, and a UTACK verifies, when its gen is the receiver's.   *)
EXTENDS Window, Sequences, FiniteSets

CONSTANTS
    MaxFrags,                 \* USMP_MAX_FRAMES, 4 in the code
    BufferCap,                \* MAX_READ_BUFFER in frames, 8 full ones in the code
    CtrlLimit,                \* control frames per second one recv() call accepts, 8
    MaxMsgs,                  \* messages one application may send, by the scripts
    Scripts,                  \* what the applications call, on any network
    TimelyScripts,            \* what they call on a timely one
    InterruptedScripts        \* what they call when operations may be cut short

Peers == {"A", "B"}
Other(p) == CHOOSE q \in Peers : q # p

ASSUME UdpSessionAssumption ==
    {MaxFrags, BufferCap, CtrlLimit} \subseteq Nat \ {0}

(* A message of more than MaxFrags fragments is refused before it is sent. *)
Operations == [op : {"send"}, frags : 1 .. MaxFrags] \union [op : {"rekey", "ping", "bye"}]

Sends(s) == Cardinality({i \in DOMAIN s : s[i].op = "send"})

AreScripts(S) ==
    \A s \in S : /\ s \in [Peers -> Seq(Operations)]
                 /\ \A p \in Peers : Sends(s[p]) <= MaxMsgs

ASSUME ScriptsAssumption ==
    MaxMsgs \in Nat /\ AreScripts(Scripts \union TimelyScripts \union InterruptedScripts)

VARIABLES
    script,                   \* what each application has still to call
    gen,                      \* the keys: SessionInfo and UDPStream hold the same pair
    tx_seq, rx_seq, rx_window_bitmap,   \* SessionInfo
    last_rx_seq,              \* UDPStream._last_rx_seq
    read_buffer,              \* UDPStream._read_buffer, one frame per datagram
    job,                      \* the operation that holds _send_lock
    rcv,                      \* the local state of the running recv() call
    up,                       \* the session is in use and its stream open
    timely,                   \* the network: no datagram outlives its timer
    interrupts,               \* recv(timeout) may expire, and applications catch
                              \* what a failed operation raises and go on
    net, acks,                \* datagrams on the way to each peer
    salts,                    \* REKEY salts drawn so far
    sent, got,                \* history: messages sent by p, messages p's peer got
    confirmed                 \* history: fragments of p whose write_frame returned

keyvars == <<gen, tx_seq, rx_seq, rx_window_bitmap>>
history == <<timely, interrupts, sent, got, confirmed>>
vars == <<script, keyvars, last_rx_seq, read_buffer, job, rcv, up, net, acks, salts, history>>

Idle == [op |-> "none"]
Reading == [asm |-> <<>>, expected |-> 0, ctrl |-> 0, pong |-> FALSE]

(* A fresh session whose applications run one of the scripts. *)
InitWith(any, onTimely, interrupted) ==
    /\ \/ script \in any /\ timely = FALSE /\ interrupts = FALSE
       \/ script \in onTimely /\ timely = TRUE /\ interrupts = FALSE
       \/ script \in interrupted /\ timely = FALSE /\ interrupts = TRUE
    /\ gen = [p \in Peers |-> <<>>]
    /\ tx_seq = [p \in Peers |-> 0]
    /\ rx_seq = [p \in Peers |-> 0]
    /\ rx_window_bitmap = [p \in Peers |-> {}]
    /\ last_rx_seq = [p \in Peers |-> -1]
    /\ read_buffer = [p \in Peers |-> <<>>]
    /\ job = [p \in Peers |-> Idle]
    /\ rcv = [p \in Peers |-> Reading]
    /\ up = [p \in Peers |-> TRUE]
    /\ net = [p \in Peers |-> {}]
    /\ acks = [p \in Peers |-> {}]
    /\ salts = 0
    /\ sent = [p \in Peers |-> <<>>]
    /\ got = [p \in Peers |-> <<>>]
    /\ confirmed = [p \in Peers |-> {}]

Init == InitWith(Scripts, TimelyScripts, InterruptedScripts)

-----------------------------------------------------------------------------
(* Sending                                                                   *)

(* Fragment i of message m of peer p, which has n fragments. *)
Message(p, m, n) == [i \in 1 .. n |-> <<p, m, i>>]
FragType(i, n) == IF i < n THEN "DATA_FRAG" ELSE "DATA"

(* Seal a frame, burn the sequence, put the datagram out and wait for its    *)
(* UTACK: _send_encrypted_locked up to the await inside drain().             *)
Emit(p, o, type, data) ==
    LET f == [gen |-> gen[p], type |-> type, seq |-> tx_seq[p], data |-> data]
    IN  /\ job' = [job EXCEPT ![p] = [op |-> o, frame |-> f, acked |-> FALSE]]
        /\ tx_seq' = [tx_seq EXCEPT ![p] = @ + 1]
        /\ net' = [net EXCEPT ![Other(p)] = @ \union {f}]

(* Rotating the keys restarts the sequences and the window, but not the      *)
(* stream's own _last_rx_seq.                                                *)
Rotate(p, salt) ==
    /\ gen' = [gen EXCEPT ![p] = Append(@, salt)]
    /\ tx_seq' = [tx_seq EXCEPT ![p] = 0]
    /\ rx_seq' = [rx_seq EXCEPT ![p] = 0]
    /\ rx_window_bitmap' = [rx_window_bitmap EXCEPT ![p] = {}]

Pop(p) == script' = [script EXCEPT ![p] = Tail(@)]
Ready(p, o) == up[p] /\ job[p] = Idle /\ script[p] # <<>> /\ Head(script[p]).op = o

StartSend(p) ==
    /\ Ready(p, "send")
    /\ Pop(p)
    /\ LET n == Head(script[p]).frags
           m == Message(p, Len(sent[p]) + 1, n)
       IN  /\ sent' = [sent EXCEPT ![p] = Append(@, m)]
           /\ Emit(p, "send", FragType(1, n), m[1])
    /\ UNCHANGED <<gen, rx_seq, rx_window_bitmap, last_rx_seq, read_buffer, rcv, up,
                   acks, salts, timely, interrupts, got, confirmed>>

StartRekey(p) ==
    /\ Ready(p, "rekey")
    /\ Pop(p)
    /\ salts' = salts + 1
    /\ Emit(p, "rekey", "REKEY", <<salts + 1>>)
    /\ UNCHANGED <<gen, rx_seq, rx_window_bitmap, last_rx_seq, read_buffer, rcv, up,
                   acks, history>>

StartPing(p) ==
    /\ Ready(p, "ping")
    /\ Pop(p)
    /\ Emit(p, "ping", "PING", <<>>)
    /\ UNCHANGED <<gen, rx_seq, rx_window_bitmap, last_rx_seq, read_buffer, rcv, up,
                   acks, salts, history>>

StartBye(p) ==
    /\ Ready(p, "bye")
    /\ Pop(p)
    /\ Emit(p, "bye", "BYE", <<>>)
    /\ UNCHANGED <<gen, rx_seq, rx_window_bitmap, last_rx_seq, read_buffer, rcv, up,
                   acks, salts, history>>

(* The recv coroutine gets the lock to answer a PING. *)
StartPong(p) ==
    /\ up[p] /\ job[p] = Idle /\ rcv[p].pong
    /\ Emit(p, "pong", "PONG", <<>>)
    /\ UNCHANGED <<script, gen, rx_seq, rx_window_bitmap, last_rx_seq, read_buffer, rcv,
                   up, acks, salts, history>>

(* The stop-and-wait timer expires before the UTACK came.  On a timely       *)
(* network neither the datagram nor its UTACK can still be on the way.       *)
Retransmit(p) ==
    /\ timely
    /\ up[p] /\ job[p] # Idle /\ ~job[p].acked
    /\ job[p].frame \notin net[Other(p)]
    /\ \A a \in acks[p] : <<a.type, a.seq>> # <<job[p].frame.type, job[p].frame.seq>>
    /\ net' = [net EXCEPT ![Other(p)] = @ \union {job[p].frame}]
    /\ UNCHANGED <<script, keyvars, last_rx_seq, read_buffer, job, rcv, up, acks, salts,
                   history>>

(* write_frame returned and the message goes on: the next fragment leaves    *)
(* under whatever keys and sequence the session holds by now.                *)
NextFragment(p) ==
    /\ up[p] /\ job[p] # Idle /\ job[p].acked
    /\ job[p].frame.type = "DATA_FRAG"
    /\ LET d == job[p].frame.data
           m == sent[p][d[2]]
       IN  Emit(p, "send", FragType(d[3] + 1, Len(m)), m[d[3] + 1])
    /\ UNCHANGED <<script, gen, rx_seq, rx_window_bitmap, last_rx_seq, read_buffer, rcv,
                   up, acks, salts, history>>

(* One control frame more in this recv() call; the count restarts when the   *)
(* one-second bucket has expired.                                            *)
CountCtrl(p, fresh) ==
    LET c == IF fresh THEN 1 ELSE rcv[p].ctrl + 1
    IN  /\ rcv' = [rcv EXCEPT ![p].ctrl = c, ![p].pong = FALSE]
        /\ up' = [up EXCEPT ![p] = c <= CtrlLimit]

(* write_frame returned after the operation's last frame. *)
FinishSend(p) ==
    /\ job[p] # Idle /\ job[p].acked /\ job[p].frame.type = "DATA"
    /\ job' = [job EXCEPT ![p] = Idle]
    /\ confirmed' = [confirmed EXCEPT ![p] = @ \union {job[p].frame.data[2]}]
    /\ UNCHANGED <<script, keyvars, last_rx_seq, read_buffer, rcv, up, net, acks, salts,
                   timely, interrupts, sent, got>>

FinishRekey(p) ==
    /\ job[p] # Idle /\ job[p].acked /\ job[p].op = "rekey"
    /\ job' = [job EXCEPT ![p] = Idle]
    /\ Rotate(p, job[p].frame.data[1])
    /\ UNCHANGED <<script, last_rx_seq, read_buffer, rcv, up, net, acks, salts, history>>

FinishPing(p) ==
    /\ job[p] # Idle /\ job[p].acked /\ job[p].op = "ping"
    /\ job' = [job EXCEPT ![p] = Idle]
    /\ UNCHANGED <<script, keyvars, last_rx_seq, read_buffer, rcv, up, net, acks, salts,
                   history>>

FinishPong(p) ==
    /\ job[p] # Idle /\ job[p].acked /\ job[p].op = "pong"
    /\ job' = [job EXCEPT ![p] = Idle]
    /\ \E fresh \in BOOLEAN : CountCtrl(p, fresh)
    /\ UNCHANGED <<script, keyvars, last_rx_seq, read_buffer, net, acks, salts, history>>

(* BYE acknowledged or given up: either way the stream closes. *)
FinishBye(p) ==
    /\ job[p] # Idle /\ job[p].op = "bye"
    /\ job' = [job EXCEPT ![p] = Idle]
    /\ up' = [up EXCEPT ![p] = FALSE]
    /\ UNCHANGED <<script, keyvars, last_rx_seq, read_buffer, rcv, net, acks, salts, history>>

(* Five timeouts, or a closed stream: OSError; or the caller was cancelled.  *)
(* A rekey() that raises has not rotated; a PONG that raises ends recv().    *)
(* An application that does not catch the error leaves its handler, which    *)
(* closes the stream (_server.py:305-336).                                   *)
GiveUp(p) ==
    /\ job[p] # Idle /\ job[p].op # "bye"
    /\ ~job[p].acked \/ ~up[p]
    /\ job' = [job EXCEPT ![p] = Idle]
    /\ rcv' = IF job[p].op = "pong" THEN [rcv EXCEPT ![p] = Reading] ELSE rcv
    /\ up' = [up EXCEPT ![p] = @ /\ interrupts]
    /\ UNCHANGED <<script, keyvars, last_rx_seq, read_buffer, net, acks, salts, history>>

-----------------------------------------------------------------------------
(* The stream's datagram callback                                            *)

Utack(q, f) == [gen |-> gen[q], type |-> f.type, seq |-> f.seq]
SendUtack(q, f) == acks' = [acks EXCEPT ![Other(q)] = @ \union {Utack(q, f)}]

Behind(q, f) == last_rx_seq[q] # -1 /\ f.seq <= last_rx_seq[q] - W

(* On a timely network a datagram is gone once delivered; otherwise it may   *)
(* be delivered again at any later time.                                     *)
Taken(set, x) == IF timely THEN set \ {x} ELSE set

(* The UTACK is sent even when the buffer has no room (mutant). *)
FeedAcksFirst(q, f) ==
    /\ SendUtack(q, f)
    /\ read_buffer' = IF Behind(q, f) \/ Len(read_buffer[q]) >= BufferCap
                      THEN read_buffer
                      ELSE [read_buffer EXCEPT ![q] = Append(@, f)]

(* feed_packet on a session frame: too old, acknowledged and dropped; no     *)
(* room, dropped without a word; otherwise acknowledged and buffered.        *)
Feed(q, f) ==
    IF Behind(q, f)
    THEN SendUtack(q, f) /\ UNCHANGED read_buffer
    ELSE IF Len(read_buffer[q]) >= BufferCap
         THEN UNCHANGED <<acks, read_buffer>>
         ELSE /\ SendUtack(q, f)
              /\ read_buffer' = [read_buffer EXCEPT ![q] = Append(@, f)]

FeedFrame(q, f) ==
    /\ up[q]
    /\ f \in net[q]
    /\ Feed(q, f)
    /\ net' = [net EXCEPT ![q] = Taken(@, f)]
    /\ UNCHANGED <<script, keyvars, last_rx_seq, job, rcv, up, salts, history>>

(* The MAC verifies under our tx_key and the UTACK names the pending frame. *)
AckMatches(p, a) ==
    /\ a.gen = gen[p]
    /\ job[p] # Idle
    /\ a.seq = job[p].frame.seq /\ a.type = job[p].frame.type

FeedAck(p, a) ==
    /\ up[p]
    /\ a \in acks[p]
    /\ acks' = [acks EXCEPT ![p] = Taken(@, a)]
    /\ IF AckMatches(p, a) THEN job' = [job EXCEPT ![p].acked = TRUE] ELSE UNCHANGED job
    /\ timely \/ AckMatches(p, a)
    /\ UNCHANGED <<script, keyvars, last_rx_seq, read_buffer, rcv, up, net, salts, history>>

(* A timely network still loses datagrams. *)
Lose(p) ==
    /\ timely
    /\ \/ \E f \in net[p] : net' = [net EXCEPT ![p] = @ \ {f}] /\ UNCHANGED acks
       \/ \E a \in acks[p] : acks' = [acks EXCEPT ![p] = @ \ {a}] /\ UNCHANGED net
    /\ UNCHANGED <<script, keyvars, last_rx_seq, read_buffer, job, rcv, up, salts, history>>

-----------------------------------------------------------------------------
(* Receiving                                                                 *)

CanRead(q) == up[q] /\ ~rcv[q].pong /\ read_buffer[q] # <<>>

Authentic(q, f) ==
    /\ Fresh(rx_seq[q], rx_window_bitmap[q], f.seq)
    /\ f.gen = gen[q]

Consume(q) == read_buffer' = [read_buffer EXCEPT ![q] = Tail(@)]

(* A frame behind the window, seen before, or sealed under other keys. *)
DropFrame(q) ==
    /\ CanRead(q)
    /\ ~Authentic(q, Head(read_buffer[q]))
    /\ Consume(q)
    /\ UNCHANGED <<script, keyvars, last_rx_seq, job, rcv, up, net, acks, salts, history>>

(* Marking the window on both levels: recv lines 164-179. *)
Mark(q, s) ==
    /\ rx_window_bitmap' = [rx_window_bitmap EXCEPT ![q] = Slide(rx_seq[q], @, s)]
    /\ rx_seq' = [rx_seq EXCEPT ![q] = Advance(@, s)]
    /\ last_rx_seq' = [last_rx_seq EXCEPT ![q] = Advance(@, s)]

(* Acceptance of any frame of a type, marked and taken off the buffer. *)
Accept(q, types) ==
    /\ CanRead(q)
    /\ Authentic(q, Head(read_buffer[q]))
    /\ Head(read_buffer[q]).type \in types
    /\ Consume(q)
    /\ UNCHANGED <<script, net, acks, salts, timely, interrupts, sent, confirmed>>

(* A protocol violation on UDP drops the partial message and reads on. *)
ForgetPartial(q) == rcv' = [rcv EXCEPT ![q].asm = <<>>, ![q].expected = 0]

RecvBye(q) ==
    /\ Accept(q, {"BYE"})
    /\ Mark(q, Head(read_buffer[q]).seq)
    /\ up' = [up EXCEPT ![q] = FALSE]
    /\ UNCHANGED <<gen, tx_seq, job, rcv, got>>

(* PING is answered before anything else is read; PONG only counts. *)
RecvPing(q) ==
    /\ Accept(q, {"PING"})
    /\ Mark(q, Head(read_buffer[q]).seq)
    /\ IF rcv[q].asm # <<>> THEN ForgetPartial(q) ELSE rcv' = [rcv EXCEPT ![q].pong = TRUE]
    /\ UNCHANGED <<gen, tx_seq, job, up, got>>

RecvPong(q) ==
    /\ Accept(q, {"PONG"})
    /\ Mark(q, Head(read_buffer[q]).seq)
    /\ IF rcv[q].asm # <<>>
       THEN ForgetPartial(q) /\ UNCHANGED up
       ELSE \E fresh \in BOOLEAN : CountCtrl(q, fresh)
    /\ UNCHANGED <<gen, tx_seq, job, got>>

(* REKEY from the peer: rotated at once, with no regard for job[q]. *)
RecvRekey(q) ==
    LET f == Head(read_buffer[q])
    IN  /\ Accept(q, {"REKEY"})
        /\ IF rcv[q].asm # <<>>
           THEN Mark(q, f.seq) /\ ForgetPartial(q) /\ UNCHANGED <<gen, tx_seq>>
           ELSE /\ Rotate(q, f.data[1])
                /\ last_rx_seq' = [last_rx_seq EXCEPT ![q] = Advance(@, f.seq)]
                /\ UNCHANGED rcv
        /\ UNCHANGED <<job, up, got>>

(* A fragment extends the message only when it is the next in sequence. *)
InSequence(q, f) == rcv[q].asm = <<>> \/ f.seq = rcv[q].expected

Assemble(q) ==
    LET f == Head(read_buffer[q])
        whole == Append(rcv[q].asm, f.data)
    IN  /\ Accept(q, {"DATA", "DATA_FRAG"})
        /\ Mark(q, f.seq)
        /\ IF ~InSequence(q, f)
           THEN ForgetPartial(q) /\ UNCHANGED got
           ELSE IF f.type = "DATA"
           THEN /\ got' = [got EXCEPT ![Other(q)] = Append(@, whole)]
                /\ rcv' = [rcv EXCEPT ![q] = Reading]
           ELSE IF Len(whole) >= MaxFrags
           THEN ForgetPartial(q) /\ UNCHANGED got
           ELSE /\ rcv' = [rcv EXCEPT ![q].asm = whole, ![q].expected = f.seq + 1]
                /\ UNCHANGED got
        /\ UNCHANGED <<gen, tx_seq, job, up>>

(* recv(timeout) expires: the call and its partial message are gone, and a   *)
(* PONG in progress is cancelled.  The application calls recv() again.       *)
RecvTimeout(q) ==
    /\ interrupts /\ up[q]
    /\ rcv[q] # Reading
    /\ rcv' = [rcv EXCEPT ![q] = Reading]
    /\ job' = IF job[q].op = "pong" THEN [job EXCEPT ![q] = Idle] ELSE job
    /\ UNCHANGED <<script, keyvars, last_rx_seq, read_buffer, up, net, acks, salts, history>>

-----------------------------------------------------------------------------

Application(p) == StartSend(p) \/ StartRekey(p) \/ StartPing(p) \/ StartBye(p)

Writing(p) ==
    \/ Retransmit(p) \/ NextFragment(p) \/ FinishSend(p) \/ FinishRekey(p)
    \/ FinishPing(p) \/ FinishPong(p) \/ FinishBye(p) \/ GiveUp(p)

Datagrams(p) ==
    \/ \E f \in net[p] : FeedFrame(p, f)
    \/ \E a \in acks[p] : FeedAck(p, a)
    \/ Lose(p)

Receiving(p) ==
    \/ DropFrame(p) \/ RecvBye(p) \/ RecvPing(p) \/ RecvPong(p) \/ RecvRekey(p)
    \/ Assemble(p) \/ RecvTimeout(p) \/ StartPong(p)

Next == \E p \in Peers : Application(p) \/ Writing(p) \/ Datagrams(p) \/ Receiving(p)

Spec == Init /\ [][Next]_vars

-----------------------------------------------------------------------------

FrameTypes == {"DATA", "DATA_FRAG", "PING", "PONG", "REKEY", "BYE"}

TypeOK ==
    /\ \A p \in Peers :
         /\ tx_seq[p] \in Nat /\ rx_seq[p] \in Nat
         /\ rx_window_bitmap[p] \subseteq Bits
         /\ last_rx_seq[p] \in Nat \union {-1}
         /\ Len(read_buffer[p]) <= BufferCap
         /\ Len(rcv[p].asm) < MaxFrags
         /\ gen[p] \in Seq(1 .. salts)
         /\ job[p] # Idle => job[p].frame.type \in FrameTypes
         /\ confirmed[p] \subseteq DOMAIN sent[p]
    /\ up \in [Peers -> BOOLEAN]

Uninterrupted(f) == IF interrupts THEN [p \in Peers |-> <<>>] ELSE f

(* As long as nothing is cut short the session is a channel: what an         *)
(* application receives are the messages its peer sent, whole, once and in   *)
(* order (_session.py:90-104, 250-262).                                      *)
Chan == INSTANCE Channel WITH
            Senders <- Peers,
            sent <- Uninterrupted(sent),
            got <- Uninterrupted(got),
            Messages <- {Message(t[1], t[2], t[3]) :
                           t \in Peers \X (1 .. MaxMsgs) \X (1 .. MaxFrags)}

ImplementsChannel == Chan!Spec

(* Where fragment d of p can be once it has reached p's peer. *)
Arrived(p, d) ==
    LET q == Other(p)
    IN  \/ \E i \in DOMAIN read_buffer[q] : read_buffer[q][i].data = d
        \/ \E i \in DOMAIN rcv[q].asm : rcv[q].asm[i] = d
        \/ \E k \in DOMAIN got[p] : \E i \in DOMAIN got[p][k] : got[p][k][i] = d

(* Once send() has returned, no part of the message is lost: each fragment   *)
(* waits in the peer's buffer or partial message, or was delivered.  This is *)
(* what the UTACK stands for (udp.py:182-190).  A recv() cut short takes its  *)
(* partial message with it.                                                  *)
AckedNotLost ==
    interrupts \/ \A p \in Peers : up[Other(p)] =>
        \A m \in confirmed[p] : \A i \in DOMAIN sent[p][m] : Arrived(p, sent[p][m][i])

(* No fragment is ever delivered twice, in one message or in two, whatever   *)
(* is retransmitted, given up and tried again.                               *)
DeliveredOnce ==
    \A p \in Peers : \A k, l \in DOMAIN got[p] :
        \A i \in DOMAIN got[p][k], j \in DOMAIN got[p][l] :
            got[p][k][i] = got[p][l][j] => k = l /\ i = j
==============================================================================
