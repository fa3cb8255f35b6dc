----------------------------- MODULE TcpSession -----------------------------
(* Two Python peers in an established session over TCP: USMPSession          *)
(* (_session.py) on asyncio streams (transport/tcp.py, _frame.py).           *)
(*                                                                           *)
(* The stream neither loses nor reorders, so any frame that does not open    *)
(* under the receiver's keys and next sequence ends the session.  drain()    *)
(* suspends the sender only while the stream is above its high-water mark,   *)
(* Cap frames here; a sender that is not suspended runs to its next await    *)
(* before anything else of the same process does (Running).                  *)
(*                                                                           *)
(* As in UdpSession, job[p] is the operation holding _send_lock, and gen[p], *)
(* the salts mixed in so far, stands for p's key pair.                       *)
EXTENDS Naturals, Sequences, FiniteSets

CONSTANTS
    MaxFrags,                 \* USMP_MAX_FRAMES, 4 in the code
    Cap,                      \* frames the stream takes before drain() waits
    CtrlLimit,                \* control frames per second one recv() call accepts, 8
    MaxMsgs,                  \* messages one application may send, by the scripts
    Scripts,                  \* the operations each application calls, in order
    InterruptedScripts        \* the same, where operations may be cut short

Peers == {"A", "B"}
Other(p) == CHOOSE q \in Peers : q # p

ASSUME TcpSessionAssumption == {MaxFrags, Cap, CtrlLimit} \subseteq Nat \ {0}

(* A message of more than MaxFrags fragments is refused before it is sent. *)
Operations == [op : {"send"}, frags : 1 .. MaxFrags] \union [op : {"rekey", "ping", "bye"}]

Sends(s) == Cardinality({i \in DOMAIN s : s[i].op = "send"})

AreScripts(S) ==
    \A s \in S : /\ s \in [Peers -> Seq(Operations)]
                 /\ \A p \in Peers : Sends(s[p]) <= MaxMsgs

ASSUME ScriptsAssumption == MaxMsgs \in Nat /\ AreScripts(Scripts \union InterruptedScripts)

VARIABLES
    script,                   \* what each application has still to call
    gen, tx_seq, rx_seq,      \* SessionInfo
    wire,                     \* frames on their way to each peer
    job,                      \* the operation that holds _send_lock
    rcv,                      \* the local state of the running recv() call
    ended,                    \* why a peer left the session, or "no"
    interrupts,               \* recv(timeout) may expire, operations be cancelled
    salts,                    \* REKEY salts drawn so far
    sent, got                 \* history: messages sent by p, messages p's peer got

vars == <<script, gen, tx_seq, rx_seq, wire, job, rcv, ended, interrupts, salts,
          sent, got>>

Idle == [op |-> "none"]
Reading == [asm |-> <<>>, ctrl |-> 0, pong |-> FALSE]
Torn == [type |-> "torn"]     \* payload bytes whose header was read and lost

(* A fresh session whose applications run one of the scripts. *)
InitWith(whole, interrupted) ==
    /\ \/ script \in whole /\ interrupts = FALSE
       \/ script \in interrupted /\ interrupts = TRUE
    /\ gen = [p \in Peers |-> <<>>]
    /\ tx_seq = [p \in Peers |-> 0]
    /\ rx_seq = [p \in Peers |-> 0]
    /\ wire = [p \in Peers |-> <<>>]
    /\ job = [p \in Peers |-> Idle]
    /\ rcv = [p \in Peers |-> Reading]
    /\ ended = [p \in Peers |-> "no"]
    /\ salts = 0
    /\ sent = [p \in Peers |-> <<>>]
    /\ got = [p \in Peers |-> <<>>]

Init == InitWith(Scripts, InterruptedScripts)

End(p, why) == ended' = [ended EXCEPT ![p] = why]

(* p's process is between two awaits of a send. *)
Running(p) == job[p] # Idle /\ ~job[p].paused

(* p's event loop may run another coroutine. *)
Free(p) == ended[p] = "no" /\ ~Running(p)

-----------------------------------------------------------------------------
(* Sending                                                                   *)

Message(p, m, n) == [i \in 1 .. n |-> <<p, m, i>>]

(* The last but one fragment taken for the last (mutant). *)
FragTypeEarly(i, n) == IF i + 1 < n THEN "DATA_FRAG" ELSE "DATA"

FragType(i, n) == IF i < n THEN "DATA_FRAG" ELSE "DATA"

(* A write that is never waited for (mutant). *)
EmitNoDrain(p, o, type, data) ==
    /\ wire' = [wire EXCEPT ![Other(p)] =
                  Append(@, [gen |-> gen[p], type |-> type, seq |-> tx_seq[p], data |-> data])]
    /\ tx_seq' = [tx_seq EXCEPT ![p] = @ + 1]
    /\ job' = [job EXCEPT ![p] = [op |-> o, type |-> type, data |-> data, paused |-> FALSE]]

(* Seal a frame, burn the sequence, write it and await drain(). *)
Emit(p, o, type, data) ==
    LET w == Append(wire[Other(p)],
                    [gen |-> gen[p], type |-> type, seq |-> tx_seq[p], data |-> data])
    IN  /\ wire' = [wire EXCEPT ![Other(p)] = w]
        /\ tx_seq' = [tx_seq EXCEPT ![p] = @ + 1]
        /\ job' = [job EXCEPT ![p] = [op |-> o, type |-> type, data |-> data,
                                      paused |-> Len(w) > Cap]]

(* A recv() that already holds the lock when it answers (mutant). *)
LockHeldByRecv(p) == job[p] = Idle /\ ~rcv[p].pong

LockFree(p) == job[p] = Idle

(* The next operation of the application gets the lock. *)
Ready(p, o) ==
    /\ Free(p) /\ LockFree(p)
    /\ script[p] # <<>> /\ Head(script[p]).op = o
    /\ script' = [script EXCEPT ![p] = Tail(@)]

StartSend(p) ==
    /\ Ready(p, "send")
    /\ LET n == Head(script[p]).frags
           m == Message(p, Len(sent[p]) + 1, n)
       IN  /\ sent' = [sent EXCEPT ![p] = Append(@, m)]
           /\ Emit(p, "send", FragType(1, n), m[1])
    /\ UNCHANGED <<gen, rx_seq, rcv, ended, interrupts, salts, got>>

StartRekey(p) ==
    /\ Ready(p, "rekey")
    /\ salts' = salts + 1
    /\ Emit(p, "rekey", "REKEY", salts + 1)
    /\ UNCHANGED <<gen, rx_seq, rcv, ended, interrupts, sent, got>>

StartPing(p) ==
    /\ Ready(p, "ping")
    /\ Emit(p, "ping", "PING", 0)
    /\ UNCHANGED <<gen, rx_seq, rcv, ended, interrupts, salts, sent, got>>

StartBye(p) ==
    /\ Ready(p, "bye")
    /\ Emit(p, "bye", "BYE", 0)
    /\ UNCHANGED <<gen, rx_seq, rcv, ended, interrupts, salts, sent, got>>

(* The recv coroutine gets the lock to answer a PING. *)
StartPong(p) ==
    /\ Free(p) /\ LockFree(p)
    /\ rcv[p].pong
    /\ Emit(p, "pong", "PONG", 0)
    /\ UNCHANGED <<script, gen, rx_seq, rcv, ended, interrupts, salts, sent, got>>

(* The stream has drained and the event loop wakes the sender. *)
Resume(p) ==
    /\ ended[p] = "no"
    /\ job[p] # Idle /\ job[p].paused
    /\ Len(wire[Other(p)]) <= Cap
    /\ job' = [job EXCEPT ![p].paused = FALSE]
    /\ UNCHANGED <<script, gen, tx_seq, rx_seq, wire, rcv, ended, interrupts, salts, sent, got>>

(* A rotation of the initiator that leaves its receive side alone (mutant). *)
RotateTransmit(p, salt) ==
    /\ gen' = [gen EXCEPT ![p] = Append(@, salt)]
    /\ tx_seq' = [tx_seq EXCEPT ![p] = 0]
    /\ UNCHANGED rx_seq

(* Rotating the keys restarts both sequences. *)
Rotate(p, salt) ==
    /\ gen' = [gen EXCEPT ![p] = Append(@, salt)]
    /\ tx_seq' = [tx_seq EXCEPT ![p] = 0]
    /\ rx_seq' = [rx_seq EXCEPT ![p] = 0]

CountCtrl(p, fresh) ==
    LET c == IF fresh THEN 1 ELSE rcv[p].ctrl + 1
    IN  /\ rcv' = [rcv EXCEPT ![p].ctrl = c, ![p].pong = FALSE]
        /\ IF c <= CtrlLimit THEN UNCHANGED ended ELSE End(p, "flood")

(* drain() returned: the next fragment, sealed under the keys of by now.     *)
NextFragment(p) ==
    /\ ended[p] = "no"
    /\ Running(p) /\ job[p].type = "DATA_FRAG"
    /\ LET d == job[p].data
           m == sent[p][d[2]]
       IN  Emit(p, "send", FragType(d[3] + 1, Len(m)), m[d[3] + 1])
    /\ UNCHANGED <<script, gen, rx_seq, rcv, ended, interrupts, salts, sent, got>>

(* drain() returned after the last frame of the operation. *)
Finish(p) ==
    /\ ended[p] = "no"
    /\ Running(p) /\ job[p].type # "DATA_FRAG"
    /\ job' = [job EXCEPT ![p] = Idle]
    /\ \/ /\ job[p].op \in {"send", "ping"}
          /\ UNCHANGED <<gen, tx_seq, rx_seq, rcv, ended>>
       \/ /\ job[p].op = "rekey"
          /\ Rotate(p, job[p].data)
          /\ UNCHANGED <<rcv, ended>>
       \/ /\ job[p].op = "bye"
          /\ End(p, "bye")
          /\ UNCHANGED <<gen, tx_seq, rx_seq, rcv>>
       \/ /\ job[p].op = "pong"
          /\ \E fresh \in BOOLEAN : CountCtrl(p, fresh)
          /\ UNCHANGED <<gen, tx_seq, rx_seq>>
    /\ UNCHANGED <<script, wire, interrupts, salts, sent, got>>

(* The peer has closed and drain() raises; bye() swallows the error.         *)
Disconnected(p) ==
    /\ ended[p] = "no"
    /\ job[p] # Idle /\ ended[Other(p)] # "no"
    /\ End(p, IF job[p].op = "bye" THEN "bye" ELSE "eof")
    /\ UNCHANGED <<script, gen, tx_seq, rx_seq, wire, job, rcv, interrupts, salts, sent, got>>

(* The operation is cancelled while it waits in drain().  bye() still closes *)
(* the stream; a PONG is cancelled only together with its recv().            *)
Cancel(p) ==
    /\ interrupts /\ ended[p] = "no"
    /\ job[p] # Idle /\ job[p].paused /\ job[p].op # "pong"
    /\ job' = [job EXCEPT ![p] = Idle]
    /\ IF job[p].op = "bye" THEN End(p, "bye") ELSE UNCHANGED ended
    /\ UNCHANGED <<script, gen, tx_seq, rx_seq, wire, rcv, interrupts, salts, sent, got>>

-----------------------------------------------------------------------------
(* Receiving                                                                 *)

(* read_frame returns the next frame of the stream. *)
Read(q) ==
    /\ Free(q) /\ ~rcv[q].pong
    /\ wire[q] # <<>>
    /\ wire' = [wire EXCEPT ![q] = Tail(@)]
    /\ UNCHANGED <<script, interrupts, salts, sent>>

(* It decrypts under rx_key and carries the next sequence. *)
Opens(q, f) == f # Torn /\ f.gen = gen[q] /\ f.seq = rx_seq[q]

(* An acceptable frame of one of the types, its sequence counted. *)
Accept(q, types) ==
    /\ Read(q)
    /\ Opens(q, Head(wire[q]))
    /\ Head(wire[q]).type \in types

Count(q) == rx_seq' = [rx_seq EXCEPT ![q] = @ + 1]

Controls == {"PING", "PONG", "REKEY"}

(* Anything else is an error that recv() raises: a bad header, a frame of    *)
(* other keys, a control frame inside a message, too many fragments.         *)
Break(q) ==
    /\ Read(q)
    /\ LET f == Head(wire[q])
       IN  \/ ~Opens(q, f)
           \/ f # Torn /\ f.type \in Controls /\ rcv[q].asm # <<>>
           \/ f # Torn /\ f.type = "DATA_FRAG" /\ Len(rcv[q].asm) + 1 >= MaxFrags
    /\ End(q, "broken")
    /\ UNCHANGED <<gen, tx_seq, rx_seq, job, rcv, got>>

RecvBye(q) ==
    /\ Accept(q, {"BYE"})
    /\ Count(q)
    /\ End(q, "bye")
    /\ UNCHANGED <<gen, tx_seq, job, rcv, got>>

RecvPing(q) ==
    /\ Accept(q, {"PING"}) /\ rcv[q].asm = <<>>
    /\ Count(q)
    /\ rcv' = [rcv EXCEPT ![q].pong = TRUE]
    /\ UNCHANGED <<gen, tx_seq, job, ended, got>>

RecvPong(q) ==
    /\ Accept(q, {"PONG"}) /\ rcv[q].asm = <<>>
    /\ Count(q)
    /\ \E fresh \in BOOLEAN : CountCtrl(q, fresh)
    /\ UNCHANGED <<gen, tx_seq, job, got>>

RecvRekey(q) ==
    /\ Accept(q, {"REKEY"}) /\ rcv[q].asm = <<>>
    /\ Rotate(q, Head(wire[q]).data)
    /\ UNCHANGED <<job, rcv, ended, got>>

RecvFragment(q) ==
    /\ Accept(q, {"DATA_FRAG"}) /\ Len(rcv[q].asm) + 1 < MaxFrags
    /\ Count(q)
    /\ rcv' = [rcv EXCEPT ![q].asm = Append(@, Head(wire[q]).data)]
    /\ UNCHANGED <<gen, tx_seq, job, ended, got>>

(* The partial message is not cleared (mutant). *)
RecvDataKeeps(q) ==
    /\ Accept(q, {"DATA"})
    /\ Count(q)
    /\ got' = [got EXCEPT ![Other(q)] = Append(@, Append(rcv[q].asm, Head(wire[q]).data))]
    /\ UNCHANGED <<gen, tx_seq, job, ended, rcv>>

RecvData(q) ==
    /\ Accept(q, {"DATA"})
    /\ Count(q)
    /\ got' = [got EXCEPT ![Other(q)] = Append(@, Append(rcv[q].asm, Head(wire[q]).data))]
    /\ rcv' = [rcv EXCEPT ![q] = Reading]
    /\ UNCHANGED <<gen, tx_seq, job, ended>>

(* The peer closed and its last frame has been read. *)
RecvEof(q) ==
    /\ Free(q) /\ ~rcv[q].pong
    /\ wire[q] = <<>> /\ ended[Other(q)] # "no"
    /\ End(q, "eof")
    /\ UNCHANGED <<script, gen, tx_seq, rx_seq, wire, job, rcv, interrupts, salts, sent, got>>

(* recv(timeout) expires: the partial message is lost, a PONG under way is   *)
(* cancelled, and so may be a header whose payload had not arrived.          *)
RecvTimeout(q) ==
    /\ interrupts /\ Free(q)
    /\ \/ rcv[q] # Reading /\ UNCHANGED wire
       \/ /\ wire[q] # <<>> /\ ~rcv[q].pong /\ Head(wire[q]) # Torn
          /\ wire' = [wire EXCEPT ![q][1] = Torn]
    /\ rcv' = [rcv EXCEPT ![q] = Reading]
    /\ job' = IF job[q].op = "pong" THEN [job EXCEPT ![q] = Idle] ELSE job
    /\ UNCHANGED <<script, gen, tx_seq, rx_seq, ended, interrupts, salts, sent, got>>

-----------------------------------------------------------------------------

Sending(p) ==
    \/ StartSend(p) \/ StartRekey(p) \/ StartPing(p) \/ StartBye(p) \/ StartPong(p)
    \/ Resume(p) \/ NextFragment(p) \/ Finish(p) \/ Disconnected(p) \/ Cancel(p)

Receiving(q) ==
    \/ Break(q) \/ RecvBye(q) \/ RecvPing(q) \/ RecvPong(q) \/ RecvRekey(q)
    \/ RecvFragment(q) \/ RecvData(q) \/ RecvEof(q) \/ RecvTimeout(q)

Next == \E p \in Peers : Sending(p) \/ Receiving(p)

Spec == Init /\ [][Next]_vars

(* The event loop runs every ready coroutine; asyncio.Lock serves its        *)
(* waiters in order, so neither the application nor a PONG starves; both     *)
(* applications keep a recv() pending.                                       *)
Fairness ==
    \A p \in Peers :
        /\ WF_vars(Resume(p) \/ NextFragment(p) \/ Finish(p))
        /\ WF_vars(Receiving(p))
        /\ SF_vars(StartPong(p))
        /\ SF_vars(StartSend(p) \/ StartRekey(p) \/ StartPing(p) \/ StartBye(p))

FairSpec == Spec /\ Fairness

-----------------------------------------------------------------------------

Reasons == {"no", "bye", "eof", "flood", "broken"}

TypeOK ==
    /\ \A p \in Peers :
         /\ tx_seq[p] \in Nat /\ rx_seq[p] \in Nat
         /\ gen[p] \in Seq(1 .. salts)
         /\ Len(wire[p]) <= Cap + 1 \/ interrupts   \* a cancelled write stays
         /\ Len(rcv[p].asm) < MaxFrags
         /\ job[p] # Idle => job[p].paused \in BOOLEAN
         /\ Len(got[p]) <= Len(sent[p])
    /\ ended \in [Peers -> Reasons]

(* Without interruptions the session is a channel: what an application       *)
(* receives are the messages its peer sent, whole, once and in order         *)
(* (_session.py:90-104, 250-262).                                            *)
Uninterrupted(f) == IF interrupts THEN [p \in Peers |-> <<>>] ELSE f

Chan == INSTANCE Channel WITH
            Senders <- Peers,
            Messages <- {Message(t[1], t[2], t[3]) :
                           t \in Peers \X (1 .. MaxMsgs) \X (1 .. MaxFrags)},
            sent <- Uninterrupted(sent),
            got <- Uninterrupted(got)

ImplementsChannel == Chan!Spec

(* Nothing the two applications do makes a session fail, if they are not     *)
(* interrupted: a peer leaves it after a BYE, because the other one left, or *)
(* because of a control flood, and never because a frame did not fit the     *)
(* state of its receiver (the SequenceError, decrypt and FrameError exits of *)
(* recv).                                                                    *)
StaysUp == \A p \in Peers : interrupts \/ ended[p] # "broken"

(* Fragment d was sent before e, by the same peer.                           *)
Precedes(d, e) == d[2] < e[2] \/ (d[2] = e[2] /\ d[3] < e[3])

InOrder(ss) ==
    \A k, l \in DOMAIN ss : \A i \in DOMAIN ss[k], j \in DOMAIN ss[l] :
        k < l \/ (k = l /\ i < j) => Precedes(ss[k][i], ss[l][j])

(* Even with calls cut short anywhere, the fragments that reach an           *)
(* application do so in the order they were sent, none of them twice.        *)
FragmentsInOrder == \A p \in Peers : InOrder(got[p])
==============================================================================
