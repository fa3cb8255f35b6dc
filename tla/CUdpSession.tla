---------------------------- MODULE CUdpSession ----------------------------
(* A device and a Python server in an established session over UDP.  Peer A  *)
(* is the Python server, as in UdpSession.  Peer B, the device, is a Python  *)
(* client, and then the whole is UdpSession itself, or the C core            *)
(* (usmp_session.c) on the ESP32 transport (usmp_transport_udp.c): a single  *)
(* thread that is either in a blocking send, polling for its UTACK, or in    *)
(* usmp_recv, or in the application.  Datagrams wait in the socket (net)     *)
(* until the thread looks.                                                   *)
(*                                                                           *)
(* What the C core does as the Python session does (fragmenting, sealing,    *)
(* burning the sequence, the stop-and-wait ARQ, rotating after REKEY was     *)
(* acknowledged) is taken from UdpSession with p = B; usmp_close sends BYE   *)
(* and closes like bye().                                                    *)
EXTENDS UdpSession

CONSTANTS
    MaxAttempts,              \* reads one usmp_recv call makes, 10 in the code
    CScripts, CTimelyScripts  \* what the applications call when B is in C

ASSUME AttemptsAssumption == MaxAttempts \in Nat \ {0}

ASSUME CScriptsAssumption == AreScripts(CScripts \union CTimelyScripts)

VARIABLES
    port,                     \* what B runs: "python" or "c"
    call,                     \* the local state of usmp_recv, or NotCalled
    slot                      \* rx_buf: the one frame put aside during a send

cvars == <<call, slot>>

NotCalled == [called |-> FALSE, asm |-> <<>>]
Called == [called |-> TRUE, asm |-> <<>>, expected |-> 0, ctrl |-> 0, attempts |-> 0,
           pong |-> FALSE]
Empty == [type |-> "none"]

InApplication == ~call.called /\ job["B"] = Idle

CInit ==
    /\ \/ port = "python" /\ Init
       \/ port = "c" /\ InitWith(CScripts, CTimelyScripts, {})
    /\ call = NotCalled /\ slot = Empty

-----------------------------------------------------------------------------
(* Sending                                                                   *)

(* usmp_send, usmp_rekey, usmp_ping and usmp_close, from the application.    *)
CStart ==
    /\ ~call.called
    /\ StartSend("B") \/ StartRekey("B") \/ StartPing("B") \/ StartBye("B")
    /\ UNCHANGED cvars

(* The polling loop of usmp_udp_send. *)
CSending ==
    /\ \/ Retransmit("B") \/ NextFragment("B")
       \/ FinishSend("B") \/ FinishRekey("B") \/ FinishPing("B") \/ FinishBye("B")
       \/ \E a \in acks["B"] : FeedAck("B", a)
    /\ UNCHANGED cvars

(* A failed send that leaves the session established (mutant). *)
CGiveUpKeeps ==
    /\ job["B"] # Idle /\ ~job["B"].acked /\ job["B"].op # "bye"
    /\ job' = [job EXCEPT !["B"] = Idle]
    /\ call' = NotCalled
    /\ UNCHANGED <<script, keyvars, last_rx_seq, read_buffer, rcv, up, net, acks, salts,
                   history, slot>>

(* Five attempts without a UTACK: emit_frame drops the session. *)
CGiveUp ==
    /\ job["B"] # Idle /\ ~job["B"].acked /\ job["B"].op # "bye"
    /\ job' = [job EXCEPT !["B"] = Idle]
    /\ call' = NotCalled
    /\ up' = [up EXCEPT !["B"] = FALSE]
    /\ UNCHANGED <<script, keyvars, last_rx_seq, read_buffer, rcv, net, acks, salts,
                   history, slot>>

(* A frame that arrives during a send is acknowledged at once (mutant). *)
PutAsideAcked(f) ==
    /\ slot' = IF slot = Empty THEN f ELSE slot
    /\ SendUtack("B", f)

(* A frame that arrives during a send is put aside if there is room, and     *)
(* not acknowledged.                                                         *)
PutAside(f) ==
    /\ slot' = IF slot = Empty THEN f ELSE slot
    /\ UNCHANGED acks

CFeedFrame(f) ==
    /\ up["B"] /\ job["B"] # Idle /\ ~job["B"].acked
    /\ f \in net["B"]
    /\ PutAside(f)
    /\ net' = [net EXCEPT !["B"] = Taken(@, f)]
    /\ UNCHANGED <<script, keyvars, last_rx_seq, read_buffer, job, rcv, up, salts, history,
                   call>>

-----------------------------------------------------------------------------
(* usmp_recv                                                                 *)

CRecv ==
    /\ up["B"] /\ InApplication
    /\ call' = Called
    /\ UNCHANGED <<vars, slot>>

Polling == up["B"] /\ call.called /\ ~call.pong

(* The ways out of usmp_recv.  Where it returns an error and leaves          *)
(* established set, the caller takes the session for dead (USMP.cpp:55-59).  *)
Return == call' = NotCalled /\ UNCHANGED up
EndSession == call' = NotCalled /\ up' = [up EXCEPT !["B"] = FALSE]
Fail == EndSession

(* One read too many (mutant). *)
SpentLate == call.attempts > MaxAttempts

Spent == call.attempts >= MaxAttempts

(* Ten reads made: nothing, or half a message that can never be completed.   *)
CAttemptsSpent ==
    /\ Polling /\ Spent
    /\ IF call.asm = <<>> THEN Return ELSE EndSession
    /\ UNCHANGED <<script, keyvars, last_rx_seq, read_buffer, job, rcv, net, acks, salts,
                   history, slot>>

Again == call' = [call EXCEPT !.attempts = @ + 1] /\ UNCHANGED up

(* transport.recv finds nothing within its 50 ms. *)
CPollNothing ==
    /\ Polling /\ ~Spent /\ slot = Empty
    /\ Again
    /\ UNCHANGED <<script, keyvars, last_rx_seq, read_buffer, job, rcv, net, acks, salts,
                   history, slot>>

(* transport.recv returns the frame put aside, or one from the socket; its   *)
(* UTACK is sent before anything is known about it.                          *)
CRead(f) ==
    /\ Polling /\ ~Spent
    /\ IF slot # Empty
       THEN f = slot /\ slot' = Empty /\ UNCHANGED net
       ELSE f \in net["B"] /\ net' = [net EXCEPT !["B"] = Taken(@, f)] /\ UNCHANGED slot
    /\ SendUtack("B", f)
    /\ UNCHANGED <<script, read_buffer, rcv, salts, timely, interrupts, sent, confirmed>>

Control(f) == f.type \in {"PING", "PONG", "BYE", "REKEY"}

(* Dropped before the window is marked: not fresh, not of these keys, or a   *)
(* control frame in the middle of a message.                                 *)
Dropped(f) == ~Authentic("B", f) \/ (Control(f) /\ call.asm # <<>>)

CDrop(f) ==
    /\ CRead(f) /\ Dropped(f)
    /\ Again
    /\ UNCHANGED <<keyvars, last_rx_seq, job, got>>

CAccept(f, types) ==
    /\ CRead(f) /\ ~Dropped(f)
    /\ f.type \in types

(* available(): the frame put aside, or whatever has reached the socket.     *)
MayContinue == slot' # Empty \/ net'["B"] # {}
MayReturn == slot' = Empty

(* A control frame is counted; the call goes on only if more is waiting.     *)
CountControl ==
    IF call.ctrl + 1 > CtrlLimit
    THEN Fail
    ELSE \/ MayReturn /\ Return
         \/ /\ MayContinue
            /\ call' = [call EXCEPT !.ctrl = @ + 1, !.attempts = @ + 1, !.pong = FALSE]
            /\ UNCHANGED up

CRecvPong(f) ==
    /\ CAccept(f, {"PONG"})
    /\ Mark("B", f.seq)
    /\ CountControl
    /\ UNCHANGED <<gen, tx_seq, job, got>>

CRecvBye(f) ==
    /\ CAccept(f, {"BYE"})
    /\ Mark("B", f.seq)
    /\ EndSession
    /\ UNCHANGED <<gen, tx_seq, job, got>>

CRecvRekey(f) ==
    /\ CAccept(f, {"REKEY"})
    /\ Rotate("B", f.data[1])
    /\ CountControl
    /\ UNCHANGED <<last_rx_seq, job, got>>

(* PING: read and marked here, the PONG sent by the next step.               *)
CRecvPing(f) ==
    /\ CAccept(f, {"PING"})
    /\ Mark("B", f.seq)
    /\ call' = [call EXCEPT !.pong = TRUE]
    /\ UNCHANGED <<gen, tx_seq, job, up, got>>

CStartPong ==
    /\ call.called /\ call.pong /\ job["B"] = Idle
    /\ Emit("B", "pong", "PONG", <<>>)
    /\ UNCHANGED <<script, gen, rx_seq, rx_window_bitmap, last_rx_seq, read_buffer, rcv, up,
                   acks, salts, history, cvars>>

CFinishPong ==
    /\ job["B"] # Idle /\ job["B"].op = "pong" /\ job["B"].acked
    /\ job' = [job EXCEPT !["B"] = Idle]
    /\ UNCHANGED <<net, slot>>
    /\ CountControl
    /\ UNCHANGED <<script, keyvars, last_rx_seq, read_buffer, rcv, acks, salts, history>>

(* A data frame: out of sequence and a fourth DATA_FRAG are errors.          *)
CRecvData(f) ==
    LET whole == Append(call.asm, f.data)
    IN  /\ CAccept(f, {"DATA", "DATA_FRAG"})
        /\ Mark("B", f.seq)
        /\ \/ /\ call.asm # <<>> /\ f.seq # call.expected
              /\ Fail
              /\ UNCHANGED got
           \/ /\ call.asm = <<>> \/ f.seq = call.expected
              /\ \/ /\ f.type = "DATA"
                    /\ got' = [got EXCEPT !["A"] = Append(@, whole)]
                    /\ Return
                 \/ /\ f.type = "DATA_FRAG" /\ Len(whole) >= MaxFrags
                    /\ Fail
                    /\ UNCHANGED got
                 \/ /\ f.type = "DATA_FRAG" /\ Len(whole) < MaxFrags
                    /\ call' = [call EXCEPT !.asm = whole, !.expected = f.seq + 1,
                                            !.attempts = @ + 1]
                    /\ UNCHANGED <<up, got>>
        /\ UNCHANGED <<gen, tx_seq, job>>

-----------------------------------------------------------------------------

CReceiving ==
    \/ CRecv \/ CAttemptsSpent \/ CPollNothing \/ CStartPong \/ CFinishPong
    \/ \E f \in net["B"] \union {slot} :
         \/ CDrop(f) \/ CRecvPong(f) \/ CRecvBye(f) \/ CRecvRekey(f) \/ CRecvPing(f)
         \/ CRecvData(f)

PythonPeer ==
    /\ Application("A") \/ Writing("A") \/ Datagrams("A") \/ Receiving("A")
    /\ UNCHANGED cvars

CPeer ==
    \/ CStart \/ CSending \/ CGiveUp
    \/ \E f \in net["B"] : CFeedFrame(f)
    \/ CReceiving
    \/ Lose("B") /\ UNCHANGED cvars

CNext ==
    /\ \/ port = "python" /\ Next /\ UNCHANGED cvars
       \/ port = "c" /\ (PythonPeer \/ CPeer)
    /\ UNCHANGED port

CSpec == CInit /\ [][CNext]_<<vars, cvars, port>>

-----------------------------------------------------------------------------

CTypeOK ==
    /\ TypeOK
    /\ call.called \in BOOLEAN
    /\ Len(call.asm) < MaxFrags
    /\ call.called => call.attempts \in 0 .. MaxAttempts /\ call.ctrl \in 0 .. CtrlLimit
    /\ slot # Empty => slot.type \in FrameTypes

(* Where fragment d of p can be: usmp_recv too has a message it assembles.   *)
CArrived(p, d) ==
    \/ Arrived(p, d)
    \/ p = "A" /\ \E k \in DOMAIN call.asm : call.asm[k] = d

(* What the server's send() was told is delivered is not lost: each fragment *)
(* waits in a buffer of the device or in the message it is assembling, or    *)
(* was handed out.  A recv() cut short takes its partial message with it.    *)
PythonAckedNotLost ==
    interrupts \/ (up["B"] =>
        \A m \in confirmed["A"] : \A i \in DOMAIN sent["A"][m] :
            CArrived("A", sent["A"][m][i]))

(* The same for the device's send() or usmp_send that returned.              *)
CAckedNotLost ==
    interrupts \/ (up["A"] =>
        \A m \in confirmed["B"] : \A i \in DOMAIN sent["B"][m] :
            Arrived("B", sent["B"][m][i]))

-----------------------------------------------------------------------------
(* What the applications may call so that a rotation of the keys loses no    *)
(* message: the code leaves this to them.                                    *)

FramesOf(o) == IF o.op = "send" THEN o.frags ELSE 1

(* at[i] bounds the sequence at which the operation i of s starts, if the    *)
(* first one starts at b and k PONGs come in between.                        *)
EarlyAt(s, b, k, at) ==
    /\ b <= at[1]
    /\ \A i \in DOMAIN s : IF s[i].op = "rekey" THEN at[i] + k < W
                           ELSE at[i] + FramesOf(s[i]) <= at[i + 1]

NeverCalls(s, p, o) == \A i \in DOMAIN s[p] : s[p][i].op # o

NobodyRekeys(s) == \A p \in Peers : NeverCalls(s, p, "rekey")

(* Peer q only listens, pings and leaves, and its peer rotates the keys      *)
(* before it has sealed a whole window of frames with them, a PONG for each  *)
(* operation of q included.                                                  *)
OnlyListens(s, q) ==
    /\ NeverCalls(s, q, "send") /\ NeverCalls(s, q, "rekey")
    /\ \E at \in [1 .. Len(s[Other(q)]) + 1 -> 0 .. Len(s[Other(q)]) * MaxFrags] :
         EarlyAt(s[Other(q)], 0, Len(s[q]), at)

(* Nobody rotates the keys, or one peer rotates them and the other listens,  *)
(* on a timely network; a device in C that listens is asked for no PONG.     *)
RekeysAreSafe ==
    /\ \A s \in Scripts \union CScripts : NobodyRekeys(s)
    /\ \A s \in TimelyScripts : NobodyRekeys(s) \/ \E q \in Peers : OnlyListens(s, q)
    /\ \A s \in CTimelyScripts :
         \/ NobodyRekeys(s)
         \/ OnlyListens(s, "A")
         \/ OnlyListens(s, "B") /\ s["B"] = <<>> /\ NeverCalls(s, "A", "ping")
==============================================================================
