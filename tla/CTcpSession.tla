---------------------------- MODULE CTcpSession ----------------------------
(* A device and a Python server in an established session over TCP.  Peer A  *)
(* is the Python server, as in TcpSession.  Peer B, the device, is a Python  *)
(* client, and then the whole is TcpSession itself, or the C core            *)
(* (usmp_session.c) on a blocking socket (usmp_transport_tcp.c): a single    *)
(* thread that is in a send until the stream has taken its frame, in         *)
(* usmp_recv, or in the application, which calls usmp_recv once available()  *)
(* finds the socket readable.                                                *)
(*                                                                           *)
(* What the C core does as the Python session does (fragmenting, sealing,    *)
(* burning the sequence, rotating once REKEY is written, closing with BYE)   *)
(* is taken from TcpSession with p = B; of rcv["B"], asm, ctrl and pong are  *)
(* the local variables of the running usmp_recv.                             *)
EXTENDS TcpSession, Integers

CONSTANTS
    MaxAttempts,              \* frames one usmp_recv call reads, 10 in the code
    CScripts, CInterruptedScripts

ASSUME CTcpSessionAssumption == MaxAttempts \in Nat \ {0}

ASSUME CScriptsAssumption == AreScripts(CScripts \union CInterruptedScripts)

VARIABLES
    port,                     \* what B runs: "python" or "c"
    attempts                  \* frames the running usmp_recv has read, or NotCalled

cvars == <<vars, port, attempts>>

NotCalled == -1

CInit ==
    /\ \/ port = "python" /\ Init
       \/ port = "c" /\ InitWith(CScripts, CInterruptedScripts)
    /\ attempts = NotCalled

-----------------------------------------------------------------------------
(* Sending                                                                   *)

(* usmp_send, usmp_rekey, usmp_ping and usmp_close, from the application.    *)
CStart ==
    /\ attempts = NotCalled
    /\ StartSend("B") \/ StartRekey("B") \/ StartPing("B") \/ StartBye("B")
    /\ UNCHANGED attempts

CStartPong == StartPong("B") /\ UNCHANGED attempts

(* The loop of usmp_tcp_send, and what the caller of emit_frame does next.   *)
CWrite ==
    /\ \/ Resume("B") \/ NextFragment("B")
       \/ job["B"].op # "pong" /\ Finish("B")
    /\ UNCHANGED attempts

(* send() fails: emit_frame drops the session. *)
CDisconnected == Disconnected("B") /\ UNCHANGED attempts

-----------------------------------------------------------------------------
(* usmp_recv                                                                 *)

(* available(): there is something to read, the end of the stream included.  *)
Available == wire'["B"] # <<>> \/ ended["A"] # "no"

CRecv ==
    /\ ended["B"] = "no" /\ job["B"] = Idle
    /\ attempts = NotCalled
    /\ UNCHANGED vars
    /\ Available
    /\ attempts' = 0

InCall == ended["B"] = "no" /\ attempts # NotCalled /\ job["B"] = Idle /\ ~rcv["B"].pong

Return ==
    /\ attempts' = NotCalled
    /\ rcv' = [rcv EXCEPT !["B"] = Reading]
    /\ UNCHANGED ended

(* Where usmp_recv returns an error the caller takes the session for dead    *)
(* (USMP.cpp:55-59), though established may still be set.                    *)
Fail(why) == End("B", why) /\ UNCHANGED <<rcv, attempts>>

Continue(r) ==
    /\ attempts' = attempts + 1
    /\ rcv' = [rcv EXCEPT !["B"] = r]
    /\ UNCHANGED ended

(* As many reads as one call may make: half a message cannot be given back.  *)
CSpent ==
    /\ InCall /\ attempts >= MaxAttempts
    /\ IF rcv["B"].asm = <<>> THEN Return ELSE Fail("flood")
    /\ UNCHANGED <<script, gen, tx_seq, rx_seq, wire, job, interrupts, salts, sent, got, port>>

(* transport.recv returns the next frame. *)
CRead ==
    /\ InCall /\ attempts < MaxAttempts
    /\ wire["B"] # <<>>
    /\ wire' = [wire EXCEPT !["B"] = Tail(@)]
    /\ UNCHANGED <<script, interrupts, salts, sent>>

CAccept(types) ==
    /\ CRead
    /\ Opens("B", Head(wire["B"]))
    /\ Head(wire["B"]).type \in types

(* A frame of other keys or another sequence, a control frame inside a       *)
(* message, a fragment too many.                                             *)
CBreak ==
    /\ CRead
    /\ LET f == Head(wire["B"])
       IN  \/ ~Opens("B", f)
           \/ f.type \in Controls /\ rcv["B"].asm # <<>>
           \/ f.type = "DATA_FRAG" /\ Len(rcv["B"].asm) + 1 >= MaxFrags
    /\ Fail("broken")
    /\ UNCHANGED <<gen, tx_seq, rx_seq, job, got>>

(* A control frame is counted; the call goes on only if more is waiting, and *)
(* what is on the way may not have arrived.                                  *)
CountControl ==
    IF rcv["B"].ctrl + 1 > CtrlLimit
    THEN Fail("flood")
    ELSE \/ Return
         \/ Available /\ Continue([rcv["B"] EXCEPT !.ctrl = @ + 1, !.pong = FALSE])

CRecvPong ==
    /\ CAccept({"PONG"}) /\ rcv["B"].asm = <<>>
    /\ Count("B")
    /\ CountControl
    /\ UNCHANGED <<gen, tx_seq, job, got>>

CRecvRekey ==
    /\ CAccept({"REKEY"}) /\ rcv["B"].asm = <<>>
    /\ Rotate("B", Head(wire["B"]).data)
    /\ CountControl
    /\ UNCHANGED <<job, got>>

CRecvPing ==
    /\ CAccept({"PING"}) /\ rcv["B"].asm = <<>>
    /\ Count("B")
    /\ rcv' = [rcv EXCEPT !["B"].pong = TRUE]
    /\ UNCHANGED <<gen, tx_seq, job, ended, got, attempts>>

CFinishPong ==
    /\ ended["B"] = "no" /\ Running("B") /\ job["B"].op = "pong"
    /\ job' = [job EXCEPT !["B"] = Idle]
    /\ UNCHANGED wire
    /\ CountControl
    /\ UNCHANGED <<script, gen, tx_seq, rx_seq, interrupts, salts, sent, got>>

CRecvBye ==
    /\ CAccept({"BYE"})
    /\ Count("B")
    /\ Fail("bye")
    /\ UNCHANGED <<gen, tx_seq, job, got>>

CRecvFragment ==
    /\ CAccept({"DATA_FRAG"}) /\ Len(rcv["B"].asm) + 1 < MaxFrags
    /\ Count("B")
    /\ Continue([rcv["B"] EXCEPT !.asm = Append(@, Head(wire["B"]).data)])
    /\ UNCHANGED <<gen, tx_seq, job, got>>

CRecvData ==
    /\ CAccept({"DATA"})
    /\ Count("B")
    /\ got' = [got EXCEPT !["A"] = Append(@, Append(rcv["B"].asm, Head(wire["B"]).data))]
    /\ Return
    /\ UNCHANGED <<gen, tx_seq, job>>

CRecvEof ==
    /\ InCall /\ attempts < MaxAttempts
    /\ wire["B"] = <<>> /\ ended["A"] # "no"
    /\ Fail("eof")
    /\ UNCHANGED <<script, gen, tx_seq, rx_seq, wire, job, interrupts, salts, sent, got>>

(* Two seconds without a byte in the middle of a message, which the peer     *)
(* does not go on with: the empty read is taken for a frame it cannot parse. *)
CStall ==
    /\ InCall /\ attempts < MaxAttempts
    /\ wire["B"] = <<>> /\ ended["A"] = "no"
    /\ rcv["B"].asm # <<>> /\ job["A"].op # "send"
    /\ Fail("broken")
    /\ UNCHANGED <<script, gen, tx_seq, rx_seq, wire, job, interrupts, salts, sent, got>>

CReceiving ==
    \/ CRecv \/ CSpent \/ CBreak \/ CRecvPong \/ CRecvRekey \/ CRecvPing \/ CFinishPong
    \/ CRecvBye \/ CRecvFragment \/ CRecvData \/ CRecvEof \/ CStall

-----------------------------------------------------------------------------

PythonB == port = "python" /\ UNCHANGED <<port, attempts>>
DeviceB == port = "c" /\ UNCHANGED port

CNext ==
    \/ (Sending("A") \/ Receiving("A")) /\ UNCHANGED <<port, attempts>>
    \/ PythonB /\ (Sending("B") \/ Receiving("B"))
    \/ DeviceB /\ (CStart \/ CStartPong \/ CWrite \/ CDisconnected \/ CReceiving)

CSpec == CInit /\ [][CNext]_cvars

(* The fairness of TcpSession for whoever runs Python.  The one thread of    *)
(* the device runs on, and its application calls in turn usmp_recv and what  *)
(* it has to send. *)
CFairness ==
    /\ \A p \in Peers :
         LET Python == (p = "A" \/ port = "python") /\ UNCHANGED <<port, attempts>>
         IN  /\ WF_cvars(Python /\ (Resume(p) \/ NextFragment(p) \/ Finish(p)))
             /\ WF_cvars(Python /\ Receiving(p))
             /\ SF_cvars(Python /\ StartPong(p))
             /\ SF_cvars(Python /\ (StartSend(p) \/ StartRekey(p) \/ StartPing(p)
                                    \/ StartBye(p)))
    /\ WF_cvars(DeviceB /\ (CWrite \/ CStartPong))
    /\ WF_cvars(DeviceB /\ CReceiving)
    /\ SF_cvars(DeviceB /\ CStart)

CFairSpec == CSpec /\ CFairness

-----------------------------------------------------------------------------

CTypeOK ==
    /\ TypeOK
    /\ port \in {"python", "c"}
    /\ attempts \in {NotCalled} \union 0 .. MaxAttempts
    /\ port = "c" /\ ended["B"] = "no" => rcv["B"].ctrl \in 0 .. CtrlLimit

(* A peer waits to write, in drain() or in a send of the device, until the   *)
(* other reads, and does not read itself: the recv() of Python waits in turn *)
(* for the lock, or writes its PONG, and the device has one thread.          *)
Jammed(p) ==
    /\ ended[p] = "no"
    /\ job[p] # Idle /\ job[p].paused /\ Len(wire[Other(p)]) > Cap
    /\ rcv[p].pong \/ (p = "B" /\ port = "c")

(* Both wait for the other to read (_session.py:210-214, _frame.py:137-138): *)
(* nothing in the code resolves it.                                          *)
Deadlocked == \A p \in Peers : Jammed(p)

(* Every message sent arrives, unless the session ends or is interrupted, or *)
(* the peers have deadlocked, each with a full stream and a PING to answer,  *)
(* or a device in C that reads nothing while it sends: nothing else holds a  *)
(* message up forever, neither the lock nor a full stream nor an unanswered  *)
(* PING.                                                                     *)
EveryMessageArrives ==
    \A p \in Peers : \A k \in 1 .. MaxMsgs :
        Len(sent[p]) >= k ~>
            \/ Len(got[p]) >= k
            \/ interrupts \/ Deadlocked \/ \E q \in Peers : ended[q] # "no"
=============================================================================
