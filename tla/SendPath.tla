------------------------------ MODULE SendPath ------------------------------
(* The transmit side of one USMPSession (_session.py).  Coroutines compete   *)
(* for _send_lock; the holder seals a frame under (tx_key, tx_seq), burns    *)
(* the sequence and awaits write_frame, which may return, raise OSError or   *)
(* be cancelled.  The recv coroutine rotates the keys when the peer sends    *)
(* REKEY, and takes no lock to do so.  Between two awaits a coroutine runs   *)
(* alone, so each action below is the code between two awaits.               *)
EXTENDS Integers

CONSTANTS Tasks,              \* the coroutines of the application and of recv
          NoTask,
          MaxSeq,             \* the reserved top sequence, 0xFFFFFFFF in the code
          MaxFrags,           \* USMP_MAX_FRAMES, 4 in the code
          MaxKey              \* bound on the number of key rotations

ASSUME SendPathAssumption ==
    /\ NoTask \notin Tasks
    /\ MaxSeq \in Nat \ {0}
    /\ MaxFrags \in Nat \ {0}
    /\ MaxKey \in Nat

VARIABLES
    tx_seq,                   \* SessionInfo.tx_seq
    tx_key,                   \* SessionInfo.tx_key: the number of rotations so far
    send_lock,                \* the task holding _send_lock, or NoTask
    closed,                   \* USMPSession._closed
    transport_open,           \* transport.close() has not been called
    pc,                       \* where each task is: idle, queued on the lock, writing
    op,                       \* the operation of each task
    left,                     \* the fragments a task has still to seal
    at,                       \* the key and sequence of the last frame a task sealed
    sealed                    \* history: how often each <<key, seq>> sealed a frame

vars == <<tx_seq, tx_key, send_lock, closed, transport_open, pc, op, left, at, sealed>>

Seqs == 0 .. MaxSeq
Keys == 0 .. MaxKey
Nonces == Keys \X Seqs
Ops == {"none", "send", "ping", "pong", "rekey", "bye"}

Init ==
    /\ tx_seq = 0
    /\ tx_key = 0
    /\ send_lock = NoTask
    /\ closed = FALSE
    /\ transport_open = TRUE
    /\ pc = [t \in Tasks |-> "idle"]
    /\ op = [t \in Tasks |-> "none"]
    /\ left = [t \in Tasks |-> 0]
    /\ at = [t \in Tasks |-> [key |-> 0, seq |-> 0]]
    /\ sealed = [n \in Nonces |-> 0]

(* send(), ping(), the PONG of recv() and rekey() queue on the lock.         *)
Queue(t, o, n) ==
    /\ pc[t] = "idle"
    /\ pc' = [pc EXCEPT ![t] = "queued"]
    /\ op' = [op EXCEPT ![t] = o]
    /\ left' = [left EXCEPT ![t] = n]
    /\ UNCHANGED <<tx_seq, tx_key, send_lock, transport_open, at, sealed>>

Call(t, o, n) ==
    /\ o = "send" \/ n = 1
    /\ o = "rekey" => tx_key < MaxKey
    /\ Queue(t, o, n)
    /\ UNCHANGED closed

(* bye() runs once: _closed is tested and set before the first await. *)
Bye(t) ==
    /\ ~closed
    /\ Queue(t, "bye", 1)
    /\ closed' = TRUE

(* The sequence advances only up to the sentinel, which stays there. *)
Burn(s) == IF s < MaxSeq THEN s + 1 ELSE MaxSeq

CanSeal(t) == tx_seq < MaxSeq \/ op[t] = "bye"

(* The sequence is burnt only once the write has succeeded (mutant). *)
SealFrameLateBurn(t) ==
    /\ sealed' = [sealed EXCEPT ![<<tx_key, tx_seq>>] = @ + 1]
    /\ at' = [at EXCEPT ![t] = [key |-> tx_key, seq |-> tx_seq]]
    /\ tx_seq' = tx_seq
    /\ left' = [left EXCEPT ![t] = @ - 1]
    /\ pc' = [pc EXCEPT ![t] = "writing"]
    /\ send_lock' = t

(* One lock hold per fragment instead of one per message (mutant). *)
SealFrameUnlocked(t) ==
    /\ sealed' = [sealed EXCEPT ![<<tx_key, tx_seq>>] = @ + 1]
    /\ at' = [at EXCEPT ![t] = [key |-> tx_key, seq |-> tx_seq]]
    /\ tx_seq' = Burn(tx_seq)
    /\ left' = [left EXCEPT ![t] = @ - 1]
    /\ pc' = [pc EXCEPT ![t] = "writing"]
    /\ send_lock' = NoTask

(* encrypt, then burn the sequence, then put the frame on the wire. *)
SealFrame(t) ==
    /\ sealed' = [sealed EXCEPT ![<<tx_key, tx_seq>>] = @ + 1]
    /\ at' = [at EXCEPT ![t] = [key |-> tx_key, seq |-> tx_seq]]
    /\ tx_seq' = Burn(tx_seq)
    /\ left' = [left EXCEPT ![t] = @ - 1]
    /\ pc' = [pc EXCEPT ![t] = "writing"]
    /\ send_lock' = t

(* A task that raises keeps the lock (mutant). *)
LeaveLocked(t) ==
    /\ pc' = [pc EXCEPT ![t] = "idle"]
    /\ op' = [op EXCEPT ![t] = "none"]
    /\ left' = [left EXCEPT ![t] = 0]
    /\ UNCHANGED <<send_lock, at, sealed>>

(* The operation leaves the session: the lock, if held, is released. *)
Leave(t) ==
    /\ pc' = [pc EXCEPT ![t] = "idle"]
    /\ op' = [op EXCEPT ![t] = "none"]
    /\ left' = [left EXCEPT ![t] = 0]
    /\ send_lock' = IF send_lock = t THEN NoTask ELSE send_lock
    /\ UNCHANGED <<at, sealed>>

(* The lock is acquired and the first frame sealed, with no await between. *)
Start(t) ==
    /\ pc[t] = "queued"
    /\ send_lock = NoTask
    /\ CanSeal(t)
    /\ SealFrame(t)
    /\ UNCHANGED <<tx_key, closed, transport_open, op>>

(* write_frame returned and the message has fragments left. *)
Continue(t) ==
    /\ pc[t] = "writing"
    /\ left[t] > 0
    /\ CanSeal(t)
    /\ SealFrame(t)
    /\ UNCHANGED <<tx_key, closed, transport_open, op>>

(* The sequence is spent: SequenceError, before anything is sealed. *)
Spent(t) ==
    /\ \/ pc[t] = "queued" /\ send_lock = NoTask
       \/ pc[t] = "writing" /\ left[t] > 0
    /\ ~CanSeal(t)
    /\ Leave(t)
    /\ UNCHANGED <<tx_seq, tx_key, closed, transport_open>>

(* write_frame returned after the last frame.  rekey() rotates the keys and  *)
(* restarts the sequence before it leaves; bye() closes the transport.       *)
Finish(t) ==
    /\ pc[t] = "writing"
    /\ left[t] = 0
    /\ Leave(t)
    /\ IF op[t] = "rekey"
       THEN tx_key < MaxKey /\ tx_key' = tx_key + 1 /\ tx_seq' = 0
       ELSE UNCHANGED <<tx_key, tx_seq>>
    /\ transport_open' = (transport_open /\ op[t] # "bye")
    /\ UNCHANGED closed

Fail(t) ==
    /\ pc[t] \in {"queued", "writing"}
    /\ Leave(t)
    /\ transport_open' = (transport_open /\ op[t] # "bye")
    /\ UNCHANGED <<tx_seq, tx_key, closed>>

(* The recv coroutine handles REKEY from the peer: no lock is taken. *)
PeerRekey ==
    /\ tx_key < MaxKey
    /\ tx_key' = tx_key + 1
    /\ tx_seq' = 0
    /\ UNCHANGED <<send_lock, closed, transport_open, pc, op, left, at, sealed>>

Next ==
    \/ \E t \in Tasks :
         \/ \E o \in {"send", "ping", "pong", "rekey"}, n \in 1 .. MaxFrags : Call(t, o, n)
         \/ Bye(t) \/ Start(t) \/ Continue(t) \/ Spent(t) \/ Finish(t) \/ Fail(t)
    \/ PeerRekey

(* asyncio.Lock wakes its waiters in order. *)
Fairness == \A t \in Tasks : SF_vars(Start(t) \/ Spent(t))

Spec == Init /\ [][Next]_vars
FairSpec == Spec /\ Fairness

-----------------------------------------------------------------------------

TypeOK ==
    /\ tx_seq \in Seqs
    /\ tx_key \in Keys
    /\ send_lock \in Tasks \union {NoTask}
    /\ closed \in BOOLEAN
    /\ transport_open \in BOOLEAN
    /\ pc \in [Tasks -> {"idle", "queued", "writing"}]
    /\ op \in [Tasks -> Ops]
    /\ left \in [Tasks -> 0 .. MaxFrags]
    /\ at \in [Tasks -> [key : Keys, seq : Seqs]]
    /\ sealed \in [Nonces -> Nat]

(* No two frames are ever sealed under the same key and sequence, whatever   *)
(* is cancelled, fails or is retried, and although the sentinel sequence is  *)
(* never advanced (_session.py:357-364).  BYE is the one frame allowed on    *)
(* the sentinel; that it stays unique rests on bye() being idempotent.       *)
NonceUnique == \A n \in Nonces : sealed[n] <= 1

(* The fragments of a message leave with consecutive sequences as long as    *)
(* the key stays, whatever else is sent concurrently: the peer reassembles   *)
(* by consecutive sequence (_session.py:90-94).                              *)
NextFragment(t) ==
    /\ pc[t] = "writing"
    /\ pc'[t] = "writing"
    /\ left'[t] < left[t]

FragmentsConsecutive ==
    [][\A t \in Tasks :
          (NextFragment(t) /\ at'[t].key = at[t].key) => at'[t].seq = at[t].seq + 1]_vars

(* No write is awaited forever.  Over UDP the retransmissions give up after  *)
(* five timers; over TCP it takes a peer that goes on reading, or one that   *)
(* disconnects: drain() towards one that stops reading never returns         *)
(* (_frame.py:137-138).                                                      *)
WritesEnd ==
    \A t \in Tasks :
        WF_vars(pc[t] = "writing" /\ (Continue(t) \/ Spent(t) \/ Finish(t) \/ Fail(t)))

(* As long as every write ends, no operation waits forever: every way out of *)
(* a held lock releases it.  And once bye() has been called the transport is *)
(* closed in the end, even if that bye() fails, or is cancelled while it     *)
(* waits or writes (the finally of line 327).                                *)
EveryCallReturns ==
    WritesEnd =>
        /\ \A t \in Tasks : pc[t] # "idle" ~> pc[t] = "idle"
        /\ closed ~> ~transport_open
==============================================================================
