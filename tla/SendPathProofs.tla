--------------------------- MODULE SendPathProofs ---------------------------
(* For any number of coroutines, any sequence width and any number of        *)
(* rotations: no nonce is used twice under a key, and the fragments of a     *)
(* message are consecutive as long as the key stays.                         *)
EXTENDS SendPath, TLAPS

(* Nothing has been sealed under a key not yet derived, nor at or above the  *)
(* next sequence of the current one, the sentinel excepted.                  *)
Unused ==
    \A n \in Nonces :
        (n[1] > tx_key \/ (n[1] = tx_key /\ n[2] >= tx_seq /\ n[2] < MaxSeq))
            => sealed[n] = 0

(* The sentinel is used by BYE alone, and by then no second BYE can come.    *)
ByeOnce ==
    /\ \A t \in Tasks : op[t] = "bye" => closed
    /\ \A t, u \in Tasks : (op[t] = "bye" /\ op[u] = "bye") => t = u
    /\ sealed[<<tx_key, MaxSeq>>] > 0
         => closed /\ \A t \in Tasks : op[t] = "bye" => pc[t] # "queued"

(* Who writes holds the lock, and nobody else has sealed since it did.       *)
Writer ==
    \A t \in Tasks : pc[t] = "writing" =>
        /\ send_lock = t
        /\ at[t].key <= tx_key
        /\ op[t] # "send" => left[t] = 0
        /\ op[t] = "send" => at[t].seq < MaxSeq
        /\ (at[t].key = tx_key /\ at[t].seq < MaxSeq) => tx_seq = at[t].seq + 1

(* A queued operation other than send() has one frame to seal.               *)
Queued ==
    \A t \in Tasks :
        /\ pc[t] = "idle" <=> op[t] = "none"
        /\ pc[t] = "queued" => left[t] > 0 /\ (op[t] # "send" => left[t] = 1)

IInv == TypeOK /\ NonceUnique /\ Unused /\ ByeOnce /\ Writer /\ Queued

LEMMA InitIInv == Init => IInv
<1> SUFFICES ASSUME Init PROVE IInv
  OBVIOUS
<1>1. \A n \in Nonces : sealed[n] = 0
  BY DEF Init
<1>2. 0 \in Seqs /\ 0 \in Keys /\ 0 \in 0 .. MaxFrags
  BY SendPathAssumption DEF Seqs, Keys
<1>3. <<tx_key, MaxSeq>> \in Nonces
  BY <1>2, SendPathAssumption DEF Nonces, Seqs, Init
<1>4. TypeOK
  BY <1>2 DEF Init, TypeOK, Ops
<1>5. NonceUnique /\ Unused
  BY <1>1 DEF NonceUnique, Unused
<1>6. ByeOnce
  BY <1>1, <1>3 DEF Init, ByeOnce
<1>7. Writer /\ Queued
  BY DEF Init, Writer, Queued
<1>8. QED
  BY <1>4, <1>5, <1>6, <1>7 DEF IInv

(* What sealing a frame does to the history: the nonce it uses was unused.   *)
LEMMA SealUnused ==
    ASSUME IInv, NEW t \in Tasks, CanSeal(t),
           op[t] = "bye" => pc[t] = "queued"
    PROVE  sealed[<<tx_key, tx_seq>>] = 0
<1>0. <<tx_key, tx_seq>> \in Nonces /\ tx_seq \in Seqs /\ MaxSeq \in Nat
  BY SendPathAssumption DEF IInv, TypeOK, Nonces
<1>1. CASE tx_seq < MaxSeq
  BY <1>0, <1>1 DEF IInv, Unused, Seqs
<1>2. CASE ~(tx_seq < MaxSeq)
  <2>1. tx_seq = MaxSeq /\ op[t] = "bye" /\ pc[t] = "queued"
    BY <1>0, <1>2 DEF CanSeal, Seqs
  <2>2. ~(sealed[<<tx_key, MaxSeq>>] > 0)
    BY <2>1 DEF IInv, ByeOnce
  <2>3. QED
    BY <1>0, <2>1, <2>2 DEF IInv, TypeOK
<1>3. QED
  BY <1>1, <1>2

(* The common part of Start and Continue.                                    *)
LEMMA SealIInv ==
    ASSUME IInv, NEW t \in Tasks, CanSeal(t), SealFrame(t),
           UNCHANGED <<tx_key, closed, transport_open, op>>,
           left[t] > 0, op[t] # "none",
           \A u \in Tasks : pc[u] = "writing" => u = t,
           op[t] # "send" => left[t] = 1 /\ pc[t] = "queued"
    PROVE  IInv'
<1> USE DEF IInv
<1> DEFINE n == <<tx_key, tx_seq>>
<1>0. /\ n \in Nonces /\ tx_seq \in Seqs /\ tx_key \in Keys
      /\ MaxSeq \in Nat /\ MaxSeq > 0 /\ MaxKey \in Nat
      /\ left[t] \in 0 .. MaxFrags
  BY SendPathAssumption DEF TypeOK, Nonces
<1>1. sealed[n] = 0
  BY SealUnused
<1>2. \A m \in Nonces : sealed'[m] = IF m = n THEN 1 ELSE sealed[m]
  BY <1>0, <1>1 DEF SealFrame, TypeOK
<1>3. /\ tx_seq' = Burn(tx_seq) /\ tx_seq' \in Seqs
      /\ tx_seq < MaxSeq => tx_seq' = tx_seq + 1
      /\ ~(tx_seq < MaxSeq) => tx_seq' = MaxSeq /\ tx_seq = MaxSeq /\ op[t] = "bye"
  BY <1>0 DEF SealFrame, Burn, Seqs, CanSeal
<1>4. TypeOK'
  <2>1. sealed' \in [Nonces -> Nat]
    BY <1>0, <1>1 DEF SealFrame, TypeOK
  <2>2. left' \in [Tasks -> 0 .. MaxFrags]
    BY <1>0, SendPathAssumption DEF SealFrame, TypeOK
  <2>3. at' \in [Tasks -> [key : Keys, seq : Seqs]]
    BY <1>0 DEF SealFrame, TypeOK
  <2>4. QED
    BY <1>3, <2>1, <2>2, <2>3 DEF TypeOK, SealFrame
<1>5. NonceUnique'
  BY <1>2 DEF NonceUnique
<1>6. Unused'
  <2> SUFFICES ASSUME NEW m \in Nonces,
                      m[1] > tx_key \/ (m[1] = tx_key /\ m[2] >= tx_seq' /\ m[2] < MaxSeq)
               PROVE  sealed'[m] = 0
    BY DEF Unused
  <2>1. m[1] \in Keys /\ m[2] \in Seqs
    BY DEF Nonces
  <2>2. CASE m[1] > tx_key
    <3>1. m # n
      BY <1>0, <2>2 DEF Keys
    <3>2. QED
      BY <1>2, <2>2, <3>1 DEF Unused
  <2>3. CASE m[1] = tx_key /\ m[2] >= tx_seq' /\ m[2] < MaxSeq
    <3>1. m[2] > tx_seq
      BY <1>0, <1>3, <2>1, <2>3 DEF Seqs
    <3>2. m # n
      BY <1>0, <2>1, <3>1 DEF Seqs
    <3>3. m[2] >= tx_seq
      BY <1>0, <2>1, <3>1 DEF Seqs
    <3>4. QED
      BY <1>2, <2>3, <3>2, <3>3 DEF Unused
  <2>4. QED
    BY <2>2, <2>3
<1>7. ByeOnce'
  <2>1. /\ \A u \in Tasks : op'[u] = "bye" => closed'
        /\ \A u, v \in Tasks : (op'[u] = "bye" /\ op'[v] = "bye") => u = v
    BY DEF ByeOnce
  <2>2. ASSUME sealed'[<<tx_key, MaxSeq>>] > 0
        PROVE  closed' /\ \A u \in Tasks : op'[u] = "bye" => pc'[u] # "queued"
    <3>1. <<tx_key, MaxSeq>> \in Nonces
      BY <1>0 DEF Nonces, Seqs
    <3>2. CASE tx_seq = MaxSeq
      <4>1. op[t] = "bye" /\ closed
        BY <1>0, <1>3, <3>2 DEF ByeOnce
      <4>2. \A u \in Tasks : op[u] = "bye" => u = t
        BY <4>1 DEF ByeOnce
      <4>3. QED
        BY <4>1, <4>2 DEF SealFrame, TypeOK
    <3>3. CASE tx_seq # MaxSeq
      <4>1. sealed[<<tx_key, MaxSeq>>] > 0
        BY <1>2, <2>2, <3>1, <3>3
      <4>2. closed /\ \A u \in Tasks : op[u] = "bye" => pc[u] # "queued"
        BY <4>1 DEF ByeOnce
      <4>3. QED
        BY <4>2 DEF SealFrame, TypeOK
    <3>4. QED
      BY <3>2, <3>3
  <2>3. QED
    BY <2>1, <2>2 DEF ByeOnce
<1>8. Writer'
  <2> SUFFICES ASSUME NEW u \in Tasks, pc'[u] = "writing"
               PROVE  /\ send_lock' = u
                      /\ at'[u].key <= tx_key'
                      /\ op'[u] # "send" => left'[u] = 0
                      /\ op'[u] = "send" => at'[u].seq < MaxSeq
                      /\ (at'[u].key = tx_key' /\ at'[u].seq < MaxSeq)
                            => tx_seq' = at'[u].seq + 1
    BY DEF Writer
  <2>1. u = t
    BY DEF SealFrame, TypeOK
  <2>2. at'[t] = [key |-> tx_key, seq |-> tx_seq] /\ left'[t] = left[t] - 1 /\ send_lock' = t
    BY DEF SealFrame, TypeOK
  <2>3. op[t] = "send" => tx_seq < MaxSeq
    BY DEF CanSeal
  <2>4. QED
    BY <1>0, <1>3, <2>1, <2>2, <2>3 DEF Keys, Seqs
<1>9. Queued'
  BY DEF Queued, SealFrame, TypeOK
<1>10. QED
  BY <1>4, <1>5, <1>6, <1>7, <1>8, <1>9

LEMMA StartIInv == ASSUME IInv, NEW t \in Tasks, Start(t) PROVE IInv'
<1>1. \A u \in Tasks : pc[u] # "writing"
  BY SendPathAssumption DEF Start, IInv, Writer
<1>2. left[t] > 0 /\ op[t] # "none" /\ (op[t] # "send" => left[t] = 1)
  BY DEF Start, IInv, Queued
<1>3. QED
  BY <1>1, <1>2, SealIInv DEF Start

LEMMA ContinueIInv == ASSUME IInv, NEW t \in Tasks, Continue(t) PROVE IInv'
<1>1. \A u \in Tasks : pc[u] = "writing" => u = t
  BY DEF Continue, IInv, Writer
<1>2. op[t] = "send"
  <2>1. left[t] \in Nat
    BY SendPathAssumption DEF IInv, TypeOK
  <2>2. QED
    BY <2>1 DEF Continue, IInv, Writer
<1>3. QED
  BY <1>1, <1>2, SealIInv DEF Continue

LEMMA QueueIInv ==
    ASSUME IInv, NEW t \in Tasks, NEW o \in Ops, NEW n \in 1 .. MaxFrags,
           Queue(t, o, n), o # "none", o = "send" \/ n = 1,
           \/ o # "bye" /\ UNCHANGED closed
           \/ o = "bye" /\ ~closed /\ closed' = TRUE
    PROVE  IInv'
<1> USE DEF IInv
<1>1. TypeOK'
  <2>1. closed' \in BOOLEAN
    BY DEF TypeOK
  <2>2. n \in 0 .. MaxFrags
    BY SendPathAssumption
  <2>3. QED
    BY <2>1, <2>2 DEF TypeOK, Queue
<1>2. NonceUnique' /\ Unused'
  BY DEF NonceUnique, Unused, Queue
<1>3. ByeOnce'
  <2>1. o = "bye" => \A u \in Tasks : op[u] # "bye"
    BY DEF ByeOnce
  <2>2. o = "bye" => ~(sealed[<<tx_key, MaxSeq>>] > 0)
    BY DEF ByeOnce
  <2>3. QED
    BY <2>1, <2>2 DEF ByeOnce, Queue, TypeOK
<1>4. Writer'
  BY DEF Writer, Queue, TypeOK
<1>5. Queued'
  BY SendPathAssumption DEF Queued, Queue, TypeOK
<1>6. QED
  BY <1>1, <1>2, <1>3, <1>4, <1>5

(* Rotating to the next key, whatever the tasks do at that moment.           *)
LEMMA RotateIInv ==
    ASSUME IInv, tx_key < MaxKey, tx_key' = tx_key + 1, tx_seq' = 0,
           sealed' = sealed
    PROVE  /\ NonceUnique' /\ Unused' /\ tx_key' \in Keys /\ tx_seq' \in Seqs
           /\ sealed'[<<tx_key', MaxSeq>>] = 0
<1>1. tx_key \in Keys /\ MaxKey \in Nat /\ MaxSeq \in Nat
  BY SendPathAssumption DEF IInv, TypeOK
<1>2. NonceUnique' /\ tx_key' \in Keys /\ tx_seq' \in Seqs
  BY <1>1 DEF IInv, NonceUnique, Keys, Seqs
<1>3. \A n \in Nonces : n[1] > tx_key => sealed[n] = 0
  BY DEF IInv, Unused
<1>4. Unused'
  <2> SUFFICES ASSUME NEW n \in Nonces,
                      n[1] > tx_key' \/ n[1] = tx_key'
               PROVE  sealed'[n] = 0
    BY DEF Unused
  <2>1. n[1] > tx_key
    BY <1>1 DEF Nonces, Keys
  <2>2. QED
    BY <1>3, <2>1
<1>5. sealed'[<<tx_key', MaxSeq>>] = 0
  <2>1. <<tx_key', MaxSeq>> \in Nonces /\ tx_key' > tx_key
    BY <1>1, <1>2 DEF Nonces, Seqs, Keys
  <2>2. QED
    BY <1>3, <2>1
<1>6. QED
  BY <1>2, <1>4, <1>5

(* Leaving without touching the sequence: Spent and Fail.                    *)
LEMMA LeaveIInv ==
    ASSUME IInv, NEW t \in Tasks, Leave(t),
           UNCHANGED <<tx_seq, tx_key, closed>>, transport_open' \in BOOLEAN
    PROVE  IInv'
<1> USE DEF IInv
<1>1. TypeOK'
  BY SendPathAssumption DEF TypeOK, Leave, Ops
<1>2. NonceUnique' /\ Unused'
  BY DEF NonceUnique, Unused, Leave
<1>3. ByeOnce'
  BY DEF ByeOnce, Leave, TypeOK
<1>4. Writer'
  BY DEF Writer, Leave, TypeOK
<1>5. Queued'
  BY DEF Queued, Leave, TypeOK
<1>6. QED
  BY <1>1, <1>2, <1>3, <1>4, <1>5

LEMMA FinishIInv == ASSUME IInv, NEW t \in Tasks, Finish(t) PROVE IInv'
<1> USE DEF IInv
<1>1. CASE op[t] # "rekey"
  BY <1>1, LeaveIInv DEF Finish, TypeOK
<1>2. CASE op[t] = "rekey"
  <2>1. Leave(t) /\ tx_key < MaxKey /\ tx_key' = tx_key + 1 /\ tx_seq' = 0
        /\ UNCHANGED <<closed, transport_open>>
    BY <1>2 DEF Finish, TypeOK
  <2>2. sealed' = sealed
    BY <2>1 DEF Leave
  <2>3. /\ NonceUnique' /\ Unused' /\ tx_key' \in Keys /\ tx_seq' \in Seqs
        /\ sealed'[<<tx_key', MaxSeq>>] = 0
    BY <2>1, <2>2, RotateIInv
  <2>4. TypeOK'
    BY <2>1, <2>3, SendPathAssumption DEF TypeOK, Leave, Ops
  <2>5. ByeOnce'
    BY <2>1, <2>3 DEF ByeOnce, Leave, TypeOK
  <2>6. \A u \in Tasks : pc'[u] # "writing"
    BY <2>1 DEF Writer, Leave, Finish, TypeOK
  <2>7. Queued'
    BY <2>1 DEF Queued, Leave, TypeOK
  <2>8. QED
    BY <2>3, <2>4, <2>5, <2>6, <2>7 DEF Writer
<1>3. QED
  BY <1>1, <1>2

LEMMA PeerRekeyIInv == ASSUME IInv, PeerRekey PROVE IInv'
<1> USE DEF IInv
<1>1. /\ NonceUnique' /\ Unused' /\ tx_key' \in Keys /\ tx_seq' \in Seqs
      /\ sealed'[<<tx_key', MaxSeq>>] = 0
  BY RotateIInv DEF PeerRekey
<1>2. TypeOK' /\ Queued'
  BY <1>1 DEF TypeOK, Queued, PeerRekey
<1>3. ByeOnce'
  BY <1>1 DEF ByeOnce, PeerRekey
<1>4. Writer'
  <2>1. \A u \in Tasks : pc[u] = "writing" => at[u].key # tx_key'
    BY DEF Writer, PeerRekey, TypeOK, Keys
  <2>2. \A u \in Tasks : pc[u] = "writing" => at[u].key <= tx_key'
    BY DEF Writer, PeerRekey, TypeOK, Keys
  <2>3. QED
    BY <2>1, <2>2 DEF Writer, PeerRekey
<1>5. QED
  BY <1>1, <1>2, <1>3, <1>4

LEMMA StepIInv == IInv /\ [Next]_vars => IInv'
<1> SUFFICES ASSUME IInv, [Next]_vars PROVE IInv'
  OBVIOUS
<1>1. ASSUME NEW t \in Tasks, NEW o \in {"send", "ping", "pong", "rekey"},
             NEW n \in 1 .. MaxFrags, Call(t, o, n)
      PROVE  IInv'
  BY <1>1, QueueIInv DEF Call, Ops
<1>2. ASSUME NEW t \in Tasks, Bye(t) PROVE IInv'
  <2>1. 1 \in 1 .. MaxFrags
    BY SendPathAssumption
  <2>2. QED
    BY <1>2, <2>1, QueueIInv DEF Bye, Ops
<1>3. ASSUME NEW t \in Tasks, Start(t) PROVE IInv'
  BY <1>3, StartIInv
<1>4. ASSUME NEW t \in Tasks, Continue(t) PROVE IInv'
  BY <1>4, ContinueIInv
<1>5. ASSUME NEW t \in Tasks, Spent(t) PROVE IInv'
  BY <1>5, LeaveIInv DEF Spent, IInv, TypeOK
<1>6. ASSUME NEW t \in Tasks, Finish(t) PROVE IInv'
  BY <1>6, FinishIInv
<1>7. ASSUME NEW t \in Tasks, Fail(t) PROVE IInv'
  BY <1>7, LeaveIInv DEF Fail, IInv, TypeOK
<1>8. CASE PeerRekey
  BY <1>8, PeerRekeyIInv
<1>9. CASE UNCHANGED vars
  BY <1>9 DEF vars, IInv, TypeOK, NonceUnique, Unused, ByeOnce, Writer, Queued
<1>10. QED
  BY <1>1, <1>2, <1>3, <1>4, <1>5, <1>6, <1>7, <1>8, <1>9 DEF Next

(* Type correctness. *)
THEOREM TypeCorrect == Spec => []TypeOK
<1>1. IInv => TypeOK
  BY DEF IInv
<1>2. QED
  BY InitIInv, StepIInv, <1>1, PTL DEF Spec

(* No key ever seals two frames with the same sequence (_session.py:357-364). *)
THEOREM NoNonceReuse == Spec => []NonceUnique
<1>1. IInv => NonceUnique
  BY DEF IInv
<1>2. QED
  BY InitIInv, StepIInv, <1>1, PTL DEF Spec

(* While the key stays, a message's fragments are consecutive: nothing else  *)
(* is sealed between them (_session.py:90-104).                              *)
THEOREM FragmentsStayConsecutive == Spec => FragmentsConsecutive
<1> DEFINE A == \A t \in Tasks :
                  (NextFragment(t) /\ at'[t].key = at[t].key) => at'[t].seq = at[t].seq + 1
<1>1. IInv /\ [Next]_vars => [A]_vars
  <2> SUFFICES ASSUME IInv, Next, NEW t \in Tasks, NextFragment(t), at'[t].key = at[t].key
               PROVE  at'[t].seq = at[t].seq + 1
    OBVIOUS
  <2>1. Continue(t)
    <3>1. \A u \in Tasks : ~Start(u)
      BY SendPathAssumption DEF NextFragment, Start, IInv, Writer
    <3>2. \A u \in Tasks : Continue(u) => u = t
      BY DEF NextFragment, Continue, IInv, Writer
    <3>3. \A u \in Tasks : ~Spent(u) /\ ~Fail(u) /\ ~Finish(u)
      BY DEF NextFragment, Spent, Fail, Finish, Leave, IInv, TypeOK
    <3>4. \A u \in Tasks, o \in Ops, n \in 1 .. MaxFrags : ~Queue(u, o, n)
      BY DEF NextFragment, Queue, IInv, TypeOK
    <3>5. ~PeerRekey
      BY SendPathAssumption DEF NextFragment, PeerRekey, IInv, TypeOK
    <3>6. \A u \in Tasks : ~Bye(u)
      BY <3>4, SendPathAssumption DEF Bye, Ops
    <3>7. QED
      BY <3>1, <3>2, <3>3, <3>4, <3>5, <3>6 DEF Next, Call, Ops
  <2>2. at'[t] = [key |-> tx_key, seq |-> tx_seq]
    BY <2>1 DEF Continue, SealFrame, IInv, TypeOK
  <2>3. op[t] = "send"
    <3>1. left[t] \in Nat
      BY SendPathAssumption DEF IInv, TypeOK
    <3>2. QED
      BY <2>1, <3>1 DEF Continue, IInv, Writer
  <2>4. tx_seq = at[t].seq + 1
    BY <2>1, <2>2, <2>3 DEF Continue, IInv, Writer
  <2>5. QED
    BY <2>2, <2>4
<1>2. QED
  BY InitIInv, StepIInv, <1>1, PTL DEF Spec, FragmentsConsecutive
==============================================================================
