---------------------------- MODULE ReplayWindow ----------------------------
(* The receive side of a datagram session seen from its replay window.  The  *)
(* network may present any frame of any key epoch at any time, any number of *)
(* times.  A frame is authentic when it is sealed under the epoch the        *)
(* receiver holds; REKEY moves to the next epoch and restarts the window.    *)
(* The frames' contents and their fragmentation belong to UdpSession.        *)
EXTENDS Window

CONSTANTS MaxSeq,             \* the reserved top sequence, 0xFFFFFFFF in the code
          MaxEpoch            \* bound on the number of rekeys

ASSUME BoundsAssumption == MaxSeq \in Nat \ {0} /\ MaxEpoch \in Nat

VARIABLES
    rx_seq,                   \* highest sequence accepted in this epoch
    rx_window_bitmap,         \* set of one bits of the window
    rx_epoch,                 \* stands for rx_key
    established,
    taken                     \* history: how often each <<epoch, seq>> was accepted

vars == <<rx_seq, rx_window_bitmap, rx_epoch, established, taken>>

Seqs == 0 .. MaxSeq
Epochs == 0 .. MaxEpoch

Init ==
    /\ rx_seq = 0
    /\ rx_window_bitmap = {}
    /\ rx_epoch = 0
    /\ established = TRUE
    /\ taken = [f \in Epochs \X Seqs |-> 0]

(* A frame passes the window checks, decrypts under rx_key and is marked. *)
Accept(e, s) ==
    /\ established
    /\ s < MaxSeq
    /\ Fresh(rx_seq, rx_window_bitmap, s)
    /\ e = rx_epoch
    /\ rx_window_bitmap' = Slide(rx_seq, rx_window_bitmap, s)
    /\ rx_seq' = Advance(rx_seq, s)
    /\ taken' = [taken EXCEPT ![<<e, s>>] = @ + 1]
    /\ UNCHANGED <<rx_epoch, established>>

(* Sequence 0xFFFFFFFF ends a C session before the frame is decrypted. *)
Overflow(s) ==
    /\ established
    /\ s = MaxSeq
    /\ established' = FALSE
    /\ UNCHANGED <<rx_seq, rx_window_bitmap, rx_epoch, taken>>

(* A rotation that leaves the previous epoch's bitmap in place (mutant). *)
RekeyStaleBitmap ==
    /\ established
    /\ rx_epoch < MaxEpoch
    /\ rx_epoch' = rx_epoch + 1
    /\ rx_seq' = 0
    /\ UNCHANGED <<rx_window_bitmap, established, taken>>

(* Both ends of a REKEY: a fresh rx_key, sequence and bitmap cleared. *)
Rekey ==
    /\ established
    /\ rx_epoch < MaxEpoch
    /\ rx_epoch' = rx_epoch + 1
    /\ rx_seq' = 0
    /\ rx_window_bitmap' = {}
    /\ UNCHANGED <<established, taken>>

Next ==
    \/ \E e \in Epochs, s \in Seqs : Accept(e, s)
    \/ \E s \in Seqs : Overflow(s)
    \/ Rekey

Spec == Init /\ [][Next]_vars

-----------------------------------------------------------------------------

TypeOK ==
    /\ rx_seq \in Seqs
    /\ rx_window_bitmap \subseteq Bits
    /\ rx_epoch \in Epochs
    /\ established \in BOOLEAN
    /\ taken \in [Epochs \X Seqs -> Nat]

(* The window never remembers more or less than it should: a bit is set      *)
(* exactly when the sequence it stands for was accepted under this key, and  *)
(* nothing above rx_seq was.  A shift that is off by one, or a rekey that    *)
(* keeps an old bitmap, breaks it several frames later.                      *)
BitmapExact ==
    /\ \A o \in Bits :
         o \in rx_window_bitmap <=> (o <= rx_seq /\ taken[<<rx_epoch, rx_seq - o>>] > 0)
    /\ \A s \in Seqs : s > rx_seq => taken[<<rx_epoch, s>>] = 0

(* Keys not yet reached have sealed nothing that was accepted. *)
FutureUntaken == \A e \in Epochs, s \in Seqs : e > rx_epoch => taken[<<e, s>>] = 0

(* However the network duplicates and reorders, and however often the keys   *)
(* rotate, no frame is handed to the session twice (usmp_session.c:263-276,  *)
(* _session.py:121-129).                                                     *)
AcceptedAtMostOnce == \A f \in Epochs \X Seqs : taken[f] <= 1

(* The window has no false positives: a frame of this epoch that was never   *)
(* accepted and is less than W behind is still acceptable.                   *)
NoFalseReplay ==
    \A s \in Seqs :
        (s > rx_seq - W /\ taken[<<rx_epoch, s>>] = 0)
            => Fresh(rx_seq, rx_window_bitmap, s)

(* The abstract promise this window implements. *)
Once == INSTANCE AtMostOnce WITH Frames <- Epochs \X Seqs

ImplementsAtMostOnce == Once!Spec
==============================================================================
