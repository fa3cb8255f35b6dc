------------------------- MODULE ReplayWindowProofs -------------------------
(* For every window width, sequence range and number of rekeys: the window's *)
(* bitmap is exact, and therefore no frame is accepted twice and none that   *)
(* is fresh is refused.                                                      *)
EXTENDS ReplayWindow, TLAPS

(* The inductive invariant: exactness for the current epoch, emptiness of    *)
(* the epochs to come, and at most one acceptance of anything.  Exactness    *)
(* alone is not inductive across a rekey, which needs the next epoch empty.  *)
IInv == TypeOK /\ BitmapExact /\ FutureUntaken /\ AcceptedAtMostOnce

(* Sliding to a higher sequence: bit 0 is the new frame, and bit o stands    *)
(* for the same sequence as bit o - (s - rx) did (usmp_session.c:350-357).   *)
LEMMA SlideUp ==
    ASSUME NEW rx \in Nat, NEW s \in Nat, s > rx,
           NEW bm \in SUBSET Bits, NEW o \in Bits
    PROVE  o \in Slide(rx, bm, s) <=> (o = 0 \/ o - (s - rx) \in bm)
<1>1. CASE s - rx < W
  BY <1>1, WAssumption DEF Slide, ShiftLeft, Bits
<1>2. CASE ~(s - rx < W)
  <2>1. o - (s - rx) \notin Bits
    BY <1>2, WAssumption DEF Bits
  <2>2. QED
    BY <1>2, <2>1, WAssumption DEF Slide, Bits
<1>3. QED
  BY <1>1, <1>2

(* Marking a late frame sets its own bit and no other.                       *)
LEMMA SlideIn ==
    ASSUME NEW rx \in Nat, NEW s \in Nat, s <= rx,
           NEW bm \in SUBSET Bits, NEW o \in Bits
    PROVE  o \in Slide(rx, bm, s) <=> (o = rx - s \/ o \in bm)
BY WAssumption DEF Slide, Bits

LEMMA SlideType ==
    ASSUME NEW rx \in Nat, NEW s \in Nat, NEW bm \in SUBSET Bits, ~TooOld(rx, s)
    PROVE  Slide(rx, bm, s) \in SUBSET Bits
BY WAssumption DEF Slide, ShiftLeft, Bits, TooOld

LEMMA InitIInv == Init => IInv
BY WAssumption, BoundsAssumption
   DEF Init, IInv, TypeOK, BitmapExact, FutureUntaken, AcceptedAtMostOnce,
       Seqs, Epochs, Bits

(* A fresh frame has not been taken yet: the one fact that turns exactness   *)
(* into at-most-once.                                                        *)
LEMMA FreshUntaken ==
    ASSUME TypeOK, BitmapExact, NEW s \in Seqs,
           Fresh(rx_seq, rx_window_bitmap, s)
    PROVE  taken[<<rx_epoch, s>>] = 0
<1>1. CASE s > rx_seq
  BY <1>1 DEF BitmapExact
<1>2. CASE s <= rx_seq
  <2>1. rx_seq - s \in Bits /\ rx_seq - s <= rx_seq /\ rx_seq - (rx_seq - s) = s
    BY <1>2, WAssumption, BoundsAssumption DEF Fresh, TooOld, Bits, TypeOK, Seqs
  <2>2. rx_seq - s \notin rx_window_bitmap
    BY <1>2 DEF Fresh, Duplicate
  <2>3. ~(taken[<<rx_epoch, s>>] > 0)
    BY <2>1, <2>2 DEF BitmapExact
  <2>4. taken[<<rx_epoch, s>>] \in Nat
    BY DEF TypeOK
  <2>5. QED
    BY <2>3, <2>4
<1>3. QED
  BY <1>1, <1>2, BoundsAssumption DEF TypeOK, Seqs

LEMMA AcceptIInv ==
    ASSUME IInv, NEW e \in Epochs, NEW s \in Seqs, Accept(e, s)
    PROVE  IInv'
<1> USE DEF IInv
<1> DEFINE f == <<e, s>>
<1>0. /\ rx_seq \in Nat /\ s \in Nat /\ rx_window_bitmap \in SUBSET Bits
      /\ f \in Epochs \X Seqs
      /\ f = <<rx_epoch, s>>
  BY BoundsAssumption DEF TypeOK, Seqs, Accept
<1>1. taken[f] = 0
  BY <1>0, FreshUntaken DEF Accept
<1>2. /\ taken' = [taken EXCEPT ![f] = 1]
      /\ \A g \in Epochs \X Seqs : taken'[g] = IF g = f THEN 1 ELSE taken[g]
  BY <1>0, <1>1 DEF Accept, TypeOK
<1>3. rx_seq' \in Seqs /\ rx_seq' >= rx_seq /\ rx_seq' >= s
  BY <1>0 DEF Accept, Advance, TypeOK, Seqs
<1>4. TypeOK'
  <2>1. rx_window_bitmap' \in SUBSET Bits
    BY <1>0, SlideType DEF Accept, Fresh
  <2>2. QED
    BY <1>2, <1>3, <2>1 DEF TypeOK, Accept
<1>5. BitmapExact'
  <2>1. ASSUME NEW o \in Bits
        PROVE  (o \in rx_window_bitmap)' <=>
                 (o <= rx_seq' /\ taken'[<<rx_epoch', rx_seq' - o>>] > 0)
    <3>1. CASE s > rx_seq
      <4>1. rx_seq' = s /\ rx_epoch' = rx_epoch
        BY <3>1 DEF Accept, Advance
      <4>2. o \in rx_window_bitmap' <=> (o = 0 \/ o - (s - rx_seq) \in rx_window_bitmap)
        BY <1>0, <3>1, SlideUp DEF Accept
      <4>3. CASE o = 0
        <5>1. <<rx_epoch, s - o>> = f
          BY <1>0, <4>3
        <5>2. QED
          BY <1>0, <1>2, <4>1, <4>2, <4>3, <5>1 DEF Seqs
      <4>4. CASE o # 0 /\ o > s
        <5>1. o - (s - rx_seq) > rx_seq
          BY <1>0, <4>4 DEF Bits
        <5>2. ASSUME o - (s - rx_seq) \in rx_window_bitmap PROVE FALSE
          <6>1. o - (s - rx_seq) \in Bits
            BY <1>0, <5>2
          <6>2. o - (s - rx_seq) <= rx_seq
            BY <5>2, <6>1 DEF BitmapExact
          <6>3. QED
            BY <1>0, <5>1, <6>2 DEF Bits
        <5>3. QED
          BY <1>0, <4>1, <4>2, <4>4, <5>2 DEF Bits
      <4>5. CASE o # 0 /\ o <= s
        <5> DEFINE p == o - (s - rx_seq)
        <5>1. /\ s - o \in Seqs /\ s - o # s /\ <<rx_epoch, s - o>> # f
              /\ p <= rx_seq /\ rx_seq - p = s - o
          BY <1>0, <4>5, BoundsAssumption DEF Seqs, Bits
        <5>2. <<rx_epoch, s - o>> \in Epochs \X Seqs
          BY <5>1 DEF TypeOK
        <5>3. taken'[<<rx_epoch', rx_seq' - o>>] = taken[<<rx_epoch, s - o>>]
          BY <1>2, <4>1, <5>1, <5>2
        <5>4. CASE p \in Bits
          <6>1. p \in rx_window_bitmap <=> taken[<<rx_epoch, s - o>>] > 0
            BY <5>1, <5>4 DEF BitmapExact
          <6>2. QED
            BY <4>1, <4>2, <4>5, <5>3, <6>1
        <5>5. CASE p \notin Bits
          <6>1. s - o > rx_seq
            BY <1>0, <4>5, <5>5, WAssumption, <3>1 DEF Bits
          <6>2. taken[<<rx_epoch, s - o>>] = 0
            BY <5>1, <6>1 DEF BitmapExact
          <6>3. QED
            BY <1>0, <4>1, <4>2, <4>5, <5>3, <5>5, <6>2
        <5>6. QED
          BY <5>4, <5>5
      <4>6. QED
        BY <4>3, <4>4, <4>5, <1>0 DEF Bits
    <3>2. CASE s <= rx_seq
      <4>1. rx_seq' = rx_seq /\ rx_epoch' = rx_epoch
        BY <3>2, <1>0 DEF Accept, Advance
      <4>2. o \in rx_window_bitmap' <=> (o = rx_seq - s \/ o \in rx_window_bitmap)
        BY <1>0, <3>2, SlideIn DEF Accept
      <4>3. CASE o = rx_seq - s
        <5>1. o <= rx_seq /\ <<rx_epoch, rx_seq - o>> = f
          BY <1>0, <4>3
        <5>2. QED
          BY <1>0, <1>2, <4>1, <4>2, <4>3, <5>1
      <4>4. CASE o # rx_seq - s /\ o <= rx_seq
        <5>1. rx_seq - o \in Seqs /\ <<rx_epoch, rx_seq - o>> # f
          BY <1>0, <4>4, BoundsAssumption DEF Seqs, Bits, TypeOK
        <5>2. taken'[<<rx_epoch, rx_seq - o>>] = taken[<<rx_epoch, rx_seq - o>>]
          BY <1>2, <5>1 DEF TypeOK
        <5>3. QED
          BY <4>1, <4>2, <4>4, <5>2 DEF BitmapExact
      <4>5. CASE o > rx_seq
        BY <1>0, <4>1, <4>2, <4>5 DEF BitmapExact, Bits
      <4>6. QED
        BY <4>3, <4>4, <4>5, <1>0 DEF Bits
    <3>3. QED
      BY <3>1, <3>2, <1>0
  <2>2. ASSUME NEW t \in Seqs, t > rx_seq'
        PROVE  taken'[<<rx_epoch', t>>] = 0
    <3>1. t # s /\ t > rx_seq
      BY <1>0, <1>3, <2>2 DEF Seqs
    <3>2. <<rx_epoch, t>> \in Epochs \X Seqs /\ <<rx_epoch, t>> # f
      BY <3>1 DEF TypeOK
    <3>3. taken'[<<rx_epoch, t>>] = taken[<<rx_epoch, t>>]
      BY <1>2, <3>2
    <3>4. QED
      BY <3>1, <3>3 DEF BitmapExact, Accept
  <2>3. QED
    BY <2>1, <2>2 DEF BitmapExact
<1>6. FutureUntaken'
  BY <1>0, <1>2 DEF FutureUntaken, Accept, TypeOK, Epochs
<1>7. AcceptedAtMostOnce'
  BY <1>2 DEF AcceptedAtMostOnce
<1>8. QED
  BY <1>4, <1>5, <1>6, <1>7

LEMMA RekeyIInv ==
    ASSUME IInv, Rekey
    PROVE  IInv'
<1> USE DEF IInv
<1>1. TypeOK'
  BY BoundsAssumption DEF TypeOK, Rekey, Seqs, Epochs, Bits
<1>2. \A t \in Seqs : taken'[<<rx_epoch', t>>] = 0
  BY <1>1, BoundsAssumption DEF FutureUntaken, Rekey, TypeOK, Epochs
<1>3. BitmapExact'
  <2>1. ASSUME NEW o \in Bits
        PROVE  ~(o <= rx_seq' /\ taken'[<<rx_epoch', rx_seq' - o>>] > 0)
    <3>1. CASE o = 0
      BY <3>1, <1>2, BoundsAssumption DEF Rekey, Seqs
    <3>2. CASE o # 0
      BY <3>2, WAssumption DEF Rekey, Bits
    <3>3. QED
      BY <3>1, <3>2
  <2>2. QED
    BY <1>2, <2>1 DEF BitmapExact, Rekey
<1>4. FutureUntaken'
  BY DEF FutureUntaken, Rekey, TypeOK, Epochs
<1>5. AcceptedAtMostOnce'
  BY DEF AcceptedAtMostOnce, Rekey
<1>6. QED
  BY <1>1, <1>3, <1>4, <1>5

LEMMA StepIInv == IInv /\ [Next]_vars => IInv'
<1> SUFFICES ASSUME IInv, [Next]_vars PROVE IInv'
  OBVIOUS
<1>1. ASSUME NEW e \in Epochs, NEW s \in Seqs, Accept(e, s) PROVE IInv'
  BY <1>1, AcceptIInv
<1>2. ASSUME NEW s \in Seqs, Overflow(s) PROVE IInv'
  BY <1>2 DEF IInv, Overflow, TypeOK, BitmapExact, FutureUntaken, AcceptedAtMostOnce
<1>3. CASE Rekey
  BY <1>3, RekeyIInv
<1>4. CASE UNCHANGED vars
  BY <1>4 DEF vars, IInv, TypeOK, BitmapExact, FutureUntaken, AcceptedAtMostOnce
<1>5. QED
  BY <1>1, <1>2, <1>3, <1>4 DEF Next

(* Type correctness. *)
THEOREM TypeCorrect == Spec => []TypeOK
<1>1. IInv => TypeOK
  BY DEF IInv
<1>2. QED
  BY InitIInv, StepIInv, <1>1, PTL DEF Spec

(* The bitmap mirrors exactly what was accepted, in every reachable state.   *)
THEOREM BitmapCorrect == Spec => []BitmapExact
<1>1. IInv => BitmapExact
  BY DEF IInv
<1>2. QED
  BY InitIInv, StepIInv, <1>1, PTL DEF Spec

(* No frame reaches the session twice, however the network behaves.          *)
THEOREM NoReplay == Spec => []AcceptedAtMostOnce
<1>1. IInv => AcceptedAtMostOnce
  BY DEF IInv
<1>2. QED
  BY InitIInv, StepIInv, <1>1, PTL DEF Spec

(* A frame never seen and not yet behind the window is never refused.        *)
LEMMA ExactNoFalseReplay == IInv => NoFalseReplay
<1> SUFFICES ASSUME IInv, NEW s \in Seqs, s > rx_seq - W, taken[<<rx_epoch, s>>] = 0
             PROVE  Fresh(rx_seq, rx_window_bitmap, s)
  BY DEF NoFalseReplay
<1>1. rx_seq \in Nat /\ s \in Nat
  BY BoundsAssumption DEF IInv, TypeOK, Seqs
<1>2. ~TooOld(rx_seq, s)
  BY <1>1, WAssumption DEF TooOld
<1>3. ~Duplicate(rx_seq, rx_window_bitmap, s)
  <2> SUFFICES ASSUME s <= rx_seq, rx_seq - s \in rx_window_bitmap PROVE FALSE
    BY DEF Duplicate
  <2>1. rx_seq - s \in Bits
    BY DEF IInv, TypeOK
  <2>2. taken[<<rx_epoch, rx_seq - (rx_seq - s)>>] > 0
    BY <2>1 DEF IInv, BitmapExact
  <2>3. rx_seq - (rx_seq - s) = s
    BY <1>1
  <2>4. QED
    BY <2>2, <2>3
<1>4. QED
  BY <1>2, <1>3 DEF Fresh

THEOREM NothingFreshRefused == Spec => []NoFalseReplay
BY InitIInv, StepIInv, ExactNoFalseReplay, PTL DEF Spec

(* The window implements the abstract at-most-once receiver: an acceptance   *)
(* is a Take of a frame not taken before, every other step a stutter.        *)
THEOREM Refinement == Spec => ImplementsAtMostOnce
<1>1. Init => Once!Init
  BY DEF Init, Once!Init
<1>2. IInv /\ [Next]_vars => [Once!Next]_taken
  <2> SUFFICES ASSUME IInv, [Next]_vars PROVE Once!Next \/ UNCHANGED taken
    OBVIOUS
  <2>1. ASSUME NEW e \in Epochs, NEW s \in Seqs, Accept(e, s) PROVE Once!Next
    <3>1. taken[<<e, s>>] = 0
      BY <2>1, FreshUntaken DEF Accept, IInv
    <3>2. Once!Take(<<e, s>>)
      BY <2>1, <3>1 DEF Accept, Once!Take, IInv, TypeOK
    <3>3. QED
      BY <3>2 DEF Once!Next
  <2>2. ASSUME NEW s \in Seqs, Overflow(s) PROVE UNCHANGED taken
    BY <2>2 DEF Overflow
  <2>3. CASE Rekey
    BY <2>3 DEF Rekey
  <2>4. CASE UNCHANGED vars
    BY <2>4 DEF vars
  <2>5. QED
    BY <2>1, <2>2, <2>3, <2>4 DEF Next
<1>3. QED
  BY InitIInv, StepIInv, <1>1, <1>2, PTL DEF Spec, Once!Spec, ImplementsAtMostOnce
==============================================================================
