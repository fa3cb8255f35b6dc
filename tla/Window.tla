------------------------------- MODULE Window -------------------------------
(* The sliding replay window of a USMP datagram session, as pure operators.  *)
(* rx is the highest sequence accepted so far (rx_seq) and bm the bitmap     *)
(* (rx_window_bitmap) as the set of its one bits: bit o stands for sequence  *)
(* rx - o.  usmp_recv (C) and USMPSession.recv (Python) compute the same     *)
(* window; both are 64 bits wide, here W.                                    *)
EXTENDS Integers

CONSTANT W                    \* width of the bitmap, 64 in the code

ASSUME WAssumption == W \in Nat \ {0}

Bits == 0 .. W - 1

(* The two drop conditions, checked before the frame is decrypted.  The C    *)
(* code guards the unsigned subtraction with rx >= W; Python needs no guard. *)
TooOld(rx, s) == rx >= W /\ s <= rx - W

Duplicate(rx, bm, s) == s <= rx /\ rx - s \in bm

(* Only the age of a frame is looked at (mutant). *)
FreshIfYoung(rx, bm, s) == ~TooOld(rx, s)

Fresh(rx, bm, s) == ~TooOld(rx, s) /\ ~Duplicate(rx, bm, s)

(* bm << n, truncated to W bits. *)
ShiftLeft(bm, n) == {o \in Bits : o - n \in bm}

(* A shift that forgets to bring the old bits along (mutant). *)
SlideForgets(rx, bm, s) == IF s > rx THEN {0} ELSE bm \union {rx - s}

(* A window that is moved but not marked for a late frame (mutant). *)
SlideUnmarked(rx, bm, s) == IF s > rx THEN ShiftLeft(bm, s - rx) \union {0} ELSE bm

(* The bitmap after sequence s has been accepted. *)
Slide(rx, bm, s) ==
    IF s > rx
    THEN IF s - rx < W THEN ShiftLeft(bm, s - rx) \union {0} ELSE {0}
    ELSE bm \union {rx - s}

Advance(rx, s) == IF s > rx THEN s ELSE rx
==============================================================================
