---------------------------- MODULE MCFrameCodec ----------------------------
(* Frames for FrameCodec, and what happens to them.                          *)
EXTENDS FrameCodec

frame(type, seq, payload) ==
    [type |-> BitsOf(type, 8), seq |-> seq, payload |-> payload]

PacketTypes == {BitsOf(t, 8) : t \in 1 .. 11 \union {255}}

(* Payloads from none to the longest, of zeros, ones and others. *)
SomeFrames == {frame(5, {0, 9, 31}, <<{0, 4}, {1}>>),
               frame(6, {}, <<>>),
               frame(5, {1}, <<{}, {}, {}>>),
               frame(9, 0 .. 30, <<0 .. 7, 0 .. 7>>),
               frame(11, {0, 1}, <<{0, 2, 4, 6}, {1, 3, 5, 7}, {0, 7}>>)}

OneMore == {frame(5, {2}, <<{3}>>)}

(* All patterns of up to four bits, and of the longer ones up to the width   *)
(* of the CRC the full ones and those of two flips.                          *)
UpToSixteen ==
    {{0} \union s : s \in SUBSET (1 .. 3)}
        \union {0 .. k : k \in {4, 7, 8, 11, 14, 15}} \union {{0, k} : k \in 4 .. 15}

OneByte == {<<{0}>>}
=============================================================================
