----------------------------- MODULE FrameCodec -----------------------------
(* The bytes of a frame: encode_frame, decode_frame, read_frame and crc16 of *)
(* _frame.py, usmp_build_packet and usmp_parse_packet of usmp_frame.c, and   *)
(* the checks of feed_packet (udp.py) before a datagram joins the others in  *)
(* the read buffer, from which a session reads them as a stream.  The        *)
(* network damages datagrams.                                                *)
(*                                                                           *)
(* A byte, and a number of several bytes, is the set of its one bits.        *)
EXTENDS Integers, FiniteSetsExt, SequencesExt

CONSTANTS
    MaxPayload,               \* USMP_MAX_PAYLOAD, 480 in the code
    Types,                    \* the values of PacketType
    Frames,                   \* what is sent first: [type, seq, payload]
    Followers,                \* and after it
    Bursts,                   \* patterns of flipped bits, each from bit 0 on
    Rubbish,                  \* bytes that follow a frame in its datagram
    MaxDatagrams              \* bound of the model

VARIABLES
    wire,                     \* the datagram under way, <<>> if there is none
    damage,                   \* what happened to it; "past" if to one before it
    count,                    \* datagrams sent so far
    buffer,                   \* UDPStream._read_buffer
    header,                   \* read_frame: the header it has read
    queue                     \* history: datagrams put in the buffer, and not read

vars == <<wire, damage, count, buffer, header, queue>>

-----------------------------------------------------------------------------
(* Numbers and bytes                                                         *)

Xor(a, b) == (a \ b) \union (b \ a)

Number(bits) == MapThenSumSet(LAMBDA b : 2 ^ b, bits)
BitsOf(n, w) == {b \in 0 .. w - 1 : (n \div 2 ^ b) % 2 = 1}

(* Little-endian, as struct.pack("<...") and usmp_serialize_header.          *)
Pack(bits, n) == [i \in 1 .. n |-> {b \in 0 .. 7 : 8 * (i - 1) + b \in bits}]
Unpack(bytes) == UNION {{8 * (i - 1) + b : b \in bytes[i]} : i \in DOMAIN bytes}

Field(data, offset, n) == Unpack(SubSeq(data, offset + 1, offset + n))

-----------------------------------------------------------------------------
(* The CRC, on registers of sixteen bits                                     *)

Registers == SUBSET (0 .. 15)

PolynomialTypo == {0, 14, 15} \* 0xC001 (mutant)

Polynomial == {0, 13, 15}     \* 0xA001

ShiftOut[r \in Registers] ==
    LET s == {b - 1 : b \in r \ {0}}
    IN  IF 0 \in r THEN Xor(s, Polynomial) ELSE s

AfterByte[r \in Registers] ==
    LET shifted[n \in 0 .. 8] == IF n = 0 THEN r ELSE ShiftOut[shifted[n - 1]]
    IN  shifted[8]

crc16(data) ==
    LET crc[n \in 0 .. Len(data)] ==
          IF n = 0 THEN 0 .. 15 ELSE AfterByte[Xor(crc[n - 1], data[n])]
    IN  crc[Len(data)]

(* The payload is not covered (mutant). *)
header_crc(prefix, payload) == crc16(prefix)

compute_frame_crc(prefix, payload) == crc16(prefix \o payload)

-----------------------------------------------------------------------------
(* Encoding and decoding                                                     *)

Magic == BitsOf(43981, 16)    \* 0xABCD
Version == BitsOf(2, 8)
PrefixSize == 10              \* the header without its CRC
HeaderSize == 12

Prefix(f) ==
    Pack(Magic, 2) \o Pack(Version, 1) \o Pack(f.type, 1) \o Pack(f.seq, 4)
        \o Pack(BitsOf(Len(f.payload), 16), 2)

encode_frame(f) ==
    Prefix(f) \o Pack(compute_frame_crc(Prefix(f), f.payload), 2) \o f.payload

MagicOf(data) == Field(data, 0, 2)
VersionOf(data) == Field(data, 2, 1)
TypeOf(data) == Field(data, 3, 1)
LengthOf(data) == Number(Field(data, 8, 2))
CrcOf(data) == Field(data, 10, 2)
PayloadOf(data) == SubSeq(data, HeaderSize + 1, HeaderSize + LengthOf(data))

usmp_parse_packet(data) ==
    /\ Len(data) >= HeaderSize
    /\ MagicOf(data) = Magic
    /\ VersionOf(data) = Version
    /\ LengthOf(data) <= MaxPayload
    /\ Len(data) >= HeaderSize + LengthOf(data)
    /\ CrcOf(data) = compute_frame_crc(SubSeq(data, 1, PrefixSize), PayloadOf(data))

decode_frame(data) == usmp_parse_packet(data) /\ TypeOf(data) \in Types

-----------------------------------------------------------------------------

Init ==
    /\ wire = <<>> /\ damage = "none" /\ count = 0
    /\ buffer = <<>> /\ header = <<>> /\ queue = <<>>

Send ==
    /\ wire = <<>> /\ count < MaxDatagrams
    /\ count' = count + 1
    /\ \E f \in IF count = 0 THEN Frames ELSE Followers : wire' = encode_frame(f)
    /\ UNCHANGED <<damage, buffer, header, queue>>

(* The network damages one datagram of a behaviour.                          *)
Damage(d, why) ==
    /\ wire # <<>> /\ damage = "none"
    /\ wire' = d /\ damage' = why
    /\ UNCHANGED <<count, buffer, header, queue>>

Flip(data, error) == Pack(Xor(Unpack(data), error), Len(data))

LengthField == 64 .. 79
CrcField == 80 .. 95

Kind(error) ==
    IF error \intersect LengthField # {} THEN "length"
    ELSE IF error \intersect CrcField # {} /\ ~(error \subseteq CrcField) THEN "straddling"
    ELSE "burst"

Corrupt ==
    \E first \in 0 .. 8 * Len(wire) - 1 : \E pattern \in Bursts :
        LET error == {first + b : b \in pattern} \intersect (0 .. 8 * Len(wire) - 1)
        IN  Damage(Flip(wire, error), Kind(error))

Truncate == \E n \in 1 .. Len(wire) - 1 : Damage(SubSeq(wire, 1, n), "cut")

Extend == \E tail \in Rubbish : Damage(wire \o tail, "longer")

(* A frame and a bit more will do, as for decode_frame (mutant). *)
FitsLoosely(data) ==
    /\ Len(data) >= HeaderSize
    /\ MagicOf(data) = Magic
    /\ LengthOf(data) <= MaxPayload
    /\ Len(data) >= HeaderSize + LengthOf(data)

(* One frame per datagram. *)
Fits(data) ==
    /\ Len(data) >= HeaderSize
    /\ MagicOf(data) = Magic
    /\ LengthOf(data) <= MaxPayload
    /\ Len(data) = HeaderSize + LengthOf(data)

(* What is not one frame is dropped.  So is, on grounds that are not in its  *)
(* bytes, a duplicate, or a frame for which there is no room (UdpSession).   *)
feed_packet ==
    /\ wire # <<>>
    /\ wire' = <<>>
    /\ \/ Fits(wire) /\ buffer' = buffer \o wire /\ queue' = Append(queue, wire)
       \/ UNCHANGED <<buffer, queue>>
    /\ damage' = IF damage = "none" THEN "none" ELSE "past"
    /\ UNCHANGED <<count, header>>

(* A bad magic or length is an error, and the header is gone.                *)
ReadHeader ==
    /\ header = <<>> /\ Len(buffer) >= HeaderSize
    /\ LET h == SubSeq(buffer, 1, HeaderSize)
       IN  header' = IF MagicOf(h) = Magic /\ LengthOf(h) <= MaxPayload THEN h ELSE <<>>
    /\ buffer' = SubSeq(buffer, HeaderSize + 1, Len(buffer))
    /\ UNCHANGED <<wire, damage, count, queue>>

ReadPayload ==
    /\ header # <<>> /\ Len(buffer) >= LengthOf(header)
    /\ buffer' = SubSeq(buffer, LengthOf(header) + 1, Len(buffer))
    /\ header' = <<>>
    /\ queue' = Tail(queue)
    /\ UNCHANGED <<wire, damage, count>>

Next ==
    \/ Send \/ Corrupt \/ Truncate \/ Extend
    \/ feed_packet \/ ReadHeader \/ ReadPayload

Spec == Init /\ [][Next]_vars

-----------------------------------------------------------------------------

(* Damage is noticed.  Both languages refuse a datagram that was cut, and    *)
(* one with a burst of errors in the fields before the length, in the CRC    *)
(* or in the payload; Python refuses wrong lengths too, which C leaves to    *)
(* the CRC, and rubbish after the frame, which C lets pass.  (Only a burst   *)
(* over the end of the CRC and the start of the payload may go unnoticed.)   *)
DamageRefused ==
    wire # <<>> =>
      /\ damage \in {"burst", "cut"} => ~usmp_parse_packet(wire)
      /\ damage \in {"burst", "cut", "length", "longer"} => ~(Fits(wire) /\ decode_frame(wire))

(* The reader of the buffer never loses the boundaries of the frames, as     *)
(* read_frame looks at length and CRC of each when its bytes are gone: what  *)
(* is left, with the header in hand, are the datagrams not read, and a       *)
(* header is never read without its payload being there                      *)
(* (udp.py:129-138, _frame.py:109-126).                                      *)
StaysAligned ==
    /\ header \o buffer = FlattenSeq(queue)
    /\ header # <<>> => Len(buffer) >= LengthOf(header)

(* The remainder of a division of polynomials over GF(2), which are the sets *)
(* of their exponents; the first bit on the line has the highest exponent.   *)
Divisor == {16, 15, 2, 0}     \* CRC-16/IBM

Remainder(dividend, degree) ==
    LET left[k \in 15 .. degree] ==        \* of degree k at most
          IF k = degree THEN dividend
          ELSE LET above == left[k + 1]
               IN  IF k + 1 \in above THEN Xor(above, {k - 15 + e : e \in Divisor}) ELSE above
    IN  left[15]

(* crc16, which goes through the bytes bit by bit, is the CRC-16/IBM of the  *)
(* header fields and the payload, with the first sixteen bits inverted       *)
(* (_frame.py:17, usmp_frame.c:7), and what the sender writes.               *)
CrcIsRemainder ==
    wire # <<>> /\ damage = "none" =>
      LET data == SubSeq(wire, 1, PrefixSize) \o SubSeq(wire, HeaderSize + 1, Len(wire))
          top == 8 * Len(data) + 15
          message == {top - b : b \in Xor(Unpack(data), 0 .. 15)}
      IN  CrcOf(wire) = {15 - e : e \in Remainder(message, top)}
=============================================================================
