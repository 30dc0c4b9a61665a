------------------------------- MODULE Base64 -------------------------------
(***************************************************************************)
(* b64_encode_block() and b64_decode_block(). A character of the alphabet  *)
(* is its number 0..63; Pad is '=', every other number is a character that *)
(* is not of the alphabet.                                                 *)
(***************************************************************************)
EXTENDS Integers, Sequences

Bytes  == 0..255
Digits == 0..63
Pad    == 64

\* Group g of three bytes, as the 24 bits of v; what is missing counts as 0.
ByteAt(in, k) == IF k <= Len(in) THEN in[k] ELSE 0
Bits(in, g) ==
    ByteAt(in, 3*g + 1) * 65536 + ByteAt(in, 3*g + 2) * 256 + ByteAt(in, 3*g + 3)

\* Four characters of a group of n bytes with bits v.
Quad(v, n) ==
    <<(v \div 262144) % 64,
      (v \div 4096) % 64,
      IF n > 1 THEN (v \div 64) % 64 ELSE Pad,
      IF n > 2 THEN v % 64 ELSE Pad>>

\* Fault: the last group is padded by one character too few.
EncodeBlockShort(in) ==
    [k \in 1..(4 * ((Len(in) + 2) \div 3)) |->
        LET g == (k - 1) \div 4
        IN Quad(Bits(in, g), Len(in) - 3*g + 1)[((k - 1) % 4) + 1]]

EncodeBlock(in) ==
    [k \in 1..(4 * ((Len(in) + 2) \div 3)) |->
        LET g == (k - 1) \div 4
        IN Quad(Bits(in, g), Len(in) - 3*g)[((k - 1) % 4) + 1]]

\* b64_rev().
Rev(c) == IF c \in Digits THEN c ELSE IF c = Pad THEN -2 ELSE -1

\* In the first two places only the alphabet is accepted. In the last two
\* anything is: padding drops a byte, any other character counts as 0.
Accepted(q) == Rev(q[1]) >= 0 /\ Rev(q[2]) >= 0 /\ Rev(q[3]) >= -2 /\ Rev(q[4]) >= -2

OrZero(r) == IF r < 0 THEN 0 ELSE r

\* The bytes of four accepted characters.
Triple(q) ==
    LET v == Rev(q[1]) * 262144 + Rev(q[2]) * 4096
             + OrZero(Rev(q[3])) * 64 + OrZero(Rev(q[4]))
    IN <<(v \div 65536) % 256>>
       \o (IF Rev(q[3]) # -2 THEN <<(v \div 256) % 256>> ELSE <<>>)
       \o (IF Rev(q[4]) # -2 THEN <<v % 256>> ELSE <<>>)

QuadAt(s, g) == SubSeq(s, 4*g - 3, 4*g)

Decodable(s) == Len(s) % 4 = 0 /\ \A g \in 1..(Len(s) \div 4) : Accepted(QuadAt(s, g))

\* What b64_decode_block() puts into out[], of decodable characters.
DecodeBlock(s) ==
    LET out[g \in 0..(Len(s) \div 4)] ==
            IF g = 0 THEN <<>> ELSE out[g - 1] \o Triple(QuadAt(s, g))
    IN out[Len(s) \div 4]
=============================================================================
