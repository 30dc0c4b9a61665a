--------------------------- MODULE TransferProofs ---------------------------
(***************************************************************************)
(* Theorems about Transfer, for files of any length and any contents, any  *)
(* sizes of the buffers and any way the blocks are cut.                    *)
(***************************************************************************)
EXTENDS Transfer, SequenceTheorems, WellFoundedInduction, TLAPS

-----------------------------------------------------------------------------
(* Numbers and sequences. *)

LEMMA LeastNatural ==
    ASSUME NEW T \in SUBSET Nat, T # {}
    PROVE  \E x \in T : \A y \in T : x <= y
<1> DEFINE R == OpToRel(<, Nat)
<1>1. IsWellFoundedOn(R, Nat)
  BY NatLessThanWellFounded
<1>2. \A x, y \in Nat : x < y => <<x, y>> \in R
  BY DEF OpToRel
<1> HIDE DEF R
<1>3. PICK x \in T : \A y \in T : ~ (<<y, x>> \in R)
  BY <1>1, WFMin
<1>4. \A y \in T : ~(y < x)
  BY <1>2, <1>3
<1> QED
  BY <1>4

\* A part of a sequence, by its elements.
LEMMA PartIs ==
    ASSUME NEW S, NEW s \in Seq(S), NEW a \in Nat, NEW b \in Nat, a <= b, b <= Len(s)
    PROVE  /\ SubSeq(s, a + 1, b) \in Seq(S) /\ Len(SubSeq(s, a + 1, b)) = b - a
           /\ \A k \in 1..(b - a) : SubSeq(s, a + 1, b)[k] = s[a + k]
<1>0. Len(s) \in Nat /\ a + 1 \in Int /\ b \in Int
  OBVIOUS
<1>1. \A k \in (a + 1)..b : s[k] \in S
  <2>1. \A k \in (a + 1)..b : k \in 1..Len(s)
    BY <1>0
  <2> QED BY <2>1, ElementOfSeq
<1>2. /\ SubSeq(s, a + 1, b) \in Seq(S)
      /\ Len(SubSeq(s, a + 1, b)) = IF a + 1 <= b THEN b - (a + 1) + 1 ELSE 0
      /\ \A k \in 1..(b - (a + 1) + 1) : SubSeq(s, a + 1, b)[k] = s[a + 1 + k - 1]
  BY <1>0, <1>1, SubSeqProperties
<1>3. b - (a + 1) + 1 = b - a /\ (~(a + 1 <= b) => b - a = 0)
  OBVIOUS
<1>4. \A k \in 1..(b - a) : a + 1 + k - 1 = a + k
  OBVIOUS
<1> QED
  BY <1>2, <1>3, <1>4

-----------------------------------------------------------------------------
(* A group of bytes. *)

LEMMA BytesOfBits ==
    ASSUME NEW a \in Bytes, NEW b \in Bytes, NEW c \in Bytes,
           NEW v, v = a * 65536 + b * 256 + c
    PROVE  /\ v \in Nat
           /\ (v \div 65536) % 256 = a /\ (v \div 256) % 256 = b /\ v % 256 = c
           /\ (v \div 262144) % 64 \in Digits /\ (v \div 4096) % 64 \in Digits
           /\ (v \div 64) % 64 \in Digits /\ v % 64 \in Digits
<1>1. v \in Nat
  BY DEF Bytes
<1>2. (v \div 65536) % 256 = a /\ (v \div 256) % 256 = b /\ v % 256 = c
  <2>1. v % 256 = c /\ v \div 256 = a * 256 + b
    BY DEF Bytes
  <2>2. (a * 256 + b) % 256 = b
    BY DEF Bytes
  <2>3. v \div 65536 = a /\ a % 256 = a
    BY DEF Bytes
  <2> QED BY <2>1, <2>2, <2>3
<1>3. /\ (v \div 262144) % 64 \in Digits /\ (v \div 4096) % 64 \in Digits
      /\ (v \div 64) % 64 \in Digits /\ v % 64 \in Digits
  BY <1>1 DEF Digits
<1> QED BY <1>1, <1>2, <1>3

\* The four digits of a number of 24 bits make it up again.
LEMMA FourDigits ==
    ASSUME NEW v \in Nat, v < 16777216
    PROVE  ((v \div 262144) % 64) * 262144 + ((v \div 4096) % 64) * 4096
           + ((v \div 64) % 64) * 64 + (v % 64) = v
  BY SMTT(30)

LEMMA BitsOfDigits ==
    ASSUME NEW a \in Bytes, NEW b \in Bytes, NEW c \in Bytes,
           NEW v, v = a * 65536 + b * 256 + c
    PROVE  ((v \div 262144) % 64) * 262144 + ((v \div 4096) % 64) * 4096
           + ((v \div 64) % 64) * 64 + (v % 64) = v
<1>1. v \in Nat /\ v < 16777216
  BY SMT DEF Bytes
<1> QED BY <1>1, FourDigits, SMT

\* What is not sent of a short group is 0.
LEMMA MissingDigits ==
    ASSUME NEW a \in Bytes, NEW b \in Bytes, NEW v, v = a * 65536 + b * 256 + 0
    PROVE  /\ v % 64 = 0
           /\ b = 0 => (v \div 64) % 64 = 0
<1>1. v = 64 * (a * 1024 + b * 4) /\ a * 1024 + b * 4 \in Nat
  BY DEF Bytes
<1>2. v % 64 = 0
  BY <1>1
<1>3. b = 0 => v = 64 * (64 * (a * 16)) /\ a * 16 \in Nat
  BY DEF Bytes
<1>4. b = 0 => v \div 64 = 64 * (a * 16)
  BY <1>3
<1> QED BY <1>2, <1>3, <1>4

LEMMA QuadIs ==
    ASSUME NEW a \in Bytes, NEW b \in Bytes, NEW c \in Bytes, NEW n \in Nat \ {0},
           NEW v, v = a * 65536 + b * 256 + c
    PROVE  /\ Quad(v, n)[1] \in Digits /\ Quad(v, n)[2] \in Digits
           /\ Quad(v, n)[3] \in Digits \cup {Pad} /\ Quad(v, n)[4] \in Digits \cup {Pad}
           /\ Accepted(Quad(v, n))
<1>1. /\ (v \div 262144) % 64 \in Digits /\ (v \div 4096) % 64 \in Digits
      /\ (v \div 64) % 64 \in Digits /\ v % 64 \in Digits
  BY BytesOfBits
<1>2. /\ Quad(v, n)[1] = (v \div 262144) % 64 /\ Quad(v, n)[2] = (v \div 4096) % 64
      /\ Quad(v, n)[3] = (IF n > 1 THEN (v \div 64) % 64 ELSE Pad)
      /\ Quad(v, n)[4] = (IF n > 2 THEN v % 64 ELSE Pad)
  BY DEF Quad
<1>3. /\ Quad(v, n)[1] \in Digits /\ Quad(v, n)[2] \in Digits
      /\ Quad(v, n)[3] \in Digits \cup {Pad} /\ Quad(v, n)[4] \in Digits \cup {Pad}
  BY <1>1, <1>2
<1>4. \A x \in Digits : Rev(x) >= 0
  BY DEF Rev, Digits
<1>5. \A x \in Digits \cup {Pad} : Rev(x) >= -2
  BY DEF Rev, Digits, Pad
<1> QED BY <1>3, <1>4, <1>5 DEF Accepted

LEMMA JoinedIs ==
    ASSUME NEW S, NEW a \in S, NEW b \in S, NEW c \in S,
           NEW p \in BOOLEAN, NEW r \in BOOLEAN, r => p,
           NEW t, t = <<a>> \o (IF p THEN <<b>> ELSE <<>>) \o (IF r THEN <<c>> ELSE <<>>)
    PROVE  /\ t \in Seq(S)
           /\ Len(t) = (IF r THEN 3 ELSE IF p THEN 2 ELSE 1)
           /\ t[1] = a /\ (p => t[2] = b) /\ (r => t[3] = c)
<1> DEFINE x == <<a>>
           y == IF p THEN <<b>> ELSE <<>>
           z == IF r THEN <<c>> ELSE <<>>
           u == x \o y
<1>1. x \in Seq(S) /\ Len(x) = 1 /\ x[1] = a
  OBVIOUS
<1>2. y \in Seq(S) /\ Len(y) = (IF p THEN 1 ELSE 0) /\ (p => y[1] = b)
  OBVIOUS
<1>3. z \in Seq(S) /\ Len(z) = (IF r THEN 1 ELSE 0) /\ (r => z[1] = c)
  OBVIOUS
<1>4. t = u \o z
  OBVIOUS
<1> HIDE DEF x, y, z
<1>5. /\ u \in Seq(S) /\ Len(u) = 1 + Len(y)
      /\ \A k \in 1..(1 + Len(y)) : u[k] = IF k <= 1 THEN x[k] ELSE y[k - 1]
  BY <1>1, <1>2, ConcatProperties
<1> HIDE DEF u
<1> DEFINE w == u \o z
<1>9. /\ w \in Seq(S) /\ Len(w) = Len(u) + Len(z)
      /\ \A k \in 1..(Len(u) + Len(z)) : w[k] = IF k <= Len(u) THEN u[k] ELSE z[k - Len(u)]
  BY <1>5, <1>3, ConcatProperties
<1> HIDE DEF w
<1>6. /\ t \in Seq(S) /\ Len(t) = Len(u) + Len(z)
      /\ \A k \in 1..(Len(u) + Len(z)) : t[k] = IF k <= Len(u) THEN u[k] ELSE z[k - Len(u)]
  BY <1>4, <1>9 DEF w
<1>7. u[1] = a /\ (p => u[2] = b)
  BY <1>1, <1>2, <1>5
<1>8. Len(u) = (IF p THEN 2 ELSE 1)
  BY <1>2, <1>5
<1> QED BY <1>3, <1>6, <1>7, <1>8

\* n bytes are left of the block; v is made of three, of which those missing
\* are 0.
IsGroup(v, a, b, c, n) ==
    /\ a \in Bytes /\ b \in Bytes /\ c \in Bytes /\ n \in Nat \ {0}
    /\ n < 3 => c = 0
    /\ n < 2 => b = 0
    /\ v = a * 65536 + b * 256 + c

\* t has what there is of the three.
Holds(t, a, b, c, n) ==
    /\ t \in Seq(Bytes) /\ Len(t) = (IF n < 3 THEN n ELSE 3)
    /\ t[1] = a
    /\ n > 1 => t[2] = b
    /\ n > 2 => t[3] = c

\* What is decoded of the four characters of a group is the group.
LEMMA QuadDecodes ==
    ASSUME NEW v, NEW a, NEW b, NEW c, NEW n, IsGroup(v, a, b, c, n)
    PROVE  Accepted(Quad(v, n)) /\ Holds(Triple(Quad(v, n)), a, b, c, n)
<1> DEFINE q == Quad(v, n)
<1>0. /\ a \in Bytes /\ b \in Bytes /\ c \in Bytes /\ n \in Nat \ {0}
      /\ n < 3 => c = 0
      /\ n < 2 => b = 0
      /\ v = a * 65536 + b * 256 + c
  BY DEF IsGroup
<1> DEFINE d1 == (v \div 262144) % 64
           d2 == (v \div 4096) % 64
           d3 == (v \div 64) % 64
           d4 == v % 64
           w  == Rev(q[1]) * 262144 + Rev(q[2]) * 4096
                 + OrZero(Rev(q[3])) * 64 + OrZero(Rev(q[4]))
<1>1. /\ d1 \in Digits /\ d2 \in Digits /\ d3 \in Digits /\ d4 \in Digits
      /\ v \in Nat /\ (v \div 65536) % 256 = a /\ (v \div 256) % 256 = b /\ v % 256 = c
  BY <1>0, BytesOfBits
<1>2. d1 * 262144 + d2 * 4096 + d3 * 64 + d4 = v
  BY <1>0, BitsOfDigits
<1>3. /\ n < 3 => d4 = 0
      /\ n < 2 => d3 = 0
  <2>1. n < 2 => n < 3
    BY <1>0
  <2> QED BY <1>0, <2>1, MissingDigits
<1>4. /\ q[1] = d1 /\ q[2] = d2
      /\ q[3] = (IF n > 1 THEN d3 ELSE Pad) /\ q[4] = (IF n > 2 THEN d4 ELSE Pad)
  BY DEF Quad
<1>5. \A x \in Digits : Rev(x) = x /\ OrZero(x) = x /\ Rev(x) # -2 /\ x \in Int
  BY DEF Rev, OrZero, Digits
<1>6. Rev(Pad) = -2 /\ OrZero(-2) = 0
  BY DEF Rev, Pad, Digits, OrZero
<1> HIDE DEF d1, d2, d3, d4, q
<1>7. /\ Rev(q[1]) = d1 /\ Rev(q[2]) = d2
      /\ OrZero(Rev(q[3])) = d3 /\ OrZero(Rev(q[4])) = d4
      /\ Rev(q[3]) # -2 <=> n > 1
      /\ Rev(q[4]) # -2 <=> n > 2
  BY <1>0, <1>1, <1>3, <1>4, <1>5, <1>6
<1>8. w = v
  BY <1>2, <1>7
<1> HIDE DEF w
<1>9. /\ (w \div 65536) % 256 = a /\ (w \div 256) % 256 = b /\ w % 256 = c
  BY <1>1, <1>8
<1> DEFINE p == Rev(q[3]) # -2
           r == Rev(q[4]) # -2
           t == Triple(q)
           x == (w \div 65536) % 256
           y == (w \div 256) % 256
           z == w % 256
<1>10. t = <<x>> \o (IF p THEN <<y>> ELSE <<>>) \o (IF r THEN <<z>> ELSE <<>>)
  BY DEF Triple, w
<1>11. x = a /\ y = b /\ z = c
  BY <1>9
<1>12. /\ p \in BOOLEAN /\ r \in BOOLEAN /\ (r => p)
       /\ (p <=> n > 1) /\ (r <=> n > 2)
  BY <1>0, <1>7
<1> HIDE DEF p, r, t, x, y, z
<1>13. /\ t \in Seq(Bytes)
       /\ Len(t) = (IF r THEN 3 ELSE IF p THEN 2 ELSE 1)
       /\ t[1] = x /\ (p => t[2] = y) /\ (r => t[3] = z)
  <2>1. x \in Bytes /\ y \in Bytes /\ z \in Bytes
    BY <1>0, <1>11
  <2> QED BY <1>10, <1>12, <2>1, JoinedIs
<1>14. (IF r THEN 3 ELSE IF p THEN 2 ELSE 1) = (IF n < 3 THEN n ELSE 3)
  BY <1>0, <1>12
<1>15. Holds(t, a, b, c, n)
  BY <1>11, <1>12, <1>13, <1>14 DEF Holds
<1>16. Accepted(Quad(v, n))
  BY <1>0, QuadIs
<1> QED
  BY <1>15, <1>16 DEF t, q

-----------------------------------------------------------------------------
(* A block of bytes. *)

Groups(in) == (Len(in) + 2) \div 3

LEMMA GroupsIs ==
    ASSUME NEW L \in Nat, NEW G, G = (L + 2) \div 3
    PROVE  /\ G \in Nat /\ L <= 3 * G /\ 3 * G <= L + 2
           /\ L # 0 => G # 0
  OBVIOUS

LEMMA ByteIs ==
    ASSUME NEW in \in Seq(Bytes), NEW k \in Nat \ {0}
    PROVE  ByteAt(in, k) \in Bytes
<1>1. 0 \in Bytes
  BY DEF Bytes
<1>2. k <= Len(in) => in[k] \in Bytes
  <2>1. k <= Len(in) => k \in 1..Len(in)
    OBVIOUS
  <2> QED BY <2>1, ElementOfSeq
<1> QED BY <1>1, <1>2 DEF ByteAt

LEMMA FourIs ==
    ASSUME NEW S, NEW w \in S, NEW x \in S, NEW y \in S, NEW z \in S
    PROVE  <<w, x, y, z>> \in Seq(S) /\ Len(<<w, x, y, z>>) = 4
  OBVIOUS

LEMMA QuadOfGroup ==
    ASSUME NEW in \in Seq(Bytes), NEW g \in Nat, g < Groups(in)
    PROVE  LET q == Quad(Bits(in, g), Len(in) - 3 * g) IN
           /\ q \in Seq(Digits \cup {Pad}) /\ Len(q) = 4 /\ Accepted(q)
           /\ Len(in) - 3 * g \in Nat \ {0}
           /\ Triple(q) \in Seq(Bytes)
           /\ Len(Triple(q)) = (IF Len(in) - 3 * g < 3 THEN Len(in) - 3 * g ELSE 3)
           /\ \A k \in 1..Len(Triple(q)) : Triple(q)[k] = in[3 * g + k]
<1> DEFINE a == ByteAt(in, 3 * g + 1)
           b == ByteAt(in, 3 * g + 2)
           c == ByteAt(in, 3 * g + 3)
           n == Len(in) - 3 * g
           v == Bits(in, g)
           q == Quad(v, n)
<1>0. Len(in) \in Nat
  OBVIOUS
<1>1. n \in Nat \ {0}
  <2>1. Groups(in) \in Nat /\ 3 * Groups(in) <= Len(in) + 2
    BY <1>0, GroupsIs DEF Groups
  <2> QED BY <1>0, <2>1
<1>2. a \in Bytes /\ b \in Bytes /\ c \in Bytes
  <2>1. 3 * g + 1 \in Nat \ {0} /\ 3 * g + 2 \in Nat \ {0} /\ 3 * g + 3 \in Nat \ {0}
    OBVIOUS
  <2> QED BY <2>1, ByteIs
<1>3. v = a * 65536 + b * 256 + c
  BY DEF Bits
<1>4. (n < 3 => c = 0) /\ (n < 2 => b = 0)
  BY <1>0, <1>1 DEF ByteAt
<1>5. a = in[3 * g + 1] /\ (n > 1 => b = in[3 * g + 2]) /\ (n > 2 => c = in[3 * g + 3])
  BY <1>0, <1>1 DEF ByteAt
<1> HIDE DEF a, b, c, n, v
<1>6. q = <<q[1], q[2], q[3], q[4]>>
  BY DEF Quad
<1>7. /\ q[1] \in Digits \cup {Pad} /\ q[2] \in Digits \cup {Pad}
      /\ q[3] \in Digits \cup {Pad} /\ q[4] \in Digits \cup {Pad} /\ Accepted(q)
  BY <1>1, <1>2, <1>3, QuadIs
<1> DEFINE x == q[1]
           y == q[2]
           z == q[3]
           w == q[4]
<1> HIDE DEF q, w, x, y, z
<1>8. q \in Seq(Digits \cup {Pad}) /\ Len(q) = 4
  <2>1. q = <<x, y, z, w>> /\ x \in Digits \cup {Pad} /\ y \in Digits \cup {Pad}
        /\ z \in Digits \cup {Pad} /\ w \in Digits \cup {Pad}
    BY <1>6, <1>7 DEF w, x, y, z
  <2> QED BY <2>1, FourIs
<1>9. /\ Triple(q) \in Seq(Bytes)
      /\ Len(Triple(q)) = (IF n < 3 THEN n ELSE 3)
      /\ Triple(q)[1] = a /\ (n > 1 => Triple(q)[2] = b) /\ (n > 2 => Triple(q)[3] = c)
  <2>1. IsGroup(v, a, b, c, n)
    BY <1>1, <1>2, <1>3, <1>4 DEF IsGroup
  <2>2. Holds(Triple(q), a, b, c, n)
    BY <2>1, QuadDecodes DEF q
  <2> QED BY <2>2 DEF Holds
<1>10. ASSUME NEW k \in 1..Len(Triple(q)) PROVE Triple(q)[k] = in[3 * g + k]
  <2>1. k \in 1..3 /\ (k = 1 \/ (k = 2 /\ n > 1) \/ (k = 3 /\ n > 2))
    BY <1>1, <1>9
  <2> QED BY <1>5, <1>9, <2>1
<1> QED
  BY <1>1, <1>7, <1>8, <1>9, <1>10 DEF n, v, q

LEMMA EncodedIs ==
    ASSUME NEW in \in Seq(Bytes), NEW s, s = EncodeBlock(in)
    PROVE  /\ s \in Seq(Digits \cup {Pad}) /\ Len(s) = 4 * Groups(in)
           /\ \A g \in 1..Groups(in) :
                 QuadAt(s, g) = Quad(Bits(in, g - 1), Len(in) - 3 * (g - 1))
<1> DEFINE S == Digits \cup {Pad}
           G == Groups(in)
           Q(g) == Quad(Bits(in, g), Len(in) - 3 * g)
<1>0. Len(in) \in Nat /\ G \in Nat
  BY GroupsIs DEF Groups
<1>1. s = [k \in 1..(4 * G) |-> Q((k - 1) \div 4)[((k - 1) % 4) + 1]]
  BY DEF EncodeBlock, Groups
<1>2. \A g \in Nat : g < G => Q(g) \in Seq(S) /\ Len(Q(g)) = 4
  BY QuadOfGroup
<1> HIDE DEF G, Q, S
<1>3. ASSUME NEW k \in 1..(4 * G)
      PROVE  /\ (k - 1) \div 4 \in Nat /\ (k - 1) \div 4 < G
             /\ ((k - 1) % 4) + 1 \in 1..4
  BY <1>0
<1>4. \A k \in 1..(4 * G) : Q((k - 1) \div 4)[((k - 1) % 4) + 1] \in S
  <2> SUFFICES ASSUME NEW k \in 1..(4 * G) PROVE Q((k - 1) \div 4)[((k - 1) % 4) + 1] \in S
    OBVIOUS
  <2> DEFINE g == (k - 1) \div 4
             j == ((k - 1) % 4) + 1
  <2>1. g \in Nat /\ g < G /\ j \in 1..4
    BY <1>3
  <2> HIDE DEF g, j
  <2>2. Q(g) \in Seq(S) /\ Len(Q(g)) = 4
    BY <1>2, <2>1
  <2>3. Q(g)[j] \in S
    BY <2>1, <2>2, ElementOfSeq
  <2> QED BY <2>3 DEF g, j
<1>5. s \in Seq(S) /\ Len(s) = 4 * G
  <2>1. 4 * G \in Nat
    BY <1>0
  <2>2. s \in [1..(4 * G) -> S]
    BY <1>1, <1>4
  <2>3. s \in Seq(S)
    BY <2>1, <2>2, SeqDef
  <2> QED BY <2>1, <2>2, <2>3
<1>6. ASSUME NEW g \in 1..G PROVE QuadAt(s, g) = Q(g - 1)
  <2>1. /\ 4 * g - 4 \in Nat /\ 4 * g \in Nat /\ 4 * g - 4 <= 4 * g /\ 4 * g <= Len(s)
        /\ (4 * g - 4) + 1 = 4 * g - 3 /\ 4 * g - (4 * g - 4) = 4
        /\ g - 1 \in Nat /\ g - 1 < G
    BY <1>0, <1>5
  <2> DEFINE t == QuadAt(s, g)
  <2>2. t \in Seq(S) /\ Len(t) = 4 /\ \A k \in 1..4 : t[k] = s[(4 * g - 4) + k]
    BY <1>5, <2>1, PartIs DEF QuadAt
  <2>3. Q(g - 1) \in Seq(S) /\ Len(Q(g - 1)) = 4
    BY <1>2, <2>1
  <2>4. \A k \in 1..4 : t[k] = Q(g - 1)[k]
    <3> SUFFICES ASSUME NEW k \in 1..4 PROVE t[k] = Q(g - 1)[k]
      OBVIOUS
    <3> DEFINE m == (4 * g - 4) + k
    <3>1. m \in 1..(4 * G) /\ (m - 1) \div 4 = g - 1 /\ ((m - 1) % 4) + 1 = k
      <4>1. m \in 1..(4 * G) /\ m - 1 = 4 * (g - 1) + (k - 1) /\ k - 1 \in 0..3
        BY <1>0, <2>1
      <4> QED BY <2>1, <4>1
    <3>2. s[m] = Q((m - 1) \div 4)[((m - 1) % 4) + 1]
      BY <1>1, <3>1
    <3> QED BY <2>2, <3>1, <3>2
  <2> HIDE DEF t
  <2>5. t = Q(g - 1)
    BY <2>2, <2>3, <2>4, SeqEqual
  <2> QED BY <2>5 DEF t
<1> QED
  BY <1>5, <1>6 DEF S, G, Q

\* The bytes of the first g groups.
FirstGroups(in, g) == SubSeq(in, 1, IF 3 * g < Len(in) THEN 3 * g ELSE Len(in))

LEMMA OneMoreGroup ==
    ASSUME NEW in \in Seq(Bytes), NEW g \in 1..Groups(in)
    PROVE  FirstGroups(in, g)
           = FirstGroups(in, g - 1) \o Triple(QuadAt(EncodeBlock(in), g))
<1> DEFINE h == g - 1
           q == Quad(Bits(in, h), Len(in) - 3 * h)
           t == Triple(q)
           a == 3 * h
           L == Len(in)
           b == IF 3 * g < L THEN 3 * g ELSE L
           x == SubSeq(in, 1, a)
           y == SubSeq(in, 1, b)
<1>0. L \in Nat /\ Groups(in) \in Nat
  BY GroupsIs DEF Groups
<1>1. h \in Nat /\ h < Groups(in) /\ g = h + 1
  BY <1>0
<1>2. QuadAt(EncodeBlock(in), g) = q
  BY EncodedIs
<1>3. /\ L - a \in Nat \ {0}
      /\ t \in Seq(Bytes) /\ Len(t) = (IF L - a < 3 THEN L - a ELSE 3)
      /\ \A k \in 1..Len(t) : t[k] = in[a + k]
  BY <1>1, QuadOfGroup
<1>4. a \in Nat /\ b \in Nat /\ a < L /\ b <= L /\ b = a + Len(t)
  <2>1. a \in Nat /\ 3 * g = a + 3
    BY <1>1
  <2> HIDE DEF a, h, L, t
  <2>2. a < L
    BY <1>0, <1>3, <2>1
  <2>3. CASE L - a < 3
    <3>1. Len(t) = L - a /\ b = L
      BY <1>0, <1>3, <2>1, <2>3
    <3> QED BY <1>0, <2>1, <2>2, <3>1
  <2>4. CASE ~(L - a < 3)
    <3>1. Len(t) = 3 /\ b = a + 3
      BY <1>0, <1>3, <2>1, <2>4
    <3> QED BY <1>0, <2>1, <2>2, <2>4, <3>1
  <2> QED BY <2>3, <2>4
<1>5. FirstGroups(in, h) = x /\ FirstGroups(in, g) = y
  BY <1>4 DEF FirstGroups
<1> HIDE DEF h, q, t, a, L, b, x, y
<1>6. x \in Seq(Bytes) /\ Len(x) = a /\ \A k \in 1..a : x[k] = in[k]
  <2>1. /\ SubSeq(in, 0 + 1, a) \in Seq(Bytes) /\ Len(SubSeq(in, 0 + 1, a)) = a - 0
        /\ \A k \in 1..(a - 0) : SubSeq(in, 0 + 1, a)[k] = in[0 + k]
    <3>1. 0 \in Nat /\ 0 <= a /\ a <= Len(in)
      BY <1>0, <1>4 DEF L
    <3> QED BY <1>4, <3>1, PartIs
  <2>2. 0 + 1 = 1 /\ a - 0 = a /\ \A k \in 1..a : 0 + k = k
    BY <1>4
  <2> QED BY <2>1, <2>2 DEF x
<1>7. y \in Seq(Bytes) /\ Len(y) = b /\ \A k \in 1..b : y[k] = in[k]
  <2>1. /\ SubSeq(in, 0 + 1, b) \in Seq(Bytes) /\ Len(SubSeq(in, 0 + 1, b)) = b - 0
        /\ \A k \in 1..(b - 0) : SubSeq(in, 0 + 1, b)[k] = in[0 + k]
    <3>1. 0 \in Nat /\ 0 <= b /\ b <= Len(in)
      BY <1>0, <1>4 DEF L
    <3> QED BY <1>4, <3>1, PartIs
  <2>2. 0 + 1 = 1 /\ b - 0 = b /\ \A k \in 1..b : 0 + k = k
    BY <1>4
  <2> QED BY <2>1, <2>2 DEF y
<1>8. /\ x \o t \in Seq(Bytes) /\ Len(x \o t) = a + Len(t)
      /\ \A k \in 1..(a + Len(t)) : (x \o t)[k] = IF k <= a THEN x[k] ELSE t[k - a]
  <2>1. /\ x \o t \in Seq(Bytes) /\ Len(x \o t) = Len(x) + Len(t)
        /\ \A k \in 1..(Len(x) + Len(t)) :
              (x \o t)[k] = IF k <= Len(x) THEN x[k] ELSE t[k - Len(x)]
    <3>1. x \in Seq(Bytes) /\ t \in Seq(Bytes)
      BY <1>3, <1>6
    <3> QED BY ONLY <3>1, ConcatProperties
  <2>2. Len(x) = a
    BY <1>6
  <2> QED BY ONLY <2>1, <2>2
<1> DEFINE z == x \o t
<1>9. \A k \in 1..b : z[k] = y[k]
  <2> SUFFICES ASSUME NEW k \in 1..b PROVE z[k] = y[k]
    OBVIOUS
  <2>1. CASE k <= a
    <3>1. k \in 1..a /\ k \in 1..(a + Len(t))
      BY <1>3, <1>4, <2>1
    <3> QED BY <1>6, <1>7, <1>8, <2>1, <3>1
  <2>2. CASE ~(k <= a)
    <3>1. k \in 1..(a + Len(t)) /\ k - a \in 1..Len(t) /\ a + (k - a) = k
      BY <1>3, <1>4, <2>2
    <3>2. t[k - a] = in[a + (k - a)]
      BY <1>3, <3>1
    <3> QED BY <1>7, <1>8, <2>2, <3>1, <3>2
  <2> QED BY <2>1, <2>2
<1> HIDE DEF z
<1>10. z = y
  <2>1. z \in Seq(Bytes) /\ Len(z) = b
    BY <1>4, <1>8 DEF z
  <2> QED BY <1>7, <1>9, <2>1, SeqEqual
<1> QED
  BY <1>2, <1>5, <1>10 DEF t, z, h

OutFn(s) ==
    CHOOSE out : out = [g \in 0..(Len(s) \div 4) |->
                          IF g = 0 THEN <<>> ELSE out[g - 1] \o Triple(QuadAt(s, g))]

\* What was encoded can be decoded, and is what it was.
LEMMA DecodedAsEncoded ==
    ASSUME NEW in \in Seq(Bytes)
    PROVE  Decodable(EncodeBlock(in)) /\ DecodeBlock(EncodeBlock(in)) = in
<1> DEFINE s == EncodeBlock(in)
           G == Groups(in)
           F == [g \in 0..G |-> FirstGroups(in, g)]
           Eq(f) == f = [g \in 0..G |->
                           IF g = 0 THEN <<>> ELSE f[g - 1] \o Triple(QuadAt(s, g))]
<1>0. Len(in) \in Nat /\ G \in Nat /\ Len(in) <= 3 * G
  BY GroupsIs DEF Groups
<1>1. Len(s) = 4 * G /\ \A g \in 1..G : QuadAt(s, g) = Quad(Bits(in, g - 1), Len(in) - 3 * (g - 1))
  BY EncodedIs
<1>2. Len(s) \div 4 = G /\ Len(s) % 4 = 0
  BY <1>0, <1>1
<1>3. Decodable(s)
  <2>1. ASSUME NEW g \in 1..G PROVE Accepted(QuadAt(s, g))
    <3>1. g - 1 \in Nat /\ g - 1 < Groups(in)
      BY <1>0
    <3> QED BY <1>1, <3>1, QuadOfGroup
  <2> QED BY <1>2, <2>1 DEF Decodable
<1>4. FirstGroups(in, 0) = <<>> /\ FirstGroups(in, G) = in
  <2>1. FirstGroups(in, 0) = SubSeq(in, 1, 0)
    BY <1>0 DEF FirstGroups
  <2>2. SubSeq(in, 1, 0) = <<>>
    BY SubSeqEmpty
  <2>3. FirstGroups(in, G) = SubSeq(in, 1, Len(in))
    BY <1>0 DEF FirstGroups
  <2>4. SubSeq(in, 1, Len(in)) = in
    BY SubSeqFull
  <2> QED BY <2>1, <2>2, <2>3, <2>4
<1>5. ASSUME NEW g \in 1..G
      PROVE  FirstGroups(in, g) = FirstGroups(in, g - 1) \o Triple(QuadAt(s, g))
  BY OneMoreGroup
<1>6. DecodeBlock(s) = OutFn(s)[G]
  BY <1>2 DEF DecodeBlock, OutFn
<1> HIDE DEF s, G
<1>7. Eq(F)
  <2>1. \A g \in 0..G : F[g] = IF g = 0 THEN <<>> ELSE F[g - 1] \o Triple(QuadAt(s, g))
    <3> TAKE g \in 0..G
    <3>1. CASE g = 0
      BY <1>0, <1>4, <3>1
    <3>2. CASE g # 0
      <4>1. g \in 1..G /\ g - 1 \in 0..G
        BY <1>0, <3>2
      <4>2. F[g] = FirstGroups(in, g) /\ F[g - 1] = FirstGroups(in, g - 1)
        BY <4>1
      <4>3. F[g] = F[g - 1] \o Triple(QuadAt(s, g))
        BY <1>5, <4>1, <4>2
      <4> QED BY <3>2, <4>3
    <3> QED BY <3>1, <3>2
  <2> QED BY <2>1
<1> HIDE DEF F
<1>8. Eq(OutFn(s))
  <2>1. OutFn(s) = CHOOSE f : Eq(f)
    BY <1>2 DEF OutFn
  <2> HIDE DEF Eq
  <2> QED BY <1>7, <2>1
<1>9. \A f : Eq(f) => \A g \in 0..G : f[g] = IF g = 0 THEN <<>> ELSE f[g - 1] \o Triple(QuadAt(s, g))
  OBVIOUS
<1> HIDE DEF Eq
<1> DEFINE T == {g \in Nat : g <= G /\ OutFn(s)[g] # F[g]}
<1>10. T = {}
  <2> SUFFICES ASSUME T # {} PROVE FALSE
    OBVIOUS
  <2>1. PICK g \in T : \A y \in T : g <= y
    <3>1. T \in SUBSET Nat
      OBVIOUS
    <3> HIDE DEF T
    <3> QED BY <3>1, LeastNatural
  <2>2. g \in 0..G
    BY <1>0
  <2>3. /\ OutFn(s)[g] = IF g = 0 THEN <<>> ELSE OutFn(s)[g - 1] \o Triple(QuadAt(s, g))
        /\ F[g] = IF g = 0 THEN <<>> ELSE F[g - 1] \o Triple(QuadAt(s, g))
    BY <1>7, <1>8, <1>9, <2>2
  <2>4. g # 0 => OutFn(s)[g - 1] = F[g - 1]
    <3>1. g # 0 => g - 1 \in Nat /\ g - 1 <= G /\ ~(g <= g - 1)
      BY <1>0, <2>2
    <3> QED BY <2>1, <3>1
  <2> QED BY <2>3, <2>4
<1>11. OutFn(s)[G] = F[G]
  BY <1>0, <1>10
<1>12. F[G] = in
  BY <1>0, <1>4 DEF F
<1> QED
  BY <1>3, <1>6, <1>11, <1>12 DEF s

-----------------------------------------------------------------------------
(* What is on the wire. *)

Chars == 0..68

\* Behind b characters w goes on with s.
HoldsAt(w, b, s) == b + Len(s) <= Len(w) /\ \A k \in 1..Len(s) : w[b + k] = s[k]

\* n bytes of file f behind o, as get sends them.
DataLine(f, e, o, n) == EncodeBlock(SubSeq(f, o + 1, o + n)) \o e

\* The first L characters of w are lines for the first o bytes of f. R has the
\* places <<characters, bytes>> where one ends and the next begins.
Cuts(R, w, f, e, L, o) ==
    /\ R \subseteq (0..L) \X (0..o)
    /\ <<0, 0>> \in R /\ <<L, o>> \in R
    /\ \A x \in R : x # <<L, o>> =>
          \E n \in 1..GetBuf :
             /\ x[2] + n <= o
             /\ x[1] + Len(DataLine(f, e, x[2], n)) <= L
             /\ HoldsAt(w, x[1], DataLine(f, e, x[2], n))
             /\ <<x[1] + Len(DataLine(f, e, x[2], n)), x[2] + n>> \in R

EolLen == IF telnet THEN 2 ELSE 1

\* The characters sent before the dot.
DataLen == Len(wire) - (IF getpc = "get" THEN 0
                        ELSE IF getpc = "type" THEN 1 + EolLen ELSE 2 * (1 + EolLen))

TypeInv ==
    /\ file \in Seq(Bytes) /\ telnet \in BOOLEAN
    /\ off \in 0..Len(file) /\ getpc \in {"get", "type", "done"}
    /\ wire \in Seq(Chars) /\ rd \in 0..Len(wire)
    /\ pc \in {"put", "prompt", "closed"} /\ whole \in BOOLEAN
    /\ end \in {"none", "dot", "decode error", "write error", "interrupted", "eof"}

\* Lines of data, then the dot, then the command.
Framed ==
    /\ DataLen \in Nat
    /\ getpc # "get" => off = Len(file) /\ HoldsAt(wire, DataLen, <<Dot>> \o Eol)
    /\ getpc = "done" => HoldsAt(wire, DataLen + 1 + EolLen, <<Command>> \o Eol)
    /\ \E R : /\ Cuts(R, wire, file, Eol, DataLen, off)
              /\ whole /\ pc = "put" => <<rd, Len(copy)>> \in R

\* What put has written so far.
Kept == whole => Len(copy) \in 0..Len(file) /\ copy = SubSeq(file, 1, Len(copy))

\* How put has ended, and where the session reads on.
Ended ==
    /\ pc = "put" <=> end = "none"
    /\ end \in {"none", "eof"} => ran = <<>>
    /\ end = "eof" => pc = "closed"
    /\ whole /\ end = "decode error" => telnet
    /\ whole /\ end = "dot" =>
          /\ copy = file /\ ~telnet /\ getpc # "get"
          /\ \/ ran = <<>> /\ rd = DataLen + 2
             \/ ran = <<<<Command>>>> /\ getpc = "done" /\ rd = Len(wire)

Inv == TypeInv /\ Framed /\ Kept /\ Ended

LEMMA EolIs ==
    ASSUME telnet \in BOOLEAN
    PROVE  /\ Eol \in Seq(Chars) /\ Len(Eol) = EolLen /\ EolLen \in {1, 2}
           /\ Eol[EolLen] = NL
           /\ telnet => EolLen = 2 /\ Eol[1] = CR
           /\ ~telnet => EolLen = 1
<1>1. NL \in Chars /\ CR \in Chars
  BY DEF NL, CR, Chars
<1>2. CASE telnet
  <2>1. Eol = <<CR, NL>> /\ EolLen = 2
    BY <1>2 DEF Eol, EolLen
  <2> QED BY <1>1, <1>2, <2>1
<1>3. CASE ~telnet
  <2>1. Eol = <<NL>> /\ EolLen = 1
    BY <1>3 DEF Eol, EolLen
  <2> QED BY <1>1, <1>3, <2>1
<1> QED BY <1>2, <1>3

NoNL(s) == \A k \in 1..Len(s) : s[k] # NL

\* A line, by its characters.
LEMMA LineIs ==
    ASSUME telnet \in BOOLEAN, NEW t \in Seq(Chars), NoNL(t), NEW u, u = t \o Eol
    PROVE  /\ u \in Seq(Chars) /\ Len(u) = Len(t) + EolLen /\ Len(u) \in Nat \ {0}
           /\ \A k \in 1..Len(t) : u[k] = t[k]
           /\ telnet => u[Len(t) + 1] = CR
           /\ \A k \in 1..Len(u) : u[k] = NL <=> k = Len(u)
<1>0. Len(t) \in Nat
  OBVIOUS
<1>1. /\ Eol \in Seq(Chars) /\ Len(Eol) = EolLen /\ EolLen \in {1, 2}
      /\ Eol[EolLen] = NL
      /\ telnet => EolLen = 2 /\ Eol[1] = CR
      /\ ~telnet => EolLen = 1
  BY EolIs
<1> DEFINE e == Eol
           v == t \o e
<1>2. /\ v \in Seq(Chars) /\ Len(v) = Len(t) + EolLen
      /\ \A k \in 1..(Len(t) + EolLen) : v[k] = IF k <= Len(t) THEN t[k] ELSE e[k - Len(t)]
  <2> HIDE DEF e
  <2>1. e \in Seq(Chars) /\ Len(e) = EolLen
    BY <1>1 DEF e
  <2> QED BY <2>1, ConcatProperties
<1> HIDE DEF v
<1>3. u = v
  BY DEF v
<1>4. \A k \in 1..Len(t) : u[k] = t[k]
  <2> TAKE k \in 1..Len(t)
  <2>1. k \in 1..(Len(t) + EolLen) /\ k <= Len(t)
    BY <1>0, <1>1
  <2> QED BY <1>2, <1>3, <2>1
<1>5. telnet => u[Len(t) + 1] = CR
  <2>1. /\ Len(t) + 1 \in 1..(Len(t) + EolLen) /\ ~(Len(t) + 1 <= Len(t))
        /\ Len(t) + 1 - Len(t) = 1
    BY <1>0, <1>1
  <2> QED BY <1>1, <1>2, <1>3, <2>1
<1>6. u[Len(t) + EolLen] = NL
  <2>1. /\ Len(t) + EolLen \in 1..(Len(t) + EolLen) /\ ~(Len(t) + EolLen <= Len(t))
        /\ Len(t) + EolLen - Len(t) = EolLen
    BY <1>0, <1>1
  <2> QED BY <1>1, <1>2, <1>3, <2>1
<1>7. ASSUME NEW k \in 1..(Len(t) + EolLen), k # Len(t) + EolLen PROVE u[k] # NL
  <2>1. CASE k <= Len(t)
    <3>1. k \in 1..Len(t)
      BY <1>0, <1>7, <2>1
    <3> QED BY <1>4, <3>1 DEF NoNL
  <2>2. CASE ~(k <= Len(t))
    <3>1. EolLen = 2 /\ k = Len(t) + 1
      BY <1>0, <1>1, <1>7, <2>2
    <3>2. telnet
      BY <1>1, <3>1
    <3>3. u[k] = CR
      BY <1>5, <3>1, <3>2
    <3> QED BY <3>3 DEF CR, NL
  <2> QED BY <2>1, <2>2
<1>8. Len(u) = Len(t) + EolLen /\ Len(u) \in Nat \ {0} /\ u \in Seq(Chars)
  BY <1>0, <1>1, <1>2, <1>3
<1> QED
  BY <1>4, <1>5, <1>6, <1>7, <1>8

CrPart == IF telnet THEN <<CR>> ELSE <<>>

LineHere(w, b, t) ==
    /\ w \in Seq(Chars) /\ b \in Nat /\ t \in Seq(Chars) /\ NoNL(t)
    /\ HoldsAt(w, b, t \o Eol)

WholeRead(w, b, n) ==
    n \in Nat \ {0} /\ b + n <= Len(w) /\ IsWholeLine(SubSeq(w, b + 1, b + n))

\* A read() that returns one line, where a line begins, returns that line.
LEMMA WholeLineIsLine ==
    ASSUME telnet \in BOOLEAN, NEW w, NEW b, NEW t, NEW n,
           LineHere(w, b, t), WholeRead(w, b, n)
    PROVE  /\ n = Len(t \o Eol)
           /\ UpToNewline(SubSeq(w, b + 1, b + n)) = t \o CrPart
<1> DEFINE u == t \o Eol
           seg == SubSeq(w, b + 1, b + n)
<1> w \in Seq(Chars) /\ b \in Nat /\ t \in Seq(Chars) /\ NoNL(t) /\ HoldsAt(w, b, t \o Eol)
  BY DEF LineHere
<1> n \in Nat \ {0} /\ b + n <= Len(w) /\ IsWholeLine(SubSeq(w, b + 1, b + n))
  BY DEF WholeRead
<1>0. Len(t) \in Nat /\ Len(w) \in Nat
  OBVIOUS
<1>1. /\ u \in Seq(Chars) /\ Len(u) = Len(t) + EolLen /\ Len(u) \in Nat \ {0}
      /\ \A k \in 1..Len(t) : u[k] = t[k]
      /\ telnet => u[Len(t) + 1] = CR
      /\ \A k \in 1..Len(u) : u[k] = NL <=> k = Len(u)
  BY LineIs
<1>2. b + Len(u) <= Len(w) /\ \A k \in 1..Len(u) : w[b + k] = u[k]
  BY DEF HoldsAt
<1> HIDE DEF u
<1>3. seg \in Seq(Chars) /\ Len(seg) = n /\ \A k \in 1..n : seg[k] = w[b + k]
  <2>1. b + n \in Nat /\ b <= b + n /\ b + n - b = n
    OBVIOUS
  <2>2. /\ SubSeq(w, b + 1, b + n) \in Seq(Chars) /\ Len(SubSeq(w, b + 1, b + n)) = b + n - b
        /\ \A k \in 1..(b + n - b) : SubSeq(w, b + 1, b + n)[k] = w[b + k]
    BY <2>1, PartIs
  <2> QED BY <2>1, <2>2
<1> HIDE DEF seg
<1>4. \A k \in 1..n : seg[k] = NL <=> k = n
  BY <1>3 DEF IsWholeLine, seg
<1>5. n = Len(u)
  <2>1. CASE n < Len(u)
    <3>1. n \in 1..n /\ n \in 1..Len(u) /\ n # Len(u)
      BY <1>1, <2>1
    <3>2. seg[n] = NL /\ seg[n] = u[n] /\ u[n] # NL
      BY <1>1, <1>2, <1>3, <1>4, <3>1
    <3> QED BY <3>2
  <2>2. CASE Len(u) < n
    <3>1. Len(u) \in 1..n /\ Len(u) \in 1..Len(u) /\ Len(u) # n
      BY <1>1, <2>2
    <3>2. u[Len(u)] = NL /\ seg[Len(u)] = u[Len(u)] /\ seg[Len(u)] # NL
      BY <1>1, <1>2, <1>3, <1>4, <3>1
    <3> QED BY <3>2
  <2> QED BY <1>1, <2>1, <2>2
<1>6. UpToNewline(seg) = SubSeq(seg, 1, n - 1)
  <2> DEFINE nls == {k \in 1..Len(seg) : seg[k] = NL}
  <2>1. \A k : k \in nls <=> k = n
    <3>1. n \in 1..n
      OBVIOUS
    <3>2. \A k : k \in nls <=> k \in 1..n /\ seg[k] = NL
      BY <1>3
    <3> HIDE DEF nls
    <3> QED BY <1>4, <3>1, <3>2
  <2>4. UpToNewline(seg) = IF nls = {} THEN seg
                           ELSE SubSeq(seg, 1, (CHOOSE k \in nls : \A m \in nls : k <= m) - 1)
    BY DEF UpToNewline
  <2> HIDE DEF nls
  <2>2. (CHOOSE k \in nls : \A m \in nls : k <= m) = n
    <3>0. n \in nls /\ n <= n
      BY <2>1
    <3>1. \E k \in nls : \A m \in nls : k <= m
      <4>1. ASSUME NEW m \in nls PROVE n <= m
        <5>1. m = n
          BY <2>1
        <5> QED BY <3>0, <5>1
      <4> QED BY <3>0, <4>1
    <3>2. (CHOOSE k \in nls : \A m \in nls : k <= m) \in nls
      BY <3>1
    <3> QED BY <2>1, <3>2
  <2>3. nls # {}
    BY <2>1
  <2> QED BY <2>2, <2>3, <2>4
<1> DEFINE x == SubSeq(seg, 1, n - 1)
           y == t \o CrPart
<1>7. x \in Seq(Chars) /\ Len(x) = n - 1 /\ \A k \in 1..(n - 1) : x[k] = seg[k]
  <2>1. 0 \in Nat /\ n - 1 \in Nat /\ 0 <= n - 1 /\ n - 1 <= Len(seg)
    BY <1>3
  <2>2. 0 + 1 = 1 /\ n - 1 - 0 = n - 1 /\ \A k \in 1..(n - 1) : 0 + k = k
    OBVIOUS
  <2>3. /\ SubSeq(seg, 0 + 1, n - 1) \in Seq(Chars) /\ Len(SubSeq(seg, 0 + 1, n - 1)) = n - 1 - 0
        /\ \A k \in 1..(n - 1 - 0) : SubSeq(seg, 0 + 1, n - 1)[k] = seg[0 + k]
    BY <1>3, <2>1, PartIs
  <2> QED BY <2>2, <2>3
<1>8. /\ y \in Seq(Chars) /\ Len(y) = n - 1
      /\ \A k \in 1..Len(t) : y[k] = t[k]
      /\ telnet => y[Len(t) + 1] = CR
  <2>1. n = Len(t) + (IF telnet THEN 2 ELSE 1)
    BY <1>1, <1>5 DEF EolLen
  <2> DEFINE c == CrPart
  <2>2. c \in Seq(Chars) /\ Len(c) = (IF telnet THEN 1 ELSE 0) /\ (telnet => c[1] = CR)
    <3>1. CR \in Chars
      BY DEF CR, Chars
    <3>2. CASE telnet
      BY <3>1, <3>2 DEF CrPart
    <3>3. CASE ~telnet
      BY <3>3 DEF CrPart
    <3> QED BY <3>2, <3>3
  <2> HIDE DEF c
  <2>3. /\ t \o c \in Seq(Chars) /\ Len(t \o c) = Len(t) + Len(c)
        /\ \A k \in 1..(Len(t) + Len(c)) : (t \o c)[k] = IF k <= Len(t) THEN t[k] ELSE c[k - Len(t)]
    BY <2>2, ConcatProperties
  <2> DEFINE z == t \o c
  <2>4. y = z
    BY DEF c
  <2>5. Len(z) = n - 1
    BY <1>0, <2>1, <2>2, <2>3
  <2>6. \A k \in 1..Len(t) : z[k] = t[k]
    <3> TAKE k \in 1..Len(t)
    <3>1. k \in 1..(Len(t) + Len(c)) /\ k <= Len(t)
      BY <1>0, <2>2
    <3> QED BY <2>3, <3>1
  <2>7. telnet => z[Len(t) + 1] = CR
    <3> HAVE telnet
    <3>1. Len(t) + 1 \in 1..(Len(t) + Len(c)) /\ ~(Len(t) + 1 <= Len(t)) /\ Len(t) + 1 - Len(t) = 1
      BY <1>0, <2>2
    <3> QED BY <2>2, <2>3, <3>1
  <2> HIDE DEF z, y
  <2>8. z \in Seq(Chars)
    BY <2>3 DEF z
  <2> QED BY <2>4, <2>5, <2>6, <2>7, <2>8
<1> HIDE DEF x, y
<1>9. \A k \in 1..(n - 1) : x[k] = y[k]
  <2> TAKE k \in 1..(n - 1)
  <2>1. x[k] = u[k]
    <3>1. k \in 1..n /\ k \in 1..Len(u)
      BY <1>5
    <3> QED BY <1>2, <1>3, <1>7, <3>1
  <2>2. CASE k <= Len(t)
    <3>1. k \in 1..Len(t)
      BY <1>0, <2>2
    <3> QED BY <1>1, <1>8, <2>1, <3>1
  <2>3. CASE ~(k <= Len(t))
    <3>1. telnet /\ k = Len(t) + 1
      BY <1>0, <1>1, <1>5, <2>3 DEF EolLen
    <3> QED BY <1>1, <1>8, <2>1, <3>1
  <2> QED BY <2>2, <2>3
<1>10. x = y
  BY <1>7, <1>8, <1>9, SeqEqual
<1> QED
  BY <1>5, <1>6, <1>10 DEF x, y, u, seg

\* The block and what it is encoded to.
IsBlock(f, o, n, in, t) ==
    /\ in \in Seq(Bytes) /\ Len(in) = n /\ \A k \in 1..n : in[k] = f[o + k]
    /\ t \in Seq(Chars) /\ NoNL(t) /\ Len(t) % 4 = 0 /\ Len(t) \in Nat \ {0}
    /\ Decodable(t) /\ DecodeBlock(t) = in

LEMMA BlockIs ==
    ASSUME NEW f \in Seq(Bytes), NEW o \in Nat, NEW n \in Nat \ {0}, o + n <= Len(f)
    PROVE  IsBlock(f, o, n, SubSeq(f, o + 1, o + n), EncodeBlock(SubSeq(f, o + 1, o + n)))
<1> DEFINE in == SubSeq(f, o + 1, o + n)
           t == EncodeBlock(in)
<1>1. in \in Seq(Bytes) /\ Len(in) = n /\ \A k \in 1..n : in[k] = f[o + k]
  <2>1. o + n \in Nat /\ o <= o + n /\ o + n - o = n
    OBVIOUS
  <2> QED BY <2>1, PartIs
<1> HIDE DEF in
<1>2. t \in Seq(Digits \cup {Pad}) /\ Len(t) = 4 * Groups(in)
  BY <1>1, EncodedIs
<1>3. Groups(in) \in Nat \ {0}
  BY <1>1, GroupsIs DEF Groups
<1>4. Len(t) % 4 = 0 /\ Len(t) \in Nat \ {0}
  <2>1. \A k \in Nat \ {0} : (4 * k) % 4 = 0 /\ 4 * k \in Nat \ {0}
    OBVIOUS
  <2> QED BY <1>2, <1>3, <2>1
<1>5. t \in Seq(Chars)
  <2>1. Digits \cup {Pad} \subseteq Chars
    BY DEF Digits, Pad, Chars
  <2> QED BY <1>2, <2>1, SeqMonotonic
<1>6. NoNL(t)
  <2>1. \A k \in 1..Len(t) : t[k] \in Digits \cup {Pad}
    BY <1>2, ElementOfSeq
  <2>2. NL \notin Digits \cup {Pad}
    BY DEF NL, Digits, Pad
  <2> QED BY <2>1, <2>2 DEF NoNL
<1>7. Decodable(t) /\ DecodeBlock(t) = in
  BY <1>1, DecodedAsEncoded
<1> HIDE DEF t
<1> QED
  BY <1>1, <1>4, <1>5, <1>6, <1>7 DEF in, t, IsBlock

\* The line of one character.
LEMMA OneIs ==
    ASSUME NEW c \in Chars, c # NL
    PROVE  <<c>> \in Seq(Chars) /\ Len(<<c>>) = 1 /\ <<c>>[1] = c /\ NoNL(<<c>>)
<1>1. <<c>> \in Seq(Chars) /\ Len(<<c>>) = 1 /\ <<c>>[1] = c
  OBVIOUS
<1>2. NoNL(<<c>>)
  BY <1>1 DEF NoNL
<1> QED BY <1>1, <1>2

\* With CR LF, the text of a line has a CR.
LEMMA TextIs ==
    ASSUME telnet \in BOOLEAN, NEW t \in Seq(Chars), Len(t) # 0
    PROVE  /\ ~telnet => t \o CrPart = t
           /\ telnet => t \o CrPart # <<Dot>> /\ (Len(t) = 1 \/ Len(t) % 4 = 0 => ~Decodable(t \o CrPart))
<1>1. CASE ~telnet
  <2>1. CrPart = <<>>
    BY <1>1 DEF CrPart
  <2> QED BY <1>1, <2>1, ConcatEmptySeq
<1>2. CASE telnet
  <2>1. CrPart = <<CR>> /\ CR \in Chars
    BY <1>2 DEF CrPart, CR, Chars
  <2> DEFINE c == CrPart
             x == t \o c
  <2>2. c \in Seq(Chars) /\ Len(c) = 1
    BY <2>1
  <2> HIDE DEF c
  <2>3. Len(x) = Len(t) + 1
    <3>1. Len(t \o c) = Len(t) + Len(c)
      BY <2>2, ConcatProperties
    <3> QED BY <2>2, <3>1
  <2> HIDE DEF x
  <2>4. Len(t) \in Nat \ {0} /\ Len(<<Dot>>) = 1
    OBVIOUS
  <2>5. x # <<Dot>>
    BY <2>3, <2>4
  <2>6. Len(t) = 1 \/ Len(t) % 4 = 0 => Len(x) % 4 # 0
    <3>1. \A k \in Nat : k = 1 \/ k % 4 = 0 => (k + 1) % 4 # 0
      OBVIOUS
    <3> QED BY <2>3, <2>4, <3>1
  <2>7. x = t \o CrPart
    BY DEF x, c
  <2> QED BY <1>2, <2>5, <2>6, <2>7 DEF Decodable
<1> QED BY <1>1, <1>2

\* What put may read, where lines are read one by one.
LEMMA TextInPut ==
    ASSUME TypeInv, Framed, Kept, NEW R, Cuts(R, wire, file, Eol, DataLen, off),
           <<rd, Len(copy)>> \in R, whole,
           NEW n, WholeRead(wire, rd, n),
           NEW text, text = UpToNewline(SubSeq(wire, rd + 1, rd + n))
    PROVE  \/ telnet /\ text # <<Dot>> /\ ~Decodable(text)
           \/ /\ ~telnet /\ text = <<Dot>> /\ getpc # "get"
              /\ rd + n = DataLen + 2 /\ Len(copy) = Len(file)
           \/ /\ ~telnet /\ text # <<Dot>> /\ Decodable(text)
              /\ \E m \in Nat \ {0} :
                    /\ Len(copy) + m <= Len(file)
                    /\ DecodeBlock(text) = SubSeq(file, Len(copy) + 1, Len(copy) + m)
                    /\ <<rd + n, Len(copy) + m>> \in R
<1> DEFINE o == Len(copy)
<1>0. /\ file \in Seq(Bytes) /\ telnet \in BOOLEAN /\ wire \in Seq(Chars) /\ rd \in Nat
      /\ off \in Nat /\ off <= Len(file) /\ Len(file) \in Nat /\ Len(wire) \in Nat
      /\ DataLen \in Nat /\ o \in Nat
      /\ getpc \in {"get", "type", "done"} /\ EolLen \in {1, 2}
  <2>1. /\ file \in Seq(Bytes) /\ telnet \in BOOLEAN /\ wire \in Seq(Chars)
        /\ off \in 0..Len(file) /\ rd \in 0..Len(wire) /\ getpc \in {"get", "type", "done"}
    BY DEF TypeInv
  <2>2. Len(file) \in Nat /\ Len(wire) \in Nat
    BY <2>1
  <2>3. EolLen \in {1, 2} /\ DataLen \in Nat /\ o \in 0..Len(file)
    BY <2>1, EolIs DEF Framed, Kept
  <2> QED BY <2>1, <2>2, <2>3
<1> n \in Nat \ {0} /\ rd + n <= Len(wire)
  BY DEF WholeRead
<1> HIDE DEF o
<1>1. CASE <<rd, o>> = <<DataLen, off>>
  <2>1. rd = DataLen /\ o = off
    BY <1>1
  <2>2. getpc # "get"
    <3>1. getpc = "get" => DataLen = Len(wire)
      BY <1>0 DEF DataLen
    <3> QED BY <1>0, <2>1, <3>1
  <2>3. off = Len(file) /\ HoldsAt(wire, rd, <<Dot>> \o Eol)
    BY <2>1, <2>2 DEF Framed
  <2> DEFINE t == <<Dot>>
  <2>4. t \in Seq(Chars) /\ Len(t) = 1 /\ NoNL(t)
    <3>1. Dot \in Chars /\ Dot # NL
      BY DEF Dot, Chars, NL
    <3> QED BY <3>1, OneIs
  <2> HIDE DEF t
  <2>5. n = Len(t \o Eol) /\ text = t \o CrPart
    <3>1. HoldsAt(wire, rd, t \o Eol)
      BY <2>3 DEF t
    <3>2. LineHere(wire, rd, t)
      BY <1>0, <2>4, <3>1 DEF LineHere
    <3> QED BY <1>0, <3>2, WholeLineIsLine
  <2>6. CASE telnet
    <3>1. text # <<Dot>> /\ ~Decodable(text)
      <4>1. Len(t) # 0
        BY <2>4
      <4> QED BY <1>0, <2>4, <4>1, <2>5, <2>6, TextIs
    <3> QED BY <2>6, <3>1
  <2>7. CASE ~telnet
    <3>1. text = t
      <4>1. Len(t) # 0
        BY <2>4
      <4> QED BY <1>0, <2>4, <4>1, <2>5, <2>7, TextIs
    <3>2. n = 2
      <4>1. Len(t \o Eol) = Len(t) + EolLen
        BY <1>0, <2>4, LineIs
      <4>2. EolLen = 1
        BY <2>7 DEF EolLen
      <4> QED BY <2>4, <2>5, <4>1, <4>2
    <3> QED BY <2>1, <2>2, <2>3, <2>7, <3>1, <3>2 DEF t, o
  <2> QED BY <1>0, <2>6, <2>7
<1>2. CASE <<rd, o>> # <<DataLen, off>>
  <2>1. PICK m \in 1..GetBuf :
           /\ o + m <= off
           /\ HoldsAt(wire, rd, DataLine(file, Eol, o, m))
           /\ <<rd + Len(DataLine(file, Eol, o, m)), o + m>> \in R
    BY <1>2 DEF Cuts, o
  <2>2. m \in Nat \ {0} /\ o + m <= Len(file)
    BY <1>0, <2>1, ConstantsAssumption
  <2> DEFINE in == SubSeq(file, o + 1, o + m)
             t == EncodeBlock(in)
  <2>3. /\ t \in Seq(Chars) /\ NoNL(t) /\ Len(t) % 4 = 0 /\ Len(t) # 0
        /\ Decodable(t) /\ DecodeBlock(t) = in
    <3>1. IsBlock(file, o, m, in, t)
      BY <1>0, <2>2, BlockIs
    <3> QED BY <3>1 DEF IsBlock
  <2>4. DataLine(file, Eol, o, m) = t \o Eol
    BY DEF DataLine
  <2> HIDE DEF t, in
  <2>5. n = Len(t \o Eol) /\ text = t \o CrPart
    <3>1. HoldsAt(wire, rd, t \o Eol)
      BY <2>1, <2>4
    <3>2. LineHere(wire, rd, t)
      BY <1>0, <2>3, <3>1 DEF LineHere
    <3> QED BY <1>0, <3>2, WholeLineIsLine
  <2>6. CASE telnet
    <3>1. text # <<Dot>> /\ ~Decodable(text)
      BY <1>0, <2>3, <2>5, <2>6, TextIs
    <3> QED BY <2>6, <3>1
  <2>7. CASE ~telnet
    <3>1. text = t
      BY <1>0, <2>3, <2>5, <2>7, TextIs
    <3>2. text # <<Dot>>
      <4>1. Len(<<Dot>>) % 4 # 0
        OBVIOUS
      <4> QED BY <2>3, <3>1, <4>1
    <3>3. <<rd + n, o + m>> \in R
      BY <2>1, <2>4, <2>5
    <3> QED BY <2>2, <2>3, <2>7, <3>1, <3>2, <3>3 DEF in, o
  <2> QED BY <1>0, <2>6, <2>7
<1> QED
  BY <1>1, <1>2

-----------------------------------------------------------------------------
(* More is sent. *)

LEMMA HoldsOn ==
    ASSUME NEW w \in Seq(Chars), NEW s \in Seq(Chars), NEW b \in Nat, NEW u,
           Len(u) \in Nat, HoldsAt(w, b, u)
    PROVE  HoldsAt(w \o s, b, u)
<1> DEFINE v == w \o s
<1>0. Len(w) \in Nat /\ Len(s) \in Nat
  OBVIOUS
<1>1. /\ Len(v) = Len(w) + Len(s)
      /\ \A k \in 1..(Len(w) + Len(s)) : v[k] = IF k <= Len(w) THEN w[k] ELSE s[k - Len(w)]
  BY ConcatProperties
<1> HIDE DEF v
<1>2. b + Len(u) <= Len(w) /\ \A k \in 1..Len(u) : w[b + k] = u[k]
  BY DEF HoldsAt
<1>3. ASSUME NEW k \in 1..Len(u) PROVE v[b + k] = u[k]
  <2>1. b + k \in 1..(Len(w) + Len(s)) /\ b + k <= Len(w)
    BY <1>0, <1>2
  <2> QED BY <1>1, <1>2, <2>1
<1>4. b + Len(u) <= Len(v)
  BY <1>0, <1>1, <1>2
<1> QED
  BY <1>3, <1>4 DEF HoldsAt, v

LEMMA HoldsLast ==
    ASSUME NEW w \in Seq(Chars), NEW s \in Seq(Chars)
    PROVE  HoldsAt(w \o s, Len(w), s)
<1> DEFINE v == w \o s
<1>0. Len(w) \in Nat /\ Len(s) \in Nat
  OBVIOUS
<1>1. /\ Len(v) = Len(w) + Len(s)
      /\ \A k \in 1..(Len(w) + Len(s)) : v[k] = IF k <= Len(w) THEN w[k] ELSE s[k - Len(w)]
  BY ConcatProperties
<1> HIDE DEF v
<1>3. ASSUME NEW k \in 1..Len(s) PROVE v[Len(w) + k] = s[k]
  <2>1. /\ Len(w) + k \in 1..(Len(w) + Len(s)) /\ ~(Len(w) + k <= Len(w))
        /\ Len(w) + k - Len(w) = k
    BY <1>0
  <2> QED BY <1>1, <2>1
<1>4. Len(w) + Len(s) <= Len(v)
  BY <1>0, <1>1
<1> QED
  BY <1>3, <1>4 DEF HoldsAt, v

LEMMA DataLineIs ==
    ASSUME telnet \in BOOLEAN, NEW f \in Seq(Bytes), NEW o \in Nat, NEW n \in Nat \ {0},
           o + n <= Len(f)
    PROVE  DataLine(f, Eol, o, n) \in Seq(Chars) /\ Len(DataLine(f, Eol, o, n)) \in Nat \ {0}
<1> DEFINE in == SubSeq(f, o + 1, o + n)
           t == EncodeBlock(in)
<1>1. IsBlock(f, o, n, in, t)
  BY BlockIs
<1> HIDE DEF t, in
<1>2. t \o Eol \in Seq(Chars) /\ Len(t \o Eol) \in Nat \ {0}
  BY <1>1, LineIs DEF IsBlock
<1> QED
  BY <1>2 DEF DataLine, t, in

Cutting(R, w, f, L, o) ==
    /\ w \in Seq(Chars) /\ f \in Seq(Bytes) /\ L \in Nat /\ o \in 0..Len(f)
    /\ Cuts(R, w, f, Eol, L, o)

LEMMA CutsOn ==
    ASSUME telnet \in BOOLEAN, NEW R, NEW w, NEW f, NEW L, NEW o,
           Cutting(R, w, f, L, o), NEW s \in Seq(Chars)
    PROVE  Cutting(R, w \o s, f, L, o)
<1>0. /\ w \in Seq(Chars) /\ f \in Seq(Bytes) /\ L \in Nat /\ o \in 0..Len(f)
      /\ R \subseteq (0..L) \X (0..o) /\ <<0, 0>> \in R /\ <<L, o>> \in R
  BY DEF Cutting, Cuts
<1>1. w \o s \in Seq(Chars)
  BY <1>0, ConcatProperties
<1>2. ASSUME NEW x \in R, x # <<L, o>>
      PROVE  \E n \in 1..GetBuf :
               /\ x[2] + n <= o
               /\ x[1] + Len(DataLine(f, Eol, x[2], n)) <= L
               /\ HoldsAt(w \o s, x[1], DataLine(f, Eol, x[2], n))
               /\ <<x[1] + Len(DataLine(f, Eol, x[2], n)), x[2] + n>> \in R
  <2>1. PICK n \in 1..GetBuf :
               /\ x[2] + n <= o
               /\ x[1] + Len(DataLine(f, Eol, x[2], n)) <= L
               /\ HoldsAt(w, x[1], DataLine(f, Eol, x[2], n))
               /\ <<x[1] + Len(DataLine(f, Eol, x[2], n)), x[2] + n>> \in R
    BY <1>2 DEF Cutting, Cuts
  <2>2. x[1] \in 0..L /\ x[2] \in 0..o
    BY <1>0
  <2>3. x[1] \in Nat /\ x[2] \in Nat /\ n \in Nat \ {0} /\ x[2] + n <= Len(f)
    <3>1. Len(f) \in Nat
      BY <1>0
    <3> QED BY <1>0, <2>1, <2>2, <3>1, ConstantsAssumption
  <2> DEFINE u == DataLine(f, Eol, x[2], n)
             a == x[1]
  <2>4. Len(u) \in Nat
    BY <1>0, <2>3, DataLineIs
  <2>5. a \in Nat /\ HoldsAt(w, a, u)
    BY <2>1, <2>3
  <2> HIDE DEF u, a
  <2>6. HoldsAt(w \o s, a, u)
    BY <1>0, <2>4, <2>5, HoldsOn
  <2> QED BY <2>1, <2>6 DEF u, a
<1> QED
  BY <1>0, <1>1, <1>2 DEF Cutting, Cuts

LEMMA OneMoreLine ==
    ASSUME telnet \in BOOLEAN, NEW R, NEW w, NEW f, NEW o, NEW n \in 1..GetBuf,
           Cutting(R, w, f, Len(w), o), o + n <= Len(f),
           NEW s, s = DataLine(f, Eol, o, n)
    PROVE  Cutting(R \cup {<<Len(w \o s), o + n>>}, w \o s, f, Len(w \o s), o + n)
<1> DEFINE L == Len(w)
           M == Len(w \o s)
           Q == R \cup {<<M, o + n>>}
           v == w \o s
<1>0. /\ w \in Seq(Chars) /\ f \in Seq(Bytes) /\ L \in Nat /\ o \in 0..Len(f)
      /\ Len(f) \in Nat /\ o \in Nat /\ n \in Nat \ {0}
      /\ R \subseteq (0..L) \X (0..o) /\ <<0, 0>> \in R /\ <<L, o>> \in R
  BY ConstantsAssumption DEF Cutting, Cuts
<1>1. s \in Seq(Chars) /\ Len(s) \in Nat \ {0}
  BY <1>0, DataLineIs
<1>2. v \in Seq(Chars) /\ M = L + Len(s)
  BY <1>0, <1>1, ConcatProperties
<1>3. HoldsAt(v, L, s)
  BY <1>0, <1>1, HoldsLast
<1>4. Cutting(R, v, f, L, o)
  BY <1>1, CutsOn
<1> HIDE DEF L, M, v
<1>5. Q \subseteq (0..M) \X (0..(o + n)) /\ M \in Nat /\ o + n \in 0..Len(f)
  <2>1. M \in Nat /\ M \in 0..M /\ o + n \in 0..(o + n) /\ o + n \in 0..Len(f)
    BY <1>0, <1>1, <1>2
  <2>2. 0..L \subseteq 0..M /\ 0..o \subseteq 0..(o + n)
    BY <1>0, <1>1, <1>2
  <2>3. R \subseteq (0..M) \X (0..(o + n))
    BY <1>0, <2>2
  <2>4. <<M, o + n>> \in (0..M) \X (0..(o + n))
    BY <2>1
  <2> QED BY Zenon, <2>1, <2>3, <2>4
<1>6. ASSUME NEW x \in Q, x # <<M, o + n>>
      PROVE  \E m \in 1..GetBuf :
               /\ x[2] + m <= o + n
               /\ x[1] + Len(DataLine(f, Eol, x[2], m)) <= M
               /\ HoldsAt(v, x[1], DataLine(f, Eol, x[2], m))
               /\ <<x[1] + Len(DataLine(f, Eol, x[2], m)), x[2] + m>> \in Q
  <2>1. x \in R
    BY <1>6
  <2>2. CASE x = <<L, o>>
    <3>1. x[1] = L /\ x[2] = o
      BY <2>2
    <3>2. o + n <= o + n /\ L + Len(s) <= M
      BY <1>0, <1>1, <1>2
    <3>3. <<L + Len(s), o + n>> \in Q
      BY <1>2
    <3>4. s = DataLine(f, Eol, o, n)
      OBVIOUS
    <3> HIDE DEF Q
    <3> QED BY <1>3, <3>1, <3>2, <3>3, <3>4
  <2>3. CASE x # <<L, o>>
    <3>1. PICK m \in 1..GetBuf :
               /\ x[2] + m <= o
               /\ x[1] + Len(DataLine(f, Eol, x[2], m)) <= L
               /\ HoldsAt(v, x[1], DataLine(f, Eol, x[2], m))
               /\ <<x[1] + Len(DataLine(f, Eol, x[2], m)), x[2] + m>> \in R
      BY <1>4, <2>1, <2>3 DEF Cutting, Cuts
    <3>2. x[1] \in 0..L /\ x[2] \in 0..o
      BY <1>0, <2>1
    <3>3. x[1] \in Nat /\ x[2] \in Nat /\ m \in Nat \ {0} /\ x[2] + m <= Len(f)
      BY <1>0, <3>1, <3>2, ConstantsAssumption
    <3> DEFINE u == DataLine(f, Eol, x[2], m)
    <3>4. Len(u) \in Nat
      BY <1>0, <3>3, DataLineIs
    <3> DEFINE a == x[1]
               c == x[2]
    <3>5. a \in Nat /\ c \in Nat /\ a + Len(u) <= L /\ c + m <= o
      BY <3>1, <3>3
    <3> HIDE DEF u, a, c
    <3>7. c + m <= o + n /\ a + Len(u) <= M
      BY <1>0, <1>1, <1>2, <3>3, <3>4, <3>5
    <3>6. x[2] + m <= o + n /\ x[1] + Len(u) <= M
      BY <3>7 DEF a, c
    <3> QED BY <3>1, <3>6 DEF u
  <2> QED BY <2>2, <2>3
<1>7. <<0, 0>> \in Q /\ <<M, o + n>> \in Q
  BY <1>0
<1> HIDE DEF Q
<1>8. Cuts(Q, v, f, Eol, M, o + n)
  BY <1>5, <1>6, <1>7 DEF Cuts
<1> QED
  BY <1>0, <1>2, <1>5, <1>8 DEF Cutting, Q, M, v

-----------------------------------------------------------------------------
(* What the session reads. *)

LEMMA CopyGrows ==
    ASSUME NEW f \in Seq(Bytes), NEW c \in Nat, NEW m \in Nat, c + m <= Len(f),
           NEW j \in 0..m
    PROVE  SubSeq(f, 1, c) \o SubSeq(SubSeq(f, c + 1, c + m), 1, j) = SubSeq(f, 1, c + j)
           /\ Len(SubSeq(f, 1, c + j)) = c + j
<1> DEFINE x == SubSeq(f, 0 + 1, c)
           b == SubSeq(f, c + 1, c + m)
           y == SubSeq(b, 0 + 1, j)
           z == SubSeq(f, 0 + 1, c + j)
           v == x \o y
<1>0. /\ Len(f) \in Nat /\ c + m \in Nat /\ c <= c + m /\ c + m - c = m /\ j \in Nat /\ 0 \in Nat
      /\ c <= Len(f) /\ 0 <= c /\ 0 <= j /\ c + j \in Nat /\ c + j <= Len(f) /\ 0 <= c + j
      /\ c - 0 = c /\ j - 0 = j /\ (c + j) - 0 = c + j /\ 0 + 1 = 1
  OBVIOUS
<1>1. x \in Seq(Bytes) /\ Len(x) = c /\ \A k \in 1..c : x[k] = f[0 + k]
  BY <1>0, PartIs
<1>2. b \in Seq(Bytes) /\ Len(b) = m /\ \A k \in 1..m : b[k] = f[c + k]
  BY <1>0, PartIs
<1> HIDE DEF b
<1>3. y \in Seq(Bytes) /\ Len(y) = j /\ \A k \in 1..j : y[k] = b[0 + k]
  <2>1. j <= Len(b)
    BY <1>2
  <2> QED BY <1>0, <1>2, <2>1, PartIs
<1>4. z \in Seq(Bytes) /\ Len(z) = c + j /\ \A k \in 1..(c + j) : z[k] = f[0 + k]
  BY <1>0, PartIs
<1> HIDE DEF x, y, z
<1>5. /\ v \in Seq(Bytes) /\ Len(v) = c + j
      /\ \A k \in 1..(c + j) : v[k] = IF k <= c THEN x[k] ELSE y[k - c]
  BY <1>1, <1>3, ConcatProperties
<1> HIDE DEF v
<1>6. \A k \in 1..(c + j) : v[k] = z[k]
  <2> TAKE k \in 1..(c + j)
  <2>1. CASE k <= c
    <3>1. k \in 1..c
      BY <1>0, <2>1
    <3> QED BY <1>1, <1>4, <1>5, <2>1, <3>1
  <2>2. CASE ~(k <= c)
    <3>1. k - c \in 1..j /\ k - c \in 1..m /\ 0 + (k - c) = k - c /\ c + (k - c) = k /\ 0 + k = k
      BY <1>0, <2>2
    <3>2. y[k - c] = b[k - c] /\ b[k - c] = f[k]
      BY <1>2, <1>3, <3>1
    <3> QED BY <1>4, <1>5, <2>2, <3>1, <3>2
  <2> QED BY <2>1, <2>2
<1>7. v = z
  BY <1>4, <1>5, <1>6, SeqEqual
<1> QED
  BY <1>0, <1>4, <1>7 DEF v, x, y, z, b

KeptFn(s) ==
    CHOOSE kept : kept = [k \in 0..Len(s) |->
                            IF k = 0 THEN <<>>
                            ELSE IF s[k] = CR THEN kept[k - 1] ELSE Append(kept[k - 1], s[k])]

LEMMA CommandKept == WithoutCR(<<Command>>) = <<Command>>
<1> DEFINE s == <<Command>>
           Eq(f) == f = [k \in 0..1 |->
                           IF k = 0 THEN <<>>
                           ELSE IF s[k] = CR THEN f[k - 1] ELSE Append(f[k - 1], s[k])]
           F == [k \in 0..1 |-> IF k = 0 THEN <<>> ELSE Append(<<>>, Command)]
<1>1. Len(s) = 1 /\ s[1] = Command /\ Command # CR
  BY DEF Command, CR
<1>2. Eq(F)
  <2>1. \A k \in 0..1 : F[k] = IF k = 0 THEN <<>>
                           ELSE IF s[k] = CR THEN F[k - 1] ELSE Append(F[k - 1], s[k])
    <3> TAKE k \in 0..1
    <3>1. CASE k = 0
      BY <3>1
    <3>2. CASE k = 1
      <4>1. F[k] = Append(<<>>, Command) /\ F[k - 1] = <<>>
        BY <3>2
      <4> QED BY <1>1, <3>2, <4>1
    <3> QED BY <3>1, <3>2
  <2> QED BY <2>1
<1>3. WithoutCR(s) = KeptFn(s)[1]
  BY <1>1 DEF WithoutCR, KeptFn
<1>4. Eq(KeptFn(s))
  <2>1. KeptFn(s) = CHOOSE f : Eq(f)
    BY <1>1 DEF KeptFn
  <2> HIDE DEF Eq
  <2> QED BY <1>2, <2>1
<1>5. \A f : Eq(f) => f[0] = <<>> /\ f[1] = Append(<<>>, Command)
  <2> SUFFICES ASSUME NEW f, Eq(f) PROVE f[0] = <<>> /\ f[1] = Append(<<>>, Command)
    OBVIOUS
  <2>1. \A k \in 0..1 : f[k] = IF k = 0 THEN <<>>
                           ELSE IF s[k] = CR THEN f[k - 1] ELSE Append(f[k - 1], s[k])
    OBVIOUS
  <2> HIDE DEF Eq, s
  <2>2. f[0] = <<>>
    BY <2>1
  <2>3. f[1] = Append(f[0], s[1])
    <3>1. 1 \in 0..1 /\ 1 - 1 = 0 /\ 1 # 0 /\ s[1] # CR
      BY <1>1
    <3>2. f[1] = IF 1 = 0 THEN <<>> ELSE IF s[1] = CR THEN f[1 - 1] ELSE Append(f[1 - 1], s[1])
      BY Zenon, <2>1, <3>1
    <3> QED BY Zenon, <3>1, <3>2
  <2> QED BY <1>1, <2>2, <2>3
<1>6. KeptFn(s)[1] = Append(<<>>, Command)
  <2> HIDE DEF Eq
  <2> QED BY <1>4, <1>5
<1>7. Append(<<>>, Command) = <<Command>>
  OBVIOUS
<1> QED
  BY <1>3, <1>6, <1>7

LEMMA LineEndIs ==
    ASSUME TypeInv, \E k \in (rd + 1)..Len(wire) : wire[k] = NL
    PROVE  /\ LineEnd \in (rd + 1)..Len(wire) /\ wire[LineEnd] = NL
           /\ \A m \in (rd + 1)..(LineEnd - 1) : wire[m] # NL
<1> DEFINE T == {k \in (rd + 1)..Len(wire) : wire[k] = NL}
<1>0. rd \in Nat /\ Len(wire) \in Nat
  <2>1. wire \in Seq(Chars) /\ rd \in 0..Len(wire)
    BY DEF TypeInv
  <2>2. Len(wire) \in Nat
    BY <2>1
  <2> QED BY <2>1, <2>2
<1>1. PICK k \in T : \A m \in T : k <= m
  <2>1. T \in SUBSET Nat /\ T # {}
    BY <1>0
  <2> HIDE DEF T
  <2> QED BY <2>1, LeastNatural
<1>2. \A m \in (rd + 1)..(k - 1) : wire[m] # NL
  <2> TAKE m \in (rd + 1)..(k - 1)
  <2>1. m \in (rd + 1)..Len(wire) /\ ~(k <= m)
    BY <1>0
  <2> QED BY <1>1, <2>1
<1>3. \E x \in (rd + 1)..Len(wire) : wire[x] = NL /\ \A m \in (rd + 1)..(x - 1) : wire[m] # NL
  BY <1>2
<1> QED
  BY <1>3 DEF LineEnd

-----------------------------------------------------------------------------
(* The invariant. *)

LEMMA InitInv == Init => Inv
<1> SUFFICES ASSUME Init PROVE Inv
  OBVIOUS
<1>1. file \in Seq(Bytes)
  <2>1. PICK n \in 0..MaxFile : file \in [1..n -> Sample]
    BY DEF Init, Files
  <2>2. n \in Nat /\ Sample \subseteq Bytes
    BY ConstantsAssumption
  <2>3. file \in [1..n -> Bytes]
    BY <2>1, <2>2
  <2> QED BY <2>2, <2>3, SeqDef
<1>2. Len(file) \in Nat /\ Len(<<>>) = 0 /\ <<>> \in Seq(Chars)
  BY <1>1
<1>3. TypeInv
  BY <1>1, <1>2 DEF Init, TypeInv
<1>4. DataLen = 0
  BY <1>2 DEF DataLen, Init
<1>5. Kept
  <2>1. SubSeq(file, 1, 0) = <<>>
    BY <1>1, SubSeqEmpty
  <2> QED BY <1>2, <2>1 DEF Init, Kept
<1>6. Ended
  BY DEF Init, Ended
<1>7. Framed
  <2> DEFINE R == {<<0, 0>>}
  <2>1. Cuts(R, wire, file, Eol, 0, 0)
    BY DEF Cuts
  <2>2. rd = 0 /\ Len(copy) = 0 /\ off = 0 /\ getpc = "get"
    BY <1>2 DEF Init
  <2>3. Cuts(R, wire, file, Eol, DataLen, off) /\ <<rd, Len(copy)>> \in R
    BY <1>4, <2>1, <2>2
  <2> HIDE DEF R
  <2>4. DataLen \in Nat /\ getpc # "done"
    BY <1>4, <2>2
  <2> QED BY <2>2, <2>3, <2>4 DEF Framed
<1> QED
  BY <1>3, <1>5, <1>6, <1>7 DEF Inv

\* What the invariant says of types, in one place.
Typed ==
    /\ file \in Seq(Bytes) /\ telnet \in BOOLEAN /\ off \in 0..Len(file) /\ off \in Nat
    /\ Len(file) \in Nat /\ wire \in Seq(Chars) /\ Len(wire) \in Nat
    /\ rd \in 0..Len(wire) /\ rd \in Nat
    /\ getpc \in {"get", "type", "done"} /\ DataLen \in Nat
    /\ Eol \in Seq(Chars) /\ Len(Eol) = EolLen /\ EolLen \in {1, 2}

LEMMA InvTyped ==
    ASSUME Inv PROVE Typed
<1>1. /\ file \in Seq(Bytes) /\ telnet \in BOOLEAN /\ off \in 0..Len(file)
      /\ wire \in Seq(Chars) /\ rd \in 0..Len(wire) /\ getpc \in {"get", "type", "done"}
      /\ DataLen \in Nat
  BY DEF Inv, TypeInv, Framed
<1>2. Len(file) \in Nat /\ Len(wire) \in Nat
  BY <1>1
<1>3. Eol \in Seq(Chars) /\ Len(Eol) = EolLen /\ EolLen \in {1, 2}
  BY <1>1, EolIs
<1> QED BY <1>1, <1>2, <1>3 DEF Typed

\* Places cut so far, and what put has read of them.
LEMMA InvCuts ==
    ASSUME Inv
    PROVE  \E R : /\ Cutting(R, wire, file, DataLen, off)
                  /\ whole /\ pc = "put" => <<rd, Len(copy)>> \in R
<1>1. Typed
  BY InvTyped
<1>2. PICK R : /\ Cuts(R, wire, file, Eol, DataLen, off)
               /\ whole /\ pc = "put" => <<rd, Len(copy)>> \in R
  BY DEF Inv, Framed
<1>3. Cutting(R, wire, file, DataLen, off)
  BY <1>1, <1>2 DEF Typed, Cutting
<1> QED BY <1>2, <1>3

\* More on the wire, for whoever has not read it.
LEMMA SentOn ==
    ASSUME Inv, NEW s \in Seq(Chars), wire' = wire \o s,
           UNCHANGED <<file, telnet, rd, pc, copy, end, whole, ran>>,
           off' \in 0..Len(file), getpc' \in {"get", "type", "done"},
           DataLen' \in Nat, getpc # "get" => DataLen' = DataLen /\ getpc' # "get",
           getpc = "done" => wire' = wire /\ getpc' = "done"
    PROVE  TypeInv' /\ Kept' /\ Ended' /\ Eol' = Eol /\ EolLen' = EolLen
<1>1. Typed
  BY InvTyped
<1>2. wire' \in Seq(Chars) /\ Len(wire') = Len(wire) + Len(s) /\ Len(s) \in Nat
  BY <1>1, ConcatProperties DEF Typed
<1>3. rd' \in 0..Len(wire')
  BY <1>1, <1>2 DEF Typed
<1>4. TypeInv'
  BY <1>1, <1>2, <1>3 DEF Typed, Inv, TypeInv
<1>5. Kept'
  BY DEF Inv, Kept
<1>6. Eol' = Eol /\ EolLen' = EolLen
  BY DEF Eol, EolLen
<1>7. Ended'
  <2>1. Ended
    BY DEF Inv
  <2>2. CASE whole /\ end = "dot"
    <3>1. /\ copy = file /\ ~telnet /\ getpc # "get"
          /\ \/ ran = <<>> /\ rd = DataLen + 2
             \/ ran = <<<<Command>>>> /\ getpc = "done" /\ rd = Len(wire)
      BY <2>1, <2>2 DEF Ended
    <3>2. /\ copy' = file' /\ ~telnet' /\ getpc' # "get"
          /\ \/ ran' = <<>> /\ rd' = DataLen' + 2
             \/ ran' = <<<<Command>>>> /\ getpc' = "done" /\ rd' = Len(wire')
      BY <3>1
    <3> QED BY <2>1, <3>2 DEF Ended
  <2>3. CASE ~(whole /\ end = "dot")
    BY <2>1, <2>3 DEF Ended
  <2> QED BY <2>2, <2>3
<1> QED
  BY <1>4, <1>5, <1>6, <1>7

LEMMA GetBlockInv ==
    ASSUME Inv, NEW n \in 1..GetBuf, GetBlock(n)
    PROVE  Inv'
<1> DEFINE s == DataLine(file, Eol, off, n)
           in == SubSeq(file, off + 1, off + n)
           t == EncodeBlock(in)
<1>1. Typed
  BY InvTyped
<1>2. /\ getpc = "get" /\ off + n <= Len(file) /\ wire' = wire \o t \o Eol /\ off' = off + n
      /\ getpc' = "get" /\ UNCHANGED <<file, telnet, rd, pc, copy, end, whole, ran>>
  BY DEF GetBlock
<1>3. n \in Nat \ {0}
  BY ConstantsAssumption
<1>4. IsBlock(file, off, n, in, t)
  BY <1>1, <1>2, <1>3, BlockIs DEF Typed
<1>5. s \in Seq(Chars)
  BY <1>1, <1>2, <1>3, DataLineIs DEF Typed
<1>6. s = t \o Eol
  BY DEF DataLine
<1> HIDE DEF s, t, in
<1>7. wire' = wire \o s
  <2>1. wire \in Seq(Chars) /\ t \in Seq(Chars) /\ Eol \in Seq(Chars)
    BY <1>1, <1>4 DEF IsBlock, Typed
  <2>2. (wire \o t) \o Eol = wire \o (t \o Eol)
    BY <2>1, ConcatAssociative
  <2> QED BY <1>2, <1>6, <2>2
<1>8. DataLen = Len(wire) /\ DataLen' = Len(wire')
  <2>1. wire' \in Seq(Chars)
    BY <1>1, <1>5, <1>7, ConcatProperties DEF Typed
  <2>2. Len(wire') \in Nat
    BY <2>1
  <2> QED BY <1>1, <1>2, <2>2 DEF DataLen, Typed
<1>9. Len(wire \o s) \in Nat
  <2>1. wire \o s \in Seq(Chars)
    BY <1>1, <1>5, ConcatProperties DEF Typed
  <2> QED BY <2>1
<1>10. TypeInv' /\ Kept' /\ Ended' /\ Eol' = Eol /\ EolLen' = EolLen
  <2>1. off' \in 0..Len(file)
    BY <1>1, <1>2, <1>3 DEF Typed
  <2> QED BY <1>2, <1>5, <1>7, <1>8, <1>9, <2>1, SentOn
<1>11. Framed'
  <2>1. PICK R : /\ Cutting(R, wire, file, DataLen, off)
                 /\ whole /\ pc = "put" => <<rd, Len(copy)>> \in R
    BY InvCuts
  <2> DEFINE Q == R \cup {<<Len(wire \o s), off + n>>}
  <2>2. Cutting(Q, wire \o s, file, Len(wire \o s), off + n)
    <3>1. Cutting(R, wire, file, Len(wire), off)
      BY <1>8, <2>1
    <3> QED BY <1>1, <1>2, <3>1, OneMoreLine DEF Typed, s
  <2>3. whole /\ pc = "put" => <<rd, Len(copy)>> \in Q
    BY <2>1
  <2> HIDE DEF Q
  <2>4. Cuts(Q, wire', file', Eol', DataLen', off')
    BY <1>2, <1>7, <1>8, <1>10, <2>2 DEF Cutting
  <2>5. whole' /\ pc' = "put" => <<rd', Len(copy')>> \in Q
    BY <1>2, <2>3
  <2>6. DataLen' \in Nat /\ getpc' = "get"
    BY <1>2, <1>7, <1>8, <1>9
  <2>7. /\ getpc' # "get" => off' = Len(file') /\ HoldsAt(wire', DataLen', <<Dot>> \o Eol')
        /\ getpc' = "done" => HoldsAt(wire', DataLen' + 1 + EolLen', <<Command>> \o Eol')
    BY <2>6
  <2> QED BY <2>4, <2>5, <2>6, <2>7 DEF Framed
<1> QED
  BY <1>10, <1>11 DEF Inv

\* The dot, and the command, are sent as lines of their own.
LEMMA CharSent ==
    ASSUME Inv, NEW c \in Chars, c # NL, NEW w, w = wire \o <<c>> \o Eol
    PROVE  /\ <<c>> \o Eol \in Seq(Chars) /\ w = wire \o (<<c>> \o Eol)
           /\ Len(<<c>> \o Eol) = 1 + EolLen
           /\ Len(w) = Len(wire) + 1 + EolLen
           /\ HoldsAt(w, Len(wire), <<c>> \o Eol)
<1> DEFINE x == <<c>>
           s == x \o Eol
<1>1. Typed
  BY InvTyped
<1>2. x \in Seq(Chars) /\ Len(x) = 1
  OBVIOUS
<1> HIDE DEF x
<1>3. s \in Seq(Chars) /\ Len(s) = 1 + EolLen
  <2>1. Eol \in Seq(Chars) /\ Len(Eol) = EolLen
    BY <1>1 DEF Typed
  <2>2. x \o Eol \in Seq(Chars) /\ Len(x \o Eol) = Len(x) + Len(Eol)
    BY <1>2, <2>1, ConcatProperties
  <2> QED BY <1>2, <2>1, <2>2
<1>4. (wire \o x) \o Eol = wire \o s
  <2>1. Eol \in Seq(Chars) /\ wire \in Seq(Chars)
    BY <1>1 DEF Typed
  <2>2. (wire \o x) \o Eol = wire \o (x \o Eol)
    BY <1>2, <2>1, ConcatAssociative
  <2> QED BY <2>2
<1> HIDE DEF s
<1>5. Len(wire \o s) = Len(wire) + Len(s)
  BY <1>1, <1>3, ConcatProperties DEF Typed
<1>6. HoldsAt(wire \o s, Len(wire), s)
  BY <1>1, <1>3, HoldsLast DEF Typed
<1>7. w = wire \o s
  BY <1>4 DEF x
<1>8. Len(wire) + Len(s) = Len(wire) + 1 + EolLen
  BY <1>1, <1>3 DEF Typed
<1> QED
  BY <1>3, <1>5, <1>6, <1>7, <1>8 DEF s, x

LEMMA GetEndInv ==
    ASSUME Inv, GetEnd
    PROVE  Inv'
<1> DEFINE s == <<Dot>> \o Eol
<1>1. Typed
  BY InvTyped
<1>2. /\ getpc = "get" /\ off = Len(file) /\ wire' = wire \o <<Dot>> \o Eol /\ getpc' = "type"
      /\ UNCHANGED <<file, telnet, off, rd, pc, copy, end, whole, ran>>
  BY DEF GetEnd
<1>3. Dot \in Chars /\ Dot # NL
  BY DEF Dot, Chars, NL
<1>4. /\ s \in Seq(Chars) /\ wire' = wire \o s /\ Len(wire') = Len(wire) + 1 + EolLen
      /\ HoldsAt(wire', Len(wire), s)
  BY <1>2, <1>3, CharSent
<1> HIDE DEF s
<1>5. DataLen = Len(wire) /\ DataLen' = Len(wire)
  <2>1. EolLen' = EolLen
    BY <1>2 DEF EolLen
  <2>2. DataLen = Len(wire) - 0 /\ DataLen' = Len(wire') - (1 + EolLen)
    BY <1>2, <2>1 DEF DataLen
  <2> QED BY <1>1, <1>4, <2>2 DEF Typed
<1>6. TypeInv' /\ Kept' /\ Ended' /\ Eol' = Eol /\ EolLen' = EolLen
  BY <1>1, <1>2, <1>4, <1>5, SentOn DEF Typed
<1>7. Framed'
  <2>1. PICK R : /\ Cutting(R, wire, file, DataLen, off)
                 /\ whole /\ pc = "put" => <<rd, Len(copy)>> \in R
    BY InvCuts
  <2>2. Cutting(R, wire \o s, file, DataLen, off)
    BY <1>1, <1>4, <2>1, CutsOn DEF Typed
  <2>3. Cuts(R, wire', file', Eol', DataLen', off')
    BY <1>2, <1>4, <1>5, <1>6, <2>2 DEF Cutting
  <2>4. whole' /\ pc' = "put" => <<rd', Len(copy')>> \in R
    BY <1>2, <2>1
  <2>5. DataLen' \in Nat /\ getpc' = "type"
    BY <1>1, <1>2, <1>5 DEF Typed
  <2>6. off' = Len(file') /\ HoldsAt(wire', DataLen', <<Dot>> \o Eol')
    BY <1>2, <1>4, <1>5, <1>6 DEF s
  <2>7. getpc' # "done"
    BY <2>5
  <2> QED BY <2>3, <2>4, <2>5, <2>6, <2>7 DEF Framed
<1> QED
  BY <1>6, <1>7 DEF Inv

LEMMA TypeCommandInv ==
    ASSUME Inv, TypeCommand
    PROVE  Inv'
<1> DEFINE s == <<Command>> \o Eol
           d == <<Dot>> \o Eol
<1>1. Typed
  BY InvTyped
<1>2. /\ getpc = "type" /\ wire' = wire \o <<Command>> \o Eol /\ getpc' = "done"
      /\ UNCHANGED <<file, telnet, off, rd, pc, copy, end, whole, ran>>
  BY DEF TypeCommand
<1>3. Command \in Chars /\ Command # NL
  BY DEF Command, Chars, NL
<1>4. /\ s \in Seq(Chars) /\ wire' = wire \o s /\ Len(wire') = Len(wire) + 1 + EolLen
      /\ HoldsAt(wire', Len(wire), s)
  BY <1>2, <1>3, CharSent
<1>5. off = Len(file) /\ HoldsAt(wire, DataLen, d)
  BY <1>2 DEF Inv, Framed
<1>6. Len(d) \in Nat
  <2>1. Dot \in Chars /\ Dot # NL
    BY DEF Dot, Chars, NL
  <2>2. Len(d) = 1 + EolLen
    BY <2>1, CharSent
  <2> QED BY <1>1, <2>2 DEF Typed
<1> HIDE DEF s, d
<1>7. DataLen = Len(wire) - (1 + EolLen) /\ DataLen' = DataLen
  <2>1. EolLen' = EolLen
    BY <1>2 DEF EolLen
  <2>2. DataLen = Len(wire) - (1 + EolLen) /\ DataLen' = Len(wire') - 2 * (1 + EolLen)
    BY <1>2, <2>1 DEF DataLen
  <2> QED BY <1>1, <1>4, <2>2 DEF Typed
<1>8. TypeInv' /\ Kept' /\ Ended' /\ Eol' = Eol /\ EolLen' = EolLen
  <2>1. off' \in 0..Len(file) /\ DataLen' \in Nat
    BY <1>1, <1>2, <1>7 DEF Typed
  <2> QED BY <1>2, <1>4, <1>7, <2>1, SentOn
<1>9. Framed'
  <2>1. PICK R : /\ Cutting(R, wire, file, DataLen, off)
                 /\ whole /\ pc = "put" => <<rd, Len(copy)>> \in R
    BY InvCuts
  <2>2. Cutting(R, wire \o s, file, DataLen, off)
    BY <1>1, <1>4, <2>1, CutsOn DEF Typed
  <2>3. Cuts(R, wire', file', Eol', DataLen', off')
    BY <1>2, <1>4, <1>7, <1>8, <2>2 DEF Cutting
  <2>4. whole' /\ pc' = "put" => <<rd', Len(copy')>> \in R
    BY <1>2, <2>1
  <2>5. DataLen' \in Nat /\ getpc' = "done"
    BY <1>1, <1>2, <1>7 DEF Typed
  <2>6. off' = Len(file') /\ HoldsAt(wire', DataLen', <<Dot>> \o Eol')
    <3>1. HoldsAt(wire \o s, DataLen, d)
      BY <1>1, <1>4, <1>5, <1>6, HoldsOn DEF Typed
    <3> QED BY <1>2, <1>4, <1>5, <1>7, <1>8, <3>1 DEF d
  <2>7. HoldsAt(wire', DataLen' + 1 + EolLen', <<Command>> \o Eol')
    <3>1. DataLen + 1 + EolLen = Len(wire)
      BY <1>1, <1>7 DEF Typed
    <3> QED BY <1>4, <1>7, <1>8, <3>1 DEF s
  <2> QED BY <2>3, <2>4, <2>5, <2>6, <2>7 DEF Framed
<1> QED
  BY <1>8, <1>9 DEF Inv

\* What is sent stays as it is when something is read.
LEMMA ReadOn ==
    ASSUME Inv, UNCHANGED sender,
           \E R : /\ Cutting(R, wire, file, DataLen, off)
                  /\ whole' /\ pc' = "put" => <<rd', Len(copy')>> \in R
    PROVE  Framed' /\ DataLen' = DataLen
<1>1. UNCHANGED <<file, telnet, off, getpc, wire>>
  BY DEF sender
<1>2. EolLen' = EolLen /\ Eol' = Eol
  BY <1>1 DEF EolLen, Eol
<1>3. DataLen' = DataLen
  BY <1>1, <1>2 DEF DataLen
<1>4. PICK R : /\ Cutting(R, wire, file, DataLen, off)
               /\ whole' /\ pc' = "put" => <<rd', Len(copy')>> \in R
  OBVIOUS
<1>5. Cuts(R, wire', file', Eol', DataLen', off')
  BY <1>1, <1>2, <1>3, <1>4 DEF Cutting
<1>6. /\ DataLen \in Nat
      /\ getpc # "get" => off = Len(file) /\ HoldsAt(wire, DataLen, <<Dot>> \o Eol)
      /\ getpc = "done" => HoldsAt(wire, DataLen + 1 + EolLen, <<Command>> \o Eol)
  BY DEF Inv, Framed
<1>7. /\ DataLen' \in Nat
      /\ getpc' # "get" => off' = Len(file') /\ HoldsAt(wire', DataLen', <<Dot>> \o Eol')
      /\ getpc' = "done" => HoldsAt(wire', DataLen' + 1 + EolLen', <<Command>> \o Eol')
  BY <1>1, <1>2, <1>3, <1>6
<1> QED
  BY <1>3, <1>4, <1>5, <1>7 DEF Framed

LEMMA HangupInv ==
    ASSUME Inv, Hangup
    PROVE  Inv'
<1>1. /\ pc # "closed" /\ pc' = "closed" /\ end' = (IF pc = "put" THEN "eof" ELSE end)
      /\ UNCHANGED <<file, telnet, off, getpc, wire, rd, copy, whole, ran>> /\ UNCHANGED sender
  BY DEF Hangup, sender
<1>2. Framed' /\ DataLen' = DataLen
  <2>1. pc' # "put"
    BY <1>1
  <2> QED BY <1>1, <2>1, InvCuts, ReadOn
<1>3. TypeInv'
  BY <1>1 DEF Inv, TypeInv
<1>4. Kept'
  BY <1>1 DEF Inv, Kept
<1>5. Ended'
  BY <1>1, <1>2 DEF Inv, Ended, TypeInv
<1> QED
  BY <1>2, <1>3, <1>4, <1>5 DEF Inv

LEMMA InterruptedInv ==
    ASSUME Inv, Interrupted
    PROVE  Inv'
<1>1. /\ UNCHANGED <<file, telnet, off, getpc, wire, rd, copy, whole, ran>> /\ UNCHANGED sender
      /\ \/ pc = "put" /\ pc' = "prompt" /\ end' = "interrupted"
         \/ pc = "prompt" /\ pc' = "closed" /\ end' = end
  BY DEF Interrupted, PutEnds, sender
<1>2. Framed' /\ DataLen' = DataLen
  <2>1. pc' # "put"
    BY <1>1
  <2> QED BY <1>1, <2>1, InvCuts, ReadOn
<1>3. TypeInv'
  BY <1>1 DEF Inv, TypeInv
<1>4. Kept'
  BY <1>1 DEF Inv, Kept
<1>5. Ended'
  BY <1>1, <1>2 DEF Inv, Ended, TypeInv
<1> QED
  BY <1>2, <1>3, <1>4, <1>5 DEF Inv

\* The copy stays a beginning of the file with each beginning of b.
GrowsBy(b, m) ==
    \A j \in 0..m : /\ copy \o SubSeq(b, 1, j) = SubSeq(file, 1, Len(copy) + j)
                    /\ Len(copy \o SubSeq(b, 1, j)) = Len(copy) + j

\* What a read() in put does to the copy, unless it is not of one line.
LEMMA PutReads ==
    ASSUME Inv, pc = "put", whole, NEW n, WholeRead(wire, rd, n),
           NEW text, text = UpToNewline(SubSeq(wire, rd + 1, rd + n))
    PROVE  \E R : Cutting(R, wire, file, DataLen, off) /\
              \/ telnet /\ text # <<Dot>> /\ ~Decodable(text)
              \/ /\ ~telnet /\ text = <<Dot>> /\ getpc # "get"
                 /\ rd + n = DataLen + 2 /\ copy = file
              \/ /\ ~telnet /\ text # <<Dot>> /\ Decodable(text)
                 /\ \E m \in Nat \ {0} :
                       /\ Len(copy) + m <= Len(file) /\ Len(DecodeBlock(text)) = m
                       /\ DecodeBlock(text) \in Seq(Bytes)
                       /\ copy \o DecodeBlock(text) = SubSeq(file, 1, Len(copy) + m)
                       /\ Len(copy \o DecodeBlock(text)) = Len(copy) + m
                       /\ GrowsBy(DecodeBlock(text), m)
                       /\ <<rd + n, Len(copy) + m>> \in R
<1>1. Typed
  BY InvTyped
<1>2. PICK R : Cutting(R, wire, file, DataLen, off) /\ <<rd, Len(copy)>> \in R
  BY InvCuts
<1>3. Len(copy) \in 0..Len(file) /\ copy = SubSeq(file, 1, Len(copy))
  BY DEF Inv, Kept
<1>4. Cuts(R, wire, file, Eol, DataLen, off)
  BY <1>2 DEF Cutting
<1>5. \/ telnet /\ text # <<Dot>> /\ ~Decodable(text)
      \/ /\ ~telnet /\ text = <<Dot>> /\ getpc # "get"
         /\ rd + n = DataLen + 2 /\ Len(copy) = Len(file)
      \/ /\ ~telnet /\ text # <<Dot>> /\ Decodable(text)
         /\ \E m \in Nat \ {0} :
               /\ Len(copy) + m <= Len(file)
               /\ DecodeBlock(text) = SubSeq(file, Len(copy) + 1, Len(copy) + m)
               /\ <<rd + n, Len(copy) + m>> \in R
  BY <1>2, <1>4, TextInPut DEF Inv
<1>6. CASE telnet /\ text # <<Dot>> /\ ~Decodable(text)
  BY <1>2, <1>6
<1>7. CASE /\ ~telnet /\ text = <<Dot>> /\ getpc # "get"
           /\ rd + n = DataLen + 2 /\ Len(copy) = Len(file)
  <2>1. SubSeq(file, 1, Len(file)) = file
    BY <1>1, SubSeqFull DEF Typed
  <2>2. copy = file
    BY <1>3, <1>7, <2>1
  <2> QED BY <1>2, <1>7, <2>2
<1>8. CASE /\ ~telnet /\ text # <<Dot>> /\ Decodable(text)
           /\ \E m \in Nat \ {0} :
                 /\ Len(copy) + m <= Len(file)
                 /\ DecodeBlock(text) = SubSeq(file, Len(copy) + 1, Len(copy) + m)
                 /\ <<rd + n, Len(copy) + m>> \in R
  <2>1. PICK m \in Nat \ {0} :
                 /\ Len(copy) + m <= Len(file)
                 /\ DecodeBlock(text) = SubSeq(file, Len(copy) + 1, Len(copy) + m)
                 /\ <<rd + n, Len(copy) + m>> \in R
    BY <1>8
  <2> DEFINE c == Len(copy)
             b == DecodeBlock(text)
             G(j) == copy \o SubSeq(b, 1, j) = SubSeq(file, 1, c + j)
                     /\ Len(SubSeq(file, 1, c + j)) = c + j
  <2>2. file \in Seq(Bytes) /\ c \in Nat /\ m \in Nat /\ Len(file) \in Nat
    BY <1>1, <1>3 DEF Typed
  <2>3. \A j \in 0..m : G(j)
    <3> HIDE DEF c, b
    <3>1. /\ c <= Len(file) /\ c + m <= Len(file) /\ copy = SubSeq(file, 1, c)
          /\ b = SubSeq(file, c + 1, c + m)
      BY <1>3, <2>1, <2>2 DEF c, b
    <3> QED BY <2>2, <3>1, CopyGrows
  <2>4. IsBlock(file, c, m, b, EncodeBlock(b))
    BY <2>1, <2>2, BlockIs
  <2>5. b \in Seq(Bytes) /\ Len(b) = m
    BY <2>4 DEF IsBlock
  <2> HIDE DEF c, b
  <2>6. SubSeq(b, 1, m) = b
    BY <2>5, SubSeqFull
  <2>7. copy \o b = SubSeq(file, 1, c + m) /\ Len(copy \o b) = c + m
    <3>1. m \in 0..m
      OBVIOUS
    <3> QED BY <2>3, <2>6, <3>1
  <2>8. \A j \in 0..m : /\ copy \o SubSeq(b, 1, j) = SubSeq(file, 1, c + j)
                         /\ Len(copy \o SubSeq(b, 1, j)) = c + j
    BY <2>3
  <2>9. GrowsBy(b, m)
    BY <2>8 DEF c, GrowsBy
  <2> QED BY <1>2, <1>8, <2>1, <2>5, <2>7, <2>9 DEF c, b
<1> QED
  BY <1>5, <1>6, <1>7, <1>8

\* A read() in put is of some characters that have arrived.
LEMMA PutTypes ==
    ASSUME Inv, NEW n \in 1..(PutBuf - 1), rd + n <= Len(wire)
    PROVE  /\ n \in Nat \ {0} /\ rd + n \in 0..Len(wire)
           /\ IsWholeLine(SubSeq(wire, rd + 1, rd + n)) => WholeRead(wire, rd, n)
<1>1. Typed
  BY InvTyped
<1>2. PutBuf \in Nat
  BY ConstantsAssumption
<1>3. n \in Nat \ {0}
  BY <1>2
<1> QED
  BY <1>1, <1>3 DEF Typed, WholeRead

LEMMA PutReadInv ==
    ASSUME Inv, NEW n \in 1..(PutBuf - 1), PutRead(n)
    PROVE  Inv'
<1> DEFINE seg  == SubSeq(wire, rd + 1, rd + n)
           text == UpToNewline(seg)
<1>1. Typed
  BY InvTyped
<1>2. /\ pc = "put" /\ rd + n <= Len(wire) /\ rd' = rd + n
      /\ whole' = (whole /\ IsWholeLine(seg))
      /\ UNCHANGED <<file, telnet, off, getpc, wire, ran>> /\ UNCHANGED sender
  BY DEF PutRead, sender
<1>3. \/ text = <<Dot>> /\ pc' = "prompt" /\ end' = "dot" /\ copy' = copy
      \/ text # <<Dot>> /\ ~Decodable(text) /\ pc' = "prompt" /\ end' = "decode error" /\ copy' = copy
      \/ text # <<Dot>> /\ Decodable(text) /\ copy' = copy \o DecodeBlock(text) /\ pc' = pc /\ end' = end
  BY DEF PutRead, PutEnds
<1>4. /\ n \in Nat \ {0} /\ rd + n \in 0..Len(wire)
      /\ IsWholeLine(seg) => WholeRead(wire, rd, n)
  BY <1>2, PutTypes
<1>5. end = "none" /\ ran = <<>>
  BY <1>2 DEF Inv, Ended
<1> HIDE DEF seg, text
<1>6. TypeInv'
  <2>1. TypeInv
    BY DEF Inv
  <2>2. whole' \in BOOLEAN
    BY <1>2, <2>1 DEF TypeInv
  <2>3. rd' \in 0..Len(wire')
    BY <1>2, <1>4
  <2>4. /\ pc' \in {"put", "prompt", "closed"}
        /\ end' \in {"none", "dot", "decode error", "write error", "interrupted", "eof"}
    BY <1>2, <1>3, <1>5
  <2> QED BY <1>2, <2>1, <2>2, <2>3, <2>4 DEF TypeInv
<1>7. CASE ~whole'
  <2>1. Framed' /\ DataLen' = DataLen
    BY <1>2, <1>7, InvCuts, ReadOn
  <2>2. Kept'
    BY <1>7 DEF Kept
  <2>3. Ended'
    BY <1>2, <1>3, <1>5, <1>7 DEF Ended
  <2> QED BY <1>6, <2>1, <2>2, <2>3 DEF Inv
<1>8. CASE whole'
  <2>0. whole /\ WholeRead(wire, rd, n)
    BY <1>2, <1>4, <1>8
  <2>1. PICK R : Cutting(R, wire, file, DataLen, off) /\
              \/ telnet /\ text # <<Dot>> /\ ~Decodable(text)
              \/ /\ ~telnet /\ text = <<Dot>> /\ getpc # "get"
                 /\ rd + n = DataLen + 2 /\ copy = file
              \/ /\ ~telnet /\ text # <<Dot>> /\ Decodable(text)
                 /\ \E m \in Nat \ {0} :
                       /\ Len(copy) + m <= Len(file) /\ Len(DecodeBlock(text)) = m
                       /\ copy \o DecodeBlock(text) = SubSeq(file, 1, Len(copy) + m)
                       /\ Len(copy \o DecodeBlock(text)) = Len(copy) + m
                       /\ <<rd + n, Len(copy) + m>> \in R
    <3>1. text = UpToNewline(SubSeq(wire, rd + 1, rd + n))
      BY DEF text, seg
    <3> QED BY <1>2, <2>0, <3>1, PutReads
  <2>2. Len(copy) \in 0..Len(file) /\ copy = SubSeq(file, 1, Len(copy))
    BY <2>0 DEF Inv, Kept
  <2>3. CASE telnet /\ text # <<Dot>> /\ ~Decodable(text)
    <3>1. pc' = "prompt" /\ end' = "decode error" /\ copy' = copy
      BY <1>3, <2>3
    <3>2. Framed' /\ DataLen' = DataLen
      BY <1>2, <2>1, <3>1, ReadOn
    <3>3. Kept'
      BY <1>2, <2>2, <3>1 DEF Kept
    <3>4. Ended'
      BY <1>2, <2>3, <3>1 DEF Ended
    <3> QED BY <1>6, <3>2, <3>3, <3>4 DEF Inv
  <2>4. CASE /\ ~telnet /\ text = <<Dot>> /\ getpc # "get"
             /\ rd + n = DataLen + 2 /\ copy = file
    <3>1. pc' = "prompt" /\ end' = "dot" /\ copy' = copy
      BY <1>3, <2>4
    <3>2. Framed' /\ DataLen' = DataLen
      BY <1>2, <2>1, <3>1, ReadOn
    <3>3. Kept'
      BY <1>2, <2>2, <3>1 DEF Kept
    <3>4. copy' = file' /\ ~telnet' /\ getpc' # "get" /\ ran' = <<>> /\ rd' = DataLen' + 2
      BY <1>2, <1>5, <2>4, <3>1, <3>2
    <3>5. Ended'
      BY <3>1, <3>4 DEF Ended
    <3> QED BY <1>6, <3>2, <3>3, <3>5 DEF Inv
  <2>5. CASE /\ ~telnet /\ text # <<Dot>> /\ Decodable(text)
             /\ \E m \in Nat \ {0} :
                   /\ Len(copy) + m <= Len(file) /\ Len(DecodeBlock(text)) = m
                   /\ copy \o DecodeBlock(text) = SubSeq(file, 1, Len(copy) + m)
                   /\ Len(copy \o DecodeBlock(text)) = Len(copy) + m
                   /\ <<rd + n, Len(copy) + m>> \in R
    <3>1. PICK m \in Nat \ {0} :
                   /\ Len(copy) + m <= Len(file)
                   /\ copy \o DecodeBlock(text) = SubSeq(file, 1, Len(copy) + m)
                   /\ Len(copy \o DecodeBlock(text)) = Len(copy) + m
                   /\ <<rd + n, Len(copy) + m>> \in R
      BY <2>5
    <3>2. copy' = copy \o DecodeBlock(text) /\ pc' = "put" /\ end' = "none"
      BY <1>2, <1>3, <1>5, <2>5
    <3>3. <<rd', Len(copy')>> \in R
      BY <1>2, <3>1, <3>2
    <3>4. Framed' /\ DataLen' = DataLen
      BY <1>2, <2>1, <3>3, ReadOn
    <3>5. Kept'
      <4>1. Len(copy) + m \in 0..Len(file)
        BY <1>1, <2>2, <3>1 DEF Typed
      <4> QED BY <1>2, <3>1, <3>2, <4>1 DEF Kept
    <3>6. Ended'
      BY <1>2, <1>5, <3>2 DEF Ended
    <3> QED BY <1>6, <3>4, <3>5, <3>6 DEF Inv
  <2> QED BY <2>1, <2>3, <2>4, <2>5
<1> QED
  BY <1>7, <1>8

LEMMA PutWriteFailsInv ==
    ASSUME Inv, NEW n \in 1..(PutBuf - 1), PutWriteFails(n)
    PROVE  Inv'
<1> DEFINE seg  == SubSeq(wire, rd + 1, rd + n)
           text == UpToNewline(seg)
<1>1. Typed
  BY InvTyped
<1>2. /\ pc = "put" /\ rd + n <= Len(wire) /\ rd' = rd + n /\ Decodable(text)
      /\ whole' = (whole /\ IsWholeLine(seg)) /\ pc' = "prompt" /\ end' = "write error"
      /\ UNCHANGED <<file, telnet, off, getpc, wire, ran>> /\ UNCHANGED sender
  BY DEF PutWriteFails, PutEnds, sender
<1>3. PICK j \in 0..(Len(DecodeBlock(text)) - 1) :
         copy' = copy \o SubSeq(DecodeBlock(text), 1, j)
  BY DEF PutWriteFails
<1>4. /\ n \in Nat \ {0} /\ rd + n \in 0..Len(wire)
      /\ IsWholeLine(seg) => WholeRead(wire, rd, n)
  BY <1>2, PutTypes
<1> HIDE DEF seg, text
<1>5. TypeInv'
  <2>1. TypeInv
    BY DEF Inv
  <2>2. whole' \in BOOLEAN
    BY <1>2, <2>1 DEF TypeInv
  <2>3. rd' \in 0..Len(wire')
    BY <1>2, <1>4
  <2> QED BY <1>2, <2>1, <2>2, <2>3 DEF TypeInv
<1>6. Framed'
  <2>1. pc' # "put"
    BY <1>2
  <2> QED BY <1>2, <2>1, InvCuts, ReadOn
<1>7. Ended'
  BY <1>2 DEF Ended
<1>8. Kept'
  <2>1. SUFFICES ASSUME whole'
                 PROVE  Len(copy') \in 0..Len(file') /\ copy' = SubSeq(file', 1, Len(copy'))
    BY DEF Kept
  <2>2. whole /\ WholeRead(wire, rd, n)
    BY <1>2, <1>4, <2>1
  <2>3. /\ Decodable(<<Dot>>) = FALSE
    <3>1. Len(<<Dot>>) % 4 = 1
      OBVIOUS
    <3> QED BY <3>1 DEF Decodable
  <2>4. PICK m \in Nat \ {0} :
                   /\ Len(copy) + m <= Len(file) /\ Len(DecodeBlock(text)) = m
                   /\ GrowsBy(DecodeBlock(text), m)
    <3>1. text = UpToNewline(SubSeq(wire, rd + 1, rd + n))
      BY DEF text, seg
    <3>2. text # <<Dot>>
      BY <1>2, <2>3
    <3>3. \E m \in Nat \ {0} :
             /\ Len(copy) + m <= Len(file) /\ Len(DecodeBlock(text)) = m
             /\ GrowsBy(DecodeBlock(text), m)
      BY <1>2, <2>2, <3>1, <3>2, PutReads
    <3> QED BY <3>3
  <2>5. j \in 0..m
    BY <1>3, <2>4
  <2>6. copy' = SubSeq(file, 1, Len(copy) + j) /\ Len(copy') = Len(copy) + j
    BY <1>3, <2>4, <2>5 DEF GrowsBy
  <2>7. Len(copy) \in 0..Len(file)
    BY <2>2 DEF Inv, Kept
  <2>8. Len(copy) + j \in 0..Len(file)
    BY <1>1, <2>4, <2>5, <2>7 DEF Typed
  <2> QED BY <1>2, <2>6, <2>8
<1> QED
  BY <1>5, <1>6, <1>7, <1>8 DEF Inv

\* Behind the dot, the prompt is at the command or at nothing.
LEMMA LineBehindDot ==
    ASSUME Inv, whole, end = "dot", pc = "prompt",
           \E k \in (rd + 1)..Len(wire) : wire[k] = NL
    PROVE  /\ getpc = "done" /\ ran = <<>> /\ LineEnd = Len(wire)
           /\ WithoutCR(SubSeq(wire, rd + 1, LineEnd - 1)) = <<Command>>
<1> DEFINE s == <<Command>> \o Eol
<1>1. Typed
  BY InvTyped
<1>2. /\ copy = file /\ ~telnet /\ getpc # "get"
      /\ \/ ran = <<>> /\ rd = DataLen + 2
         \/ ran = <<<<Command>>>> /\ getpc = "done" /\ rd = Len(wire)
  BY DEF Inv, Ended
<1>3. rd < Len(wire)
  BY <1>1 DEF Typed
<1>4. ran = <<>> /\ rd = DataLen + 2
  BY <1>1, <1>2, <1>3 DEF Typed
<1>5. EolLen = 1 /\ Eol = <<NL>>
  BY <1>2 DEF EolLen, Eol
<1>6. getpc = "done"
  <2>1. CASE getpc = "type"
    <3>1. DataLen = Len(wire) - (1 + EolLen)
      BY <2>1 DEF DataLen
    <3> QED BY <1>1, <1>3, <1>4, <1>5, <3>1 DEF Typed
  <2> QED BY <1>1, <1>2, <2>1 DEF Typed
<1>7. Len(wire) = rd + 2
  <2>1. DataLen = Len(wire) - 2 * (1 + EolLen)
    BY <1>6 DEF DataLen
  <2> QED BY <1>1, <1>4, <1>5, <2>1 DEF Typed
<1>8. HoldsAt(wire, rd, s)
  <2>1. HoldsAt(wire, DataLen + 1 + EolLen, <<Command>> \o Eol)
    BY <1>6 DEF Inv, Framed
  <2>2. DataLen + 1 + EolLen = rd
    BY <1>1, <1>4, <1>5 DEF Typed
  <2> QED BY <2>1, <2>2
<1>9. Command \in Chars /\ NL \in Chars
  BY DEF Command, NL, Chars
<1>10. wire[rd + 1] = Command /\ wire[rd + 2] = NL
  <2>1. Len(s) = 2 /\ s[1] = Command /\ s[2] = NL
    <3> DEFINE a == <<Command>>
               b == <<NL>>
    <3>1. a \in Seq(Chars) /\ b \in Seq(Chars) /\ Len(a) = 1 /\ Len(b) = 1
          /\ a[1] = Command /\ b[1] = NL
      BY <1>9
    <3>2. s = a \o b
      BY <1>5
    <3> HIDE DEF a, b, s
    <3>3. /\ Len(a \o b) = Len(a) + Len(b)
          /\ \A i \in 1..(Len(a) + Len(b)) : (a \o b)[i] = IF i <= Len(a) THEN a[i] ELSE b[i - Len(a)]
      BY <3>1, ConcatProperties
    <3> QED BY <3>1, <3>2, <3>3
  <2> HIDE DEF s
  <2> QED BY <1>8, <2>1 DEF HoldsAt
<1>11. Command # NL
  BY DEF Command, NL
<1>12. LineEnd \in (rd + 1)..Len(wire) /\ wire[LineEnd] = NL
  BY LineEndIs DEF Inv
<1>13. LineEnd = rd + 2
  BY <1>1, <1>7, <1>10, <1>11, <1>12 DEF Typed
<1>14. SubSeq(wire, rd + 1, LineEnd - 1) = <<Command>>
  <2>1. LineEnd - 1 = rd + 1
    BY <1>1, <1>13 DEF Typed
  <2>2. SubSeq(wire, rd + 1, rd + 1) = <<wire[rd + 1]>>
    <3> DEFINE u == SubSeq(wire, rd + 1, rd + 1)
               b == rd + 1
    <3>1. b \in 1..Len(wire) /\ b \in Nat /\ wire \in Seq(Chars)
      BY <1>1, <1>7 DEF Typed
    <3> HIDE DEF b
    <3>2. SubSeq(wire, b, b) = [i \in 1..(b - b + 1) |-> wire[b + i - 1]]
      BY <3>1
    <3>3. b - b + 1 = 1 /\ b + 1 - 1 = b
      BY <3>1
    <3>4. SubSeq(wire, b, b) = <<wire[b]>>
      BY <3>2, <3>3
    <3> QED BY <3>4 DEF b
  <2> QED BY <1>10, <2>1, <2>2
<1> QED
  BY <1>4, <1>6, <1>7, <1>13, <1>14, CommandKept

LEMMA RunLineInv ==
    ASSUME Inv, RunLine
    PROVE  Inv'
<1> DEFINE text == WithoutCR(SubSeq(wire, rd + 1, LineEnd - 1))
<1>1. Typed
  BY InvTyped
<1>2. /\ pc = "prompt" /\ \E k \in (rd + 1)..Len(wire) : wire[k] = NL
      /\ rd' = LineEnd /\ ran' = (IF text = <<>> THEN ran ELSE Append(ran, text))
      /\ UNCHANGED <<file, telnet, off, getpc, wire, pc, copy, end, whole>> /\ UNCHANGED sender
  BY DEF RunLine, sender
<1>3. LineEnd \in (rd + 1)..Len(wire)
  BY <1>2, LineEndIs DEF Inv
<1>4. TypeInv'
  <2>1. TypeInv
    BY DEF Inv
  <2>2. rd' \in 0..Len(wire')
    BY <1>1, <1>2, <1>3 DEF Typed
  <2> QED BY <1>2, <2>1, <2>2 DEF TypeInv
<1>5. Framed' /\ DataLen' = DataLen
  <2>1. pc' # "put"
    BY <1>2
  <2> QED BY <1>2, <2>1, InvCuts, ReadOn
<1>6. Kept'
  BY <1>2 DEF Inv, Kept
<1>7. CASE whole /\ end = "dot"
  <2>1. getpc = "done" /\ ran = <<>> /\ LineEnd = Len(wire) /\ text = <<Command>>
    BY <1>2, <1>7, LineBehindDot
  <2>2. Append(<<>>, <<Command>>) = <<<<Command>>>> /\ <<Command>> # <<>>
    OBVIOUS
  <2>3. ran' = <<<<Command>>>>
    BY <1>2, <2>1, <2>2
  <2>4. copy = file /\ ~telnet
    BY <1>7 DEF Inv, Ended
  <2>5. copy' = file' /\ ~telnet' /\ getpc' = "done" /\ rd' = Len(wire') /\ end' = "dot" /\ pc' = "prompt"
    BY <1>2, <1>7, <2>1, <2>4
  <2>6. Ended'
    BY <2>3, <2>5 DEF Ended
  <2> QED BY <1>4, <1>5, <1>6, <2>6 DEF Inv
<1>8. CASE ~(whole /\ end = "dot")
  <2>1. Ended
    BY DEF Inv
  <2>2. end \notin {"none", "eof"} /\ (whole /\ end = "decode error" => telnet)
    BY <1>2, <2>1 DEF Ended
  <2>3. Ended'
    BY <1>2, <1>8, <2>2 DEF Ended
  <2> QED BY <1>4, <1>5, <1>6, <2>3 DEF Inv
<1> QED
  BY <1>7, <1>8

LEMMA StutterInv ==
    ASSUME Inv, UNCHANGED vars
    PROVE  Inv'
<1>1. UNCHANGED <<file, telnet, off, getpc, wire, rd, pc, copy, end, whole, ran>> /\ UNCHANGED sender
  BY DEF vars, sender
<1>2. Framed' /\ DataLen' = DataLen
  BY <1>1, InvCuts, ReadOn
<1>3. TypeInv' /\ Kept'
  BY <1>1 DEF Inv, TypeInv, Kept
<1>4. Ended'
  BY <1>1, <1>2 DEF Inv, Ended
<1> QED
  BY <1>2, <1>3, <1>4 DEF Inv

LEMMA NextInv == Inv /\ [Next]_vars => Inv'
<1> SUFFICES ASSUME Inv, [Next]_vars PROVE Inv'
  OBVIOUS
<1>1. ASSUME NEW n \in 1..GetBuf, GetBlock(n) PROVE Inv'
  BY <1>1, GetBlockInv
<1>2. CASE GetEnd
  BY <1>2, GetEndInv
<1>3. CASE TypeCommand
  BY <1>3, TypeCommandInv
<1>4. ASSUME NEW n \in 1..(PutBuf - 1), PutRead(n) PROVE Inv'
  BY <1>4, PutReadInv
<1>5. CASE RunLine
  BY <1>5, RunLineInv
<1>6. CASE Hangup
  BY <1>6, HangupInv
<1>7. ASSUME NEW n \in 1..(PutBuf - 1), PutWriteFails(n) PROVE Inv'
  BY <1>7, PutWriteFailsInv
<1>8. CASE UNCHANGED vars
  BY <1>8, StutterInv
<1>9. CASE Interrupted
  BY <1>9, InterruptedInv
<1> QED
  BY <1>1, <1>2, <1>3, <1>4, <1>5, <1>6, <1>7, <1>8, <1>9 DEF Next, Sends, Receives

\* The dot's line is not the end of what was sent, once the command is typed.
LEMMA CommandBehindDot ==
    ASSUME Typed, ~telnet
    PROVE  ~(rd = Len(wire) /\ getpc = "done" /\ rd = DataLen + 2)
<1>1. EolLen = 1
  BY DEF EolLen
<1>2. Len(wire) \in Nat
  BY DEF Typed
<1>3. getpc = "done" => DataLen = Len(wire) - 2 * (1 + 1)
  BY <1>1 DEF DataLen
<1>4. Len(wire) # (Len(wire) - 2 * (1 + 1)) + 2
  BY <1>2
<1> QED
  BY <1>3, <1>4

-----------------------------------------------------------------------------
(* The theorems. *)

\* For every file, of every length, and every way get cuts it into blocks: as
\* long as each read() of cmd_put returns one line, the copy is what was sent
\* of the file, and all of it when put ends at the dot; put answers with a
\* decode error only to a client that ends its lines with CR LF.
THEOREM UploadCopied == Spec => []CopiedAsSent
<1>1. Inv => CopiedAsSent
  <2> SUFFICES ASSUME Inv, whole
               PROVE  /\ Len(copy) <= Len(file) /\ copy = SubSeq(file, 1, Len(copy))
                      /\ end = "dot" => copy = file
                      /\ end = "decode error" => telnet
    BY DEF CopiedAsSent
  <2>1. Len(copy) \in 0..Len(file) /\ copy = SubSeq(file, 1, Len(copy))
    BY DEF Inv, Kept
  <2>2. (end = "dot" => copy = file) /\ (end = "decode error" => telnet)
    BY DEF Inv, Ended
  <2>3. Len(copy) <= Len(file)
    BY <2>1, InvTyped DEF Typed
  <2> QED BY <2>1, <2>2, <2>3
<1> QED
  BY <1>1, InitInv, NextInv, PTL DEF Spec

\* Then, unless put left the upload for a failing write() or a read() that a
\* signal interrupted, read_line() takes no line of the upload for a command,
\* and does not lose the command typed behind it.
THEOREM UploadNotRun == Spec => []DataNotRun
<1>1. Inv => DataNotRun
  <2> SUFFICES ASSUME Inv, whole, ~telnet, end \notin {"write error", "interrupted"}
               PROVE  /\ ran \in {<<>>, <<<<Command>>>>}
                      /\ (pc = "prompt" /\ rd = Len(wire) /\ getpc = "done") => ran = <<<<Command>>>>
    BY DEF DataNotRun
  <2>1. Typed
    BY InvTyped
  <2>2. end \in {"none", "dot", "eof"}
    BY DEF Inv, TypeInv, Ended
  <2>3. CASE end \in {"none", "eof"}
    BY <2>3 DEF Inv, Ended
  <2>4. CASE end = "dot"
    <3>1. \/ ran = <<>> /\ rd = DataLen + 2
          \/ ran = <<<<Command>>>>
      BY <2>4 DEF Inv, Ended
    <3>2. ~(rd = Len(wire) /\ getpc = "done" /\ rd = DataLen + 2)
      BY <2>1, CommandBehindDot
    <3> QED BY <3>1, <3>2
  <2> QED BY <2>2, <2>3, <2>4
<1> QED
  BY <1>1, InitInv, NextInv, PTL DEF Spec
=============================================================================
