--------------------------- MODULE FileOpsProofs ---------------------------
(***************************************************************************)
(* Theorems about FileOps, for any names, disks, commands and sessions.    *)
(***************************************************************************)
EXTENDS FileOps, SequenceTheorems, WellFoundedInduction, TLAPS

-----------------------------------------------------------------------------
(* Numbers and sequences. *)

LEMMA LeastNatural ==
    ASSUME NEW T \in SUBSET Nat, T # {}
    PROVE  \E x \in T : \A y \in T : x <= y
<1> DEFINE R == OpToRel(<, Nat)
<1>1. IsWellFoundedOn(R, Nat)
  BY NatLessThanWellFounded
<1>2. \A x, y \in Nat : x < y => <<x, y>> \in R
  BY DEF OpToRel
<1> HIDE DEF R
<1>3. PICK x \in T : \A y \in T : ~ (<<y, x>> \in R)
  BY <1>1, WFMin
<1>4. \A y \in T : ~(y < x)
  BY <1>2, <1>3
<1> QED
  BY <1>4

LEMMA PathIs ==
    \A p : p \in Path <=> p \in Seq(Names) /\ Len(p) <= Depth
<1>1. ASSUME NEW p \in Path PROVE p \in Seq(Names) /\ Len(p) <= Depth
  <2>1. PICK m \in 0..Depth : p \in [1..m -> Names]
    BY DEF Path
  <2>2. m \in Nat /\ m <= Depth
    BY BoundsAssumption
  <2>3. p \in Seq(Names)
    BY <2>1, <2>2, SeqDef
  <2>4. Len(p) = m
    BY <2>1, <2>2, <2>3
  <2> QED BY <2>2, <2>3, <2>4
<1>2. ASSUME NEW p \in Seq(Names), Len(p) <= Depth PROVE p \in Path
  <2>1. Len(p) \in 0..Depth /\ p \in [1..Len(p) -> Names]
    BY <1>2, LenProperties, BoundsAssumption
  <2> QED BY <2>1 DEF Path
<1> QED
  BY <1>1, <1>2

LEMMA PrefixIs ==
    ASSUME NEW S, NEW s \in Seq(S), NEW t \in Seq(S)
    PROVE  IsPrefix(s, t) <=> Len(s) <= Len(t) /\ \A k \in 1..Len(s) : s[k] = t[k]
<1>0. Len(s) \in Nat /\ Len(t) \in Nat
  OBVIOUS
<1>1. SubSeq(s, 1, Len(s)) = s
  BY SubSeqFull
<1>2. ASSUME Len(s) <= Len(t)
      PROVE  SubSeq(t, 1, Len(s)) = s <=> \A k \in 1..Len(s) : s[k] = t[k]
  <2> DEFINE u == SubSeq(t, 1, Len(s))
  <2>1. \A k \in 1..Len(s) : t[k] \in S
    <3>1. \A k \in 1..Len(s) : k \in 1..Len(t)
      BY <1>0, <1>2
    <3> QED BY <3>1, ElementOfSeq
  <2>2. u \in Seq(S) /\ Len(u) = Len(s) /\ \A k \in 1..Len(s) : u[k] = t[k]
    <3>1. 1 \in Int /\ Len(s) \in Int /\ Len(s) - 1 + 1 = Len(s)
      BY <1>0
    <3>2. /\ u \in Seq(S) /\ Len(u) = IF 1 <= Len(s) THEN Len(s) - 1 + 1 ELSE 0
          /\ \A k \in 1..(Len(s) - 1 + 1) : u[k] = t[1 + k - 1]
      BY <2>1, <3>1, SubSeqProperties
    <3>3. \A k \in 1..Len(s) : 1 + k - 1 = k
      BY <1>0
    <3> QED BY <1>0, <3>1, <3>2, <3>3
  <2> HIDE DEF u
  <2>3. u = s <=> \A k \in 1..Len(s) : s[k] = t[k]
    <3>1. ASSUME \A k \in 1..Len(s) : s[k] = t[k] PROVE u = s
      BY <2>2, <3>1, SeqEqual
    <3>2. ASSUME u = s PROVE \A k \in 1..Len(s) : s[k] = t[k]
      BY <2>2, <3>2
    <3> QED BY <3>1, <3>2
  <2> QED BY <2>3 DEF u
<1> QED
  BY <1>1, <1>2 DEF IsPrefix

\* Append and Front.
LEMMA AppendIs ==
    ASSUME NEW S, NEW s \in Seq(S), NEW x \in S
    PROVE  /\ Append(s, x) \in Seq(S) /\ Len(Append(s, x)) = Len(s) + 1
           /\ Append(s, x) # <<>> /\ Front(Append(s, x)) = s
           /\ \A k \in 1..Len(s) : Append(s, x)[k] = s[k]
           /\ Append(s, x)[Len(s) + 1] = x
<1> DEFINE t == Append(s, x)
<1>0. Len(s) \in Nat
  OBVIOUS
<1>1. /\ t \in Seq(S) /\ Len(t) = Len(s) + 1
      /\ (\A k \in 1..Len(s) : t[k] = s[k]) /\ t[Len(s) + 1] = x
  BY AppendProperties
<1> HIDE DEF t
<1>2. t # <<>>
  <2>1. Len(t) # 0 /\ Len(<<>>) = 0
    BY <1>0, <1>1
  <2> QED BY <2>1
<1>3. Front(t) = s
  <2> DEFINE u == SubSeq(t, 1, Len(s))
  <2>1. Front(t) = u
    <3>1. Len(t) - 1 = Len(s)
      BY <1>0, <1>1
    <3> QED BY <3>1 DEF Front
  <2>2. IsPrefix(s, t)
    <3>1. Len(s) <= Len(t)
      BY <1>0, <1>1
    <3> QED BY <1>1, <3>1, PrefixIs
  <2>3. u = SubSeq(s, 1, Len(s)) /\ SubSeq(s, 1, Len(s)) = s
    BY <2>2, SubSeqFull DEF IsPrefix
  <2> QED BY <2>1, <2>3
<1> QED
  BY <1>1, <1>2, <1>3 DEF t

LEMMA FrontIs ==
    ASSUME NEW S, NEW t \in Seq(S), t # <<>>
    PROVE  /\ Front(t) \in Seq(S) /\ Len(t) \in Nat \ {0} /\ Len(Front(t)) = Len(t) - 1
           /\ t[Len(t)] \in S /\ t = Append(Front(t), t[Len(t)])
           /\ \A k \in 1..(Len(t) - 1) : Front(t)[k] = t[k]
<1>1. Len(t) \in Nat \ {0}
  BY EmptySeq
<1>2. PICK s \in Seq(S), x \in S : t = Append(s, x)
  BY SequenceEmptyOrAppend
<1>3. /\ Len(t) = Len(s) + 1 /\ Front(t) = s /\ t[Len(s) + 1] = x
      /\ \A k \in 1..Len(s) : t[k] = s[k]
  BY <1>2, AppendIs
<1>4. Len(s) \in Nat /\ Len(s) = Len(t) - 1
  BY <1>1, <1>3
<1> QED
  BY <1>1, <1>2, <1>3, <1>4

LEMMA PrefixProperties ==
    ASSUME NEW S
    PROVE  /\ \A s \in Seq(S) : IsPrefix(s, s) /\ IsPrefix(<<>>, s)
           /\ \A s, t, u \in Seq(S) : IsPrefix(s, t) /\ IsPrefix(t, u) => IsPrefix(s, u)
           /\ \A s \in Seq(S), x \in S : IsPrefix(s, Append(s, x))
           /\ \A s, t \in Seq(S) : IsPrefix(s, t) => s = t \/ (t # <<>> /\ IsPrefix(s, Front(t)))
           /\ \A s, t \in Seq(S) : IsPrefix(s, t) /\ IsPrefix(t, s) => s = t
<1>1. ASSUME NEW s \in Seq(S) PROVE IsPrefix(s, s) /\ IsPrefix(<<>>, s)
  <2>1. <<>> \in Seq(S) /\ Len(<<>>) = 0 /\ Len(s) \in Nat /\ 1..0 = {}
    OBVIOUS
  <2>2. Len(s) <= Len(s) /\ 0 <= Len(s)
    BY <2>1
  <2> QED BY <2>1, <2>2, PrefixIs
<1>2. ASSUME NEW s \in Seq(S), NEW t \in Seq(S), NEW u \in Seq(S), IsPrefix(s, t), IsPrefix(t, u)
      PROVE  IsPrefix(s, u)
  <2>0. Len(s) \in Nat /\ Len(t) \in Nat /\ Len(u) \in Nat
    OBVIOUS
  <2>1. /\ Len(s) <= Len(t) /\ \A k \in 1..Len(s) : s[k] = t[k]
    BY <1>2, PrefixIs
  <2>2. /\ Len(t) <= Len(u) /\ \A k \in 1..Len(t) : t[k] = u[k]
    BY <1>2, PrefixIs
  <2>3. Len(s) <= Len(u) /\ \A k \in 1..Len(s) : k \in 1..Len(t)
    BY <2>0, <2>1, <2>2
  <2>4. \A k \in 1..Len(s) : s[k] = u[k]
    BY <2>1, <2>2, <2>3
  <2> QED BY <2>3, <2>4, PrefixIs
<1>3. ASSUME NEW s \in Seq(S), NEW x \in S PROVE IsPrefix(s, Append(s, x))
  <2>1. Append(s, x) \in Seq(S) /\ Len(Append(s, x)) = Len(s) + 1
        /\ \A k \in 1..Len(s) : Append(s, x)[k] = s[k]
    BY AppendIs
  <2>2. Len(s) <= Len(Append(s, x))
    BY <2>1
  <2> QED BY <2>1, <2>2, PrefixIs
<1>4. ASSUME NEW s \in Seq(S), NEW t \in Seq(S), IsPrefix(s, t), s # t
      PROVE  t # <<>> /\ IsPrefix(s, Front(t))
  <2>0. Len(s) \in Nat /\ Len(t) \in Nat
    OBVIOUS
  <2>1. /\ Len(s) <= Len(t) /\ \A k \in 1..Len(s) : s[k] = t[k]
    BY <1>4, PrefixIs
  <2>2. Len(s) # Len(t)
    BY <1>4, <2>1, SeqEqual
  <2>3. t # <<>>
    <3>1. Len(t) # 0
      BY <2>0, <2>1, <2>2
    <3> QED BY <3>1
  <2>4. /\ Front(t) \in Seq(S) /\ Len(Front(t)) = Len(t) - 1
        /\ \A k \in 1..(Len(t) - 1) : Front(t)[k] = t[k]
    BY <2>3, FrontIs
  <2>5. Len(s) <= Len(Front(t)) /\ \A k \in 1..Len(s) : k \in 1..(Len(t) - 1)
    BY <2>0, <2>1, <2>2, <2>4
  <2>6. \A k \in 1..Len(s) : s[k] = Front(t)[k]
    BY <2>1, <2>4, <2>5
  <2> QED BY <2>3, <2>4, <2>5, <2>6, PrefixIs
<1>5. ASSUME NEW s \in Seq(S), NEW t \in Seq(S), IsPrefix(s, t), IsPrefix(t, s) PROVE s = t
  <2>1. Len(s) <= Len(t) /\ Len(t) <= Len(s) /\ \A k \in 1..Len(s) : s[k] = t[k]
    BY <1>5, PrefixIs
  <2>2. Len(s) = Len(t)
    BY <2>1
  <2> QED BY <2>1, <2>2, SeqEqual
<1> QED
  BY <1>1, <1>2, <1>3, <1>4, <1>5

-----------------------------------------------------------------------------
(* Where a path leads. *)

\* One name further.
Hop(f, w, x, fo) ==
    IF KindIn(f, Append(w, x)) = "link" /\ fo THEN f[Append(w, x)].to ELSE Append(w, x)

\* The places on the way of n names p, where follows says which links count.
Stops(f, p, follows, n, g) ==
    g = [m \in 0..n |-> IF m = 0 THEN <<>> ELSE Hop(f, g[m - 1], p[m], follows[m])]

LEMMA StopsExist ==
    ASSUME NEW f, NEW p, NEW follows
    PROVE  \A n \in Nat : \E g : Stops(f, p, follows, n, g)
<1> DEFINE T == {n \in Nat : ~\E g : Stops(f, p, follows, n, g)}
<1> SUFFICES ASSUME T # {} PROVE FALSE
  OBVIOUS
<1>1. PICK n \in T : \A m \in T : n <= m
  <2>1. T \in SUBSET Nat
    OBVIOUS
  <2> HIDE DEF T
  <2> QED BY <2>1, LeastNatural
<1>2. n # 0
  <2> DEFINE g == [m \in 0..0 |-> <<>>]
  <2>1. \A m \in 0..0 : m = 0
    OBVIOUS
  <2>2. Stops(f, p, follows, 0, g)
    BY <2>1 DEF Stops
  <2> QED BY <2>2
<1>3. n - 1 \in Nat /\ n - 1 \notin T
  <2>1. n \in Nat /\ n - 1 \in Nat /\ ~(n <= n - 1)
    BY <1>2
  <2> QED BY <1>1, <2>1
<1>4. PICK g : Stops(f, p, follows, n - 1, g)
  BY <1>3
<1> DEFINE h == [m \in 0..n |-> IF m = n THEN Hop(f, g[n - 1], p[n], follows[n]) ELSE g[m]]
<1>5. ASSUME NEW m \in 0..n
      PROVE  h[m] = IF m = 0 THEN <<>> ELSE Hop(f, h[m - 1], p[m], follows[m])
  <2>0. n - 1 \in 0..n /\ n - 1 # n
    BY <1>2
  <2>1. CASE m = n
    <3>1. h[n] = Hop(f, g[n - 1], p[n], follows[n])
      BY <2>1
    <3>2. h[n - 1] = g[n - 1]
      BY <2>0
    <3> QED BY <1>2, <2>1, <3>1, <3>2
  <2>2. CASE m # n
    <3>1. m \in 0..(n - 1) /\ (m # 0 => m - 1 \in 0..n /\ m - 1 # n)
      BY <2>2
    <3>2. g[m] = IF m = 0 THEN <<>> ELSE Hop(f, g[m - 1], p[m], follows[m])
      BY <1>4, <3>1 DEF Stops
    <3>3. h[m] = g[m] /\ (m # 0 => h[m - 1] = g[m - 1])
      BY <2>2, <3>1
    <3> QED BY <3>2, <3>3
  <2> QED BY <2>1, <2>2
<1>6. h = [m \in 0..n |-> h[m]]
  OBVIOUS
<1> HIDE DEF h
<1>7. Stops(f, p, follows, n, h)
  BY <1>5, <1>6 DEF Stops
<1> QED
  BY <1>7

LEMMA StopsOnce ==
    ASSUME NEW f, NEW p, NEW q, NEW follows, NEW also, NEW n \in Nat, NEW m \in Nat, NEW g, NEW h,
           Stops(f, p, follows, n, g), Stops(f, q, also, m, h)
    PROVE  \A i \in Nat : /\ i <= n /\ i <= m
                          /\ \A k \in 1..i : p[k] = q[k] /\ follows[k] = also[k]
                          => g[i] = h[i]
<1> SUFFICES ASSUME NEW i \in Nat, i <= n, i <= m,
                    \A k \in 1..i : p[k] = q[k] /\ follows[k] = also[k]
             PROVE  g[i] = h[i]
  OBVIOUS
<1> DEFINE T == {k \in Nat : k <= i /\ g[k] # h[k]}
<1> SUFFICES ASSUME T # {} PROVE FALSE
  <2>1. i \in Nat /\ i <= i
    OBVIOUS
  <2> QED BY <2>1
<1>1. PICK k \in T : \A x \in T : k <= x
  <2>1. T \in SUBSET Nat
    OBVIOUS
  <2> HIDE DEF T
  <2> QED BY <2>1, LeastNatural
<1>2. k \in 0..n /\ k \in 0..m
  OBVIOUS
<1>3. /\ g[k] = IF k = 0 THEN <<>> ELSE Hop(f, g[k - 1], p[k], follows[k])
      /\ h[k] = IF k = 0 THEN <<>> ELSE Hop(f, h[k - 1], q[k], also[k])
  BY <1>2 DEF Stops
<1>4. k # 0 => g[k - 1] = h[k - 1]
  <2>1. k # 0 => k - 1 \in Nat /\ k - 1 <= i /\ ~(k <= k - 1)
    OBVIOUS
  <2> QED BY <1>1, <2>1
<1>5. k # 0 => k \in 1..i
  OBVIOUS
<1> QED
  BY <1>3, <1>4, <1>5

Follows(p, fo) == [m \in Nat |-> fo \/ m < Len(p)]

WalkFn(f, p, fo) ==
    CHOOSE W : W = [m \in 0..Len(p) |->
                      IF m = 0 THEN <<>>
                      ELSE LET q == Append(W[m - 1], p[m])
                           IN IF KindIn(f, q) = "link" /\ (fo \/ m < Len(p)) THEN f[q].to ELSE q]

LEMMA WalkStops ==
    ASSUME NEW f, NEW p \in Seq(Names), NEW fo \in BOOLEAN
    PROVE  \E g : Stops(f, p, Follows(p, fo), Len(p), g) /\ Walk(f, p, fo) = g[Len(p)]
<1>0. Len(p) \in Nat
  OBVIOUS
<1>1. PICK g : Stops(f, p, Follows(p, fo), Len(p), g)
  BY <1>0, StopsExist
<1>2. \A m \in 0..Len(p) : Follows(p, fo)[m] = (fo \/ m < Len(p))
  BY <1>0 DEF Follows
<1>3. \A W : (Stops(f, p, Follows(p, fo), Len(p), W)
              <=> W = [m \in 0..Len(p) |->
                      IF m = 0 THEN <<>>
                      ELSE LET q == Append(W[m - 1], p[m])
                           IN IF KindIn(f, q) = "link" /\ (fo \/ m < Len(p)) THEN f[q].to ELSE q])
  BY <1>2 DEF Stops, Hop
<1>4. WalkFn(f, p, fo) = [m \in 0..Len(p) |->
                      IF m = 0 THEN <<>>
                      ELSE LET q == Append(WalkFn(f, p, fo)[m - 1], p[m])
                           IN IF KindIn(f, q) = "link" /\ (fo \/ m < Len(p)) THEN f[q].to ELSE q]
  BY Zenon, <1>1, <1>3 DEF WalkFn
<1>5. Stops(f, p, Follows(p, fo), Len(p), WalkFn(f, p, fo))
  BY Zenon, <1>3, <1>4
<1>6. Walk(f, p, fo) = WalkFn(f, p, fo)[Len(p)]
  BY Zenon DEF Walk, WalkFn
<1> QED
  BY <1>5, <1>6

LEMMA WalkEmpty ==
    ASSUME NEW f, NEW fo \in BOOLEAN
    PROVE  Walk(f, <<>>, fo) = <<>>
<1>1. <<>> \in Seq(Names) /\ Len(<<>>) = 0 /\ 0 \in 0..0
  OBVIOUS
<1>2. PICK g : Stops(f, <<>>, Follows(<<>>, fo), 0, g) /\ Walk(f, <<>>, fo) = g[0]
  BY <1>1, WalkStops
<1>3. g[0] = <<>>
  BY <1>1, <1>2 DEF Stops
<1> QED
  BY <1>2, <1>3

LEMMA WalkAppend ==
    ASSUME NEW f, NEW p \in Seq(Names), NEW x \in Names, NEW fo \in BOOLEAN
    PROVE  Walk(f, Append(p, x), fo) = Hop(f, Walk(f, p, TRUE), x, fo)
<1> DEFINE q == Append(p, x)
<1>0. Len(p) \in Nat /\ TRUE \in BOOLEAN
  OBVIOUS
<1>1. /\ q \in Seq(Names) /\ Len(q) = Len(p) + 1 /\ q[Len(p) + 1] = x
      /\ \A k \in 1..Len(p) : q[k] = p[k]
  BY AppendIs
<1> HIDE DEF q
<1>2. PICK g : Stops(f, q, Follows(q, fo), Len(q), g) /\ Walk(f, q, fo) = g[Len(q)]
  BY <1>1, WalkStops
<1>3. PICK h : Stops(f, p, Follows(p, TRUE), Len(p), h) /\ Walk(f, p, TRUE) = h[Len(p)]
  BY <1>0, WalkStops
<1>4. g[Len(p)] = h[Len(p)]
  <2>1. \A k \in 1..Len(p) : Follows(q, fo)[k] = TRUE /\ Follows(p, TRUE)[k] = TRUE
    <3>1. \A k \in 1..Len(p) : k \in Nat /\ k < Len(q)
      BY <1>0, <1>1
    <3> QED BY <3>1 DEF Follows
  <2>2. Len(q) \in Nat /\ Len(p) <= Len(q) /\ Len(p) <= Len(p)
    BY <1>0, <1>1
  <2>3. \A k \in 1..Len(p) : q[k] = p[k] /\ Follows(q, fo)[k] = Follows(p, TRUE)[k]
    BY <1>1, <2>1
  <2> DEFINE b == Follows(q, fo)
             c == Follows(p, TRUE)
  <2>4. Stops(f, q, b, Len(q), g) /\ Stops(f, p, c, Len(p), h)
    BY <1>2, <1>3
  <2>5. \A k \in 1..Len(p) : q[k] = p[k] /\ b[k] = c[k]
    BY <2>3
  <2> HIDE DEF b, c
  <2>6. \A i \in Nat : /\ i <= Len(q) /\ i <= Len(p)
                       /\ \A k \in 1..i : q[k] = p[k] /\ b[k] = c[k]
                       => g[i] = h[i]
    BY <1>0, <2>2, <2>4, StopsOnce
  <2> QED BY <1>0, <2>2, <2>5, <2>6
<1>5. Follows(q, fo)[Len(q)] = fo
  <2>1. Len(q) \in Nat /\ ~(Len(q) < Len(q))
    BY <1>0, <1>1
  <2> QED BY <2>1 DEF Follows
<1>6. g[Len(q)] = Hop(f, g[Len(p)], x, fo)
  <2>1. Len(q) \in 0..Len(q) /\ Len(q) # 0 /\ Len(q) - 1 = Len(p)
    BY <1>0, <1>1
  <2>2. g[Len(q)] = Hop(f, g[Len(q) - 1], q[Len(q)], Follows(q, fo)[Len(q)])
    BY <1>2, <2>1 DEF Stops
  <2> QED BY <1>1, <1>5, <2>1, <2>2
<1> QED
  BY <1>2, <1>3, <1>4, <1>6 DEF q

LEMMA PathInduction ==
    ASSUME NEW G, <<>> \in G,
           \A p \in Seq(Names), x \in Names : p \in G => Append(p, x) \in G
    PROVE  \A p \in Seq(Names) : p \in G
<1> DEFINE T == {n \in Nat : \E p \in Seq(Names) : Len(p) = n /\ p \notin G}
<1> SUFFICES ASSUME T # {} PROVE FALSE
  <2>1. \A p \in Seq(Names) : Len(p) \in Nat
    OBVIOUS
  <2> QED BY <2>1
<1>1. PICK n \in T : \A m \in T : n <= m
  <2>1. T \in SUBSET Nat
    OBVIOUS
  <2> HIDE DEF T
  <2> QED BY <2>1, LeastNatural
<1>2. PICK p \in Seq(Names) : Len(p) = n /\ p \notin G
  OBVIOUS
<1>3. /\ Front(p) \in Seq(Names) /\ Len(Front(p)) = Len(p) - 1
      /\ p[Len(p)] \in Names /\ p = Append(Front(p), p[Len(p)])
  BY <1>2, FrontIs
<1>4. Front(p) \notin G
  BY <1>2, <1>3
<1>5. Len(p) \in Nat /\ Len(Front(p)) \in Nat /\ ~(Len(p) <= Len(Front(p)))
  BY <1>3
<1> QED
  BY <1>1, <1>2, <1>3, <1>4, <1>5

LEMMA TreeIs ==
    ASSUME NEW f, IsTree(f)
    PROVE  /\ DOMAIN f \subseteq Seq(Names)
           /\ KindIn(f, <<>>) = "dir"
           /\ \A p \in DOMAIN f : Len(p) <= Depth /\ KindIn(f, p) # "none" /\ KindIn(f, p) = f[p].kind
           /\ \A p : KindIn(f, p) # "none" => p \in DOMAIN f
           /\ \A p \in DOMAIN f : p # <<>> => Front(p) \in DOMAIN f /\ KindIn(f, Front(p)) = "dir"
           /\ \A p : KindIn(f, p) = "link" => f[p].to \in Seq(Names)
<1>1. /\ DOMAIN f \subseteq Path /\ <<>> \in DOMAIN f /\ f[<<>>] = Dir
      /\ \A p \in DOMAIN f : f[p] \in Node /\ (p # <<>> => KindIn(f, Front(p)) = "dir")
  BY DEF IsTree
<1>2. \A n \in Node : n.kind # "none" /\ (n.kind = "link" => n.to \in Path)
  BY DEF Node, Dir, File, Link
<1>3. "none" # "dir" /\ "none" # "link"
  OBVIOUS
<1>4. \A p : p \in DOMAIN f => KindIn(f, p) = f[p].kind
  BY DEF KindIn
<1>5. \A p : p \notin DOMAIN f => KindIn(f, p) = "none"
  BY DEF KindIn
<1>6. f[<<>>].kind = "dir"
  BY <1>1 DEF Dir
<1>7. \A p \in DOMAIN f : p \in Seq(Names) /\ Len(p) <= Depth
  BY <1>1, PathIs
<1>8. \A p : KindIn(f, p) = "link" => f[p].to \in Seq(Names)
  BY <1>1, <1>2, <1>3, <1>4, <1>5, PathIs
<1> QED
  BY <1>1, <1>2, <1>3, <1>4, <1>5, <1>6, <1>7, <1>8

\* Something that another lies below is a directory, and not an empty one.
LEMMA AncestorIsDir ==
    ASSUME NEW f, IsTree(f), NEW q \in Seq(Names), NEW x \in DOMAIN f, IsPrefix(q, x), x # q
    PROVE  KindIn(f, q) = "dir" /\ \E y \in Names : Append(q, y) \in DOMAIN f
<1> DEFINE G == {z \in Seq(Names) : z \in DOMAIN f /\ IsPrefix(q, z) /\ z # q
                    => KindIn(f, q) = "dir" /\ \E y \in Names : Append(q, y) \in DOMAIN f}
<1>0. /\ DOMAIN f \subseteq Seq(Names)
      /\ \A p \in DOMAIN f : p # <<>> => Front(p) \in DOMAIN f /\ KindIn(f, Front(p)) = "dir"
  BY TreeIs
<1>1. <<>> \in G
  <2>1. <<>> \in Seq(Names)
    OBVIOUS
  <2>2. IsPrefix(q, <<>>) => q = <<>>
    BY <2>1, PrefixProperties
  <2> QED BY <2>1, <2>2
<1>2. ASSUME NEW p \in Seq(Names), NEW y \in Names, p \in G PROVE Append(p, y) \in G
  <2> DEFINE z == Append(p, y)
  <2>0. z \in Seq(Names) /\ z # <<>> /\ Front(z) = p
    BY AppendIs
  <2>1. ASSUME z \in DOMAIN f, IsPrefix(q, z), z # q
        PROVE  KindIn(f, q) = "dir" /\ \E v \in Names : Append(q, v) \in DOMAIN f
    <3> HIDE DEF z
    <3>1. IsPrefix(q, p)
      BY <2>0, <2>1, PrefixProperties
    <3>2. p \in DOMAIN f /\ KindIn(f, p) = "dir"
      BY <1>0, <2>0, <2>1
    <3>3. CASE p = q
      BY <2>1, <3>2, <3>3 DEF z
    <3>4. CASE p # q
      BY <1>2, <3>1, <3>2, <3>4
    <3> QED BY <3>3, <3>4
  <2> HIDE DEF z
  <2>2. z \in G
    BY <2>0, <2>1
  <2> QED BY <2>2 DEF z
<1> HIDE DEF G
<1>3. x \in G
  BY <1>0, <1>1, <1>2, PathInduction
<1> QED
  BY <1>3 DEF G

LEMMA HopTyped ==
    ASSUME NEW f, IsTree(f), NEW w \in Seq(Names), NEW x \in Names, NEW fo \in BOOLEAN
    PROVE  Hop(f, w, x, fo) \in Seq(Names)
<1>1. Append(w, x) \in Seq(Names)
  BY AppendIs
<1>2. KindIn(f, Append(w, x)) = "link" => f[Append(w, x)].to \in Seq(Names)
  BY TreeIs
<1> QED
  BY <1>1, <1>2 DEF Hop

LEMMA WalkTyped ==
    ASSUME NEW f, IsTree(f)
    PROVE  \A p \in Seq(Names) : \A fo \in BOOLEAN : Walk(f, p, fo) \in Seq(Names)
<1> DEFINE G == {p \in Seq(Names) : \A fo \in BOOLEAN : Walk(f, p, fo) \in Seq(Names)}
<1>1. <<>> \in G
  <2>1. <<>> \in Seq(Names)
    OBVIOUS
  <2> QED BY <2>1, WalkEmpty
<1>2. ASSUME NEW p \in Seq(Names), NEW x \in Names, p \in G PROVE Append(p, x) \in G
  <2>1. Walk(f, p, TRUE) \in Seq(Names)
    BY <1>2
  <2>2. ASSUME NEW fo \in BOOLEAN PROVE Walk(f, Append(p, x), fo) \in Seq(Names)
    <3>1. Walk(f, Append(p, x), fo) = Hop(f, Walk(f, p, TRUE), x, fo)
      BY WalkAppend
    <3>2. Hop(f, Walk(f, p, TRUE), x, fo) \in Seq(Names)
      BY <2>1, HopTyped
    <3> QED BY <3>1, <3>2
  <2>3. Append(p, x) \in Seq(Names)
    BY AppendIs
  <2> QED BY <2>2, <2>3
<1> HIDE DEF G
<1>3. \A p \in Seq(Names) : p \in G
  BY <1>1, <1>2, PathInduction
<1> QED
  BY <1>3 DEF G

\* The end of the path: the link itself, or where it leads.
LEMMA WalkEnd ==
    ASSUME NEW f, NEW p \in Seq(Names)
    PROVE  /\ KindIn(f, Walk(f, p, FALSE)) # "link" => Walk(f, p, TRUE) = Walk(f, p, FALSE)
           /\ \A x \in Names : Walk(f, Append(p, x), FALSE) = Append(Walk(f, p, TRUE), x)
<1>1. \A q \in Seq(Names), x \in Names :
          Walk(f, Append(q, x), FALSE) = Append(Walk(f, q, TRUE), x)
  <2>1. \A w, x : Hop(f, w, x, FALSE) = Append(w, x)
    BY DEF Hop
  <2> QED BY <2>1, WalkAppend
<1>2. CASE p = <<>>
  BY <1>1, <1>2, WalkEmpty
<1>3. CASE p # <<>>
  <2>1. PICK q \in Seq(Names), x \in Names : p = Append(q, x)
    BY <1>3, FrontIs
  <2>2. Walk(f, p, TRUE) = Hop(f, Walk(f, q, TRUE), x, TRUE)
    BY <2>1, WalkAppend
  <2>3. Walk(f, p, FALSE) = Append(Walk(f, q, TRUE), x)
    BY <1>1, <2>1
  <2> QED BY <1>1, <2>2, <2>3 DEF Hop
<1> QED
  BY <1>2, <1>3

\* Only links matter to where a path leads.
SameLinks(f, g) ==
    /\ \A q : KindIn(f, q) = "link" <=> KindIn(g, q) = "link"
    /\ \A q : KindIn(f, q) = "link" => g[q].to = f[q].to

LEMMA WalkSame ==
    ASSUME NEW f, NEW g, SameLinks(f, g)
    PROVE  \A p \in Seq(Names) : \A fo \in BOOLEAN : Walk(g, p, fo) = Walk(f, p, fo)
<1> DEFINE G == {p \in Seq(Names) : \A fo \in BOOLEAN : Walk(g, p, fo) = Walk(f, p, fo)}
<1>0. \A w, x, fo : Hop(g, w, x, fo) = Hop(f, w, x, fo)
  BY DEF Hop, SameLinks
<1>1. <<>> \in G
  BY WalkEmpty
<1>2. ASSUME NEW p \in Seq(Names), NEW x \in Names, p \in G PROVE Append(p, x) \in G
  <2>1. Walk(g, p, TRUE) = Walk(f, p, TRUE)
    BY <1>2
  <2>2. ASSUME NEW fo \in BOOLEAN PROVE Walk(g, Append(p, x), fo) = Walk(f, Append(p, x), fo)
    <3>1. Walk(f, Append(p, x), fo) = Hop(f, Walk(f, p, TRUE), x, fo)
      BY WalkAppend
    <3>2. Walk(g, Append(p, x), fo) = Hop(g, Walk(g, p, TRUE), x, fo)
      BY WalkAppend
    <3> QED BY <1>0, <2>1, <3>1, <3>2
  <2>3. Append(p, x) \in Seq(Names)
    BY AppendIs
  <2> QED BY <2>2, <2>3
<1> HIDE DEF G
<1>3. \A p \in Seq(Names) : p \in G
  BY <1>1, <1>2, PathInduction
<1> QED
  BY <1>3 DEF G

\* g is f without q.
Lacks(f, g, q) == DOMAIN g = DOMAIN f \ {q} /\ \A x \in DOMAIN g : g[x] = f[x]

\* When a link is gone, a path leads where it did, or to where the link was or
\* below, where nothing is.
LEMMA WalkLinkGone ==
    ASSUME NEW f, IsTree(f), NEW g, NEW q, KindIn(f, q) = "link", Lacks(f, g, q)
    PROVE  \A p \in Seq(Names) : \A fo \in BOOLEAN :
              /\ Walk(g, p, fo) \in Seq(Names)
              /\ Walk(g, p, fo) = Walk(f, p, fo) \/ IsPrefix(q, Walk(g, p, fo))
<1> DEFINE Good(v, w) == v \in Seq(Names) /\ (v = w \/ IsPrefix(q, v))
           G == {p \in Seq(Names) : \A fo \in BOOLEAN : Good(Walk(g, p, fo), Walk(f, p, fo))}
<1>0. /\ q \in DOMAIN f /\ q \in Seq(Names) /\ DOMAIN f \subseteq Seq(Names)
  BY TreeIs
<1>1. \A x \in DOMAIN f : IsPrefix(q, x) => x = q
  <2>1. "link" # "dir"
    OBVIOUS
  <2> QED BY <1>0, <2>1, AncestorIsDir
<1>2. \A x : x # q => KindIn(g, x) = KindIn(f, x) /\ (x \in DOMAIN g => g[x] = f[x])
  BY DEF KindIn, Lacks
<1>3. KindIn(g, q) = "none"
  BY DEF KindIn, Lacks
<1>4. \A x : KindIn(f, x) = "link" => x \in DOMAIN f
  BY TreeIs
<1>5. ASSUME NEW v \in Seq(Names), NEW w \in Seq(Names), Good(v, w), NEW x \in Names, NEW fo \in BOOLEAN
      PROVE  Good(Hop(g, v, x, fo), Hop(f, w, x, fo))
  <2>0. Append(v, x) \in Seq(Names) /\ Append(w, x) \in Seq(Names) /\ IsPrefix(v, Append(v, x))
    BY AppendIs, PrefixProperties
  <2>1. CASE Append(v, x) = q
    <3>1. Hop(g, v, x, fo) = q
      BY <1>3, <2>1 DEF Hop
    <3>2. IsPrefix(q, q)
      BY <1>0, PrefixProperties
    <3> QED BY <1>0, <3>1, <3>2
  <2>2. CASE v = w /\ Append(v, x) # q
    <3>1. Hop(g, v, x, fo) = Hop(f, w, x, fo)
      <4>1. KindIn(f, Append(v, x)) = "link" => Append(v, x) \in DOMAIN g
        BY <1>4, <2>2 DEF Lacks
      <4> QED BY <1>2, <2>2, <4>1 DEF Hop
    <3>2. Hop(f, w, x, fo) \in Seq(Names)
      BY HopTyped
    <3> QED BY <3>1, <3>2
  <2>3. CASE IsPrefix(q, v) /\ Append(v, x) # q
    <3>1. IsPrefix(q, Append(v, x))
      BY <1>0, <2>0, <2>3, PrefixProperties
    <3>2. Append(v, x) \notin DOMAIN f
      BY <1>1, <2>3, <3>1
    <3>3. KindIn(g, Append(v, x)) = "none"
      BY <3>2 DEF KindIn, Lacks
    <3>4. Hop(g, v, x, fo) = Append(v, x)
      BY <3>3 DEF Hop
    <3> QED BY <2>0, <3>1, <3>4
  <2> QED BY <1>5, <2>1, <2>2, <2>3
<1>6. <<>> \in G
  <2>1. <<>> \in Seq(Names)
    OBVIOUS
  <2> QED BY <2>1, WalkEmpty
<1>7. ASSUME NEW p \in Seq(Names), NEW x \in Names, p \in G PROVE Append(p, x) \in G
  <2>1. Good(Walk(g, p, TRUE), Walk(f, p, TRUE)) /\ Walk(f, p, TRUE) \in Seq(Names)
    BY <1>7, WalkTyped
  <2>2. ASSUME NEW fo \in BOOLEAN
        PROVE  Good(Walk(g, Append(p, x), fo), Walk(f, Append(p, x), fo))
    <3>1. Walk(f, Append(p, x), fo) = Hop(f, Walk(f, p, TRUE), x, fo)
      BY WalkAppend
    <3>2. Walk(g, Append(p, x), fo) = Hop(g, Walk(g, p, TRUE), x, fo)
      BY WalkAppend
    <3>3. Good(Hop(g, Walk(g, p, TRUE), x, fo), Hop(f, Walk(f, p, TRUE), x, fo))
      BY <1>5, <2>1
    <3> QED BY <3>1, <3>2, <3>3
  <2>3. Append(p, x) \in Seq(Names)
    BY AppendIs
  <2> HIDE DEF Good
  <2> QED BY <2>2, <2>3
<1> HIDE DEF G
<1>8. \A p \in Seq(Names) : p \in G
  BY <1>6, <1>7, PathInduction
<1> QED
  BY <1>8 DEF G

\* Of a path, any beginning.
LEMMA PrefixIsSubSeq ==
    ASSUME NEW p \in Seq(Names), NEW z \in Seq(Names), IsPrefix(z, p)
    PROVE  z = SubSeq(p, 1, Len(z)) /\ Len(z) \in Nat /\ Len(z) <= Len(p) /\ Len(p) \in Nat
           /\ (z # <<>> => 1 <= Len(z)) /\ (z # p => Len(z) <= Len(p) - 1)
<1>1. Len(z) \in Nat /\ Len(p) \in Nat
  OBVIOUS
<1>2. Len(z) <= Len(p) /\ \A k \in 1..Len(z) : z[k] = p[k]
  BY PrefixIs
<1>3. z = SubSeq(p, 1, Len(z))
  BY SubSeqFull DEF IsPrefix
<1>4. z # <<>> => Len(z) # 0
  BY EmptySeq
<1>5. z # p => Len(z) # Len(p)
  BY <1>2, SeqEqual
<1> QED
  BY <1>1, <1>2, <1>3, <1>4, <1>5

LEMMA SubSeqIsPrefix ==
    ASSUME NEW p \in Seq(Names), NEW m \in Nat, m <= Len(p)
    PROVE  /\ SubSeq(p, 1, m) \in Seq(Names) /\ Len(SubSeq(p, 1, m)) = m
           /\ IsPrefix(SubSeq(p, 1, m), p)
<1> DEFINE u == SubSeq(p, 1, m)
<1>0. Len(p) \in Nat
  OBVIOUS
<1>1. \A k \in 1..m : p[k] \in Names
  <2>1. \A k \in 1..m : k \in 1..Len(p)
    BY <1>0
  <2> QED BY <2>1, ElementOfSeq
<1>2. 1 \in Int /\ m \in Int /\ m - 1 + 1 = m
  OBVIOUS
<1>3. /\ u \in Seq(Names) /\ Len(u) = IF 1 <= m THEN m - 1 + 1 ELSE 0
      /\ \A k \in 1..(m - 1 + 1) : u[k] = p[1 + k - 1]
  BY <1>1, <1>2, SubSeqProperties
<1>4. \A k \in 1..m : 1 + k - 1 = k
  OBVIOUS
<1>5. Len(u) = m /\ \A k \in 1..m : u[k] = p[k]
  BY <1>2, <1>3, <1>4
<1> HIDE DEF u
<1>6. u \in Seq(Names) /\ Len(u) = m /\ IsPrefix(u, p)
  BY <1>3, <1>5, PrefixIs
<1> QED
  BY <1>6 DEF u

\* A path without links leads to itself.
LEMMA WalkPlain ==
    ASSUME NEW f, NEW p \in Seq(Names),
           \A z \in Seq(Names) : IsPrefix(z, p) => KindIn(f, z) # "link"
    PROVE  Walk(f, p, TRUE) = p /\ Walk(f, p, FALSE) = p
<1> DEFINE G == {z \in Seq(Names) : IsPrefix(z, p) => Walk(f, z, TRUE) = z /\ Walk(f, z, FALSE) = z}
<1>1. <<>> \in G
  <2>1. <<>> \in Seq(Names)
    OBVIOUS
  <2> QED BY <2>1, WalkEmpty
<1>2. ASSUME NEW z \in Seq(Names), NEW x \in Names, z \in G PROVE Append(z, x) \in G
  <2>0. Append(z, x) \in Seq(Names)
    BY AppendIs
  <2>1. ASSUME IsPrefix(Append(z, x), p)
        PROVE  Walk(f, Append(z, x), TRUE) = Append(z, x) /\ Walk(f, Append(z, x), FALSE) = Append(z, x)
    <3>1. IsPrefix(z, p)
      BY <2>0, <2>1, PrefixProperties
    <3>2. Walk(f, z, TRUE) = z
      BY <1>2, <3>1
    <3>3. KindIn(f, Append(z, x)) # "link"
      BY <2>0, <2>1
    <3>4. Walk(f, Append(z, x), FALSE) = Append(z, x)
      BY <3>2, WalkEnd
    <3>5. Walk(f, Append(z, x), TRUE) = Append(z, x)
      BY <2>0, <3>3, <3>4, WalkEnd
    <3> QED BY <3>4, <3>5
  <2> QED BY <2>0, <2>1
<1> HIDE DEF G
<1>3. p \in G
  BY <1>1, <1>2, PathInduction
<1>4. IsPrefix(p, p)
  BY PrefixProperties
<1> QED
  BY <1>3, <1>4 DEF G

\* When what is gone lies below t, and no link on the way does, the path leads
\* where it did.
LEMMA WalkUnlooped ==
    ASSUME NEW f, NEW g, NEW t, NEW p \in Seq(Names),
           \A q \in DOMAIN f : ~IsPrefix(t, q) => q \in DOMAIN g /\ g[q] = f[q],
           \A q : KindIn(g, q) = "link" => KindIn(f, q) = "link",
           \A z \in Seq(Names) : /\ IsPrefix(z, p) /\ z # p /\ z # <<>>
                                 /\ KindIn(f, Walk(f, z, FALSE)) = "link"
                                 => ~IsPrefix(t, Walk(f, z, FALSE))
    PROVE  Walk(g, p, FALSE) = Walk(f, p, FALSE)
<1> DEFINE G == {z \in Seq(Names) : IsPrefix(z, p) /\ z # p => Walk(g, z, TRUE) = Walk(f, z, TRUE)}
<1>0. \A z \in Seq(Names), x \in Names :
         IsPrefix(Append(z, x), p) => IsPrefix(z, p) /\ z # p
  <2> SUFFICES ASSUME NEW z \in Seq(Names), NEW x \in Names, IsPrefix(Append(z, x), p)
               PROVE  IsPrefix(z, p) /\ z # p
    OBVIOUS
  <2>1. Append(z, x) \in Seq(Names) /\ Len(Append(z, x)) = Len(z) + 1 /\ Len(z) \in Nat
    BY AppendIs
  <2>2. IsPrefix(z, p)
    BY <2>1, PrefixProperties
  <2>3. Len(Append(z, x)) <= Len(p)
    BY <2>1, PrefixIsSubSeq
  <2>4. Len(z) # Len(p)
    BY <2>1, <2>3
  <2> QED BY <2>2, <2>4
<1>1. <<>> \in G
  <2>1. <<>> \in Seq(Names)
    OBVIOUS
  <2> QED BY <2>1, WalkEmpty
<1>2. ASSUME NEW z \in Seq(Names), NEW x \in Names, z \in G PROVE Append(z, x) \in G
  <2> DEFINE y == Append(z, x)
             via == Walk(f, y, FALSE)
  <2>0. y \in Seq(Names) /\ y # <<>>
    BY AppendIs
  <2>1. ASSUME IsPrefix(y, p), y # p PROVE Walk(g, y, TRUE) = Walk(f, y, TRUE)
    <3>1. Walk(g, z, TRUE) = Walk(f, z, TRUE)
      BY <1>0, <1>2, <2>1
    <3>2. via = Append(Walk(f, z, TRUE), x)
      BY WalkEnd
    <3>3. Walk(f, y, TRUE) = Hop(f, Walk(f, z, TRUE), x, TRUE)
      BY WalkAppend
    <3>4. Walk(g, y, TRUE) = Hop(g, Walk(f, z, TRUE), x, TRUE)
      BY <3>1, WalkAppend
    <3> HIDE DEF y
    <3>5. KindIn(f, via) = "link" => ~IsPrefix(t, via)
      BY <2>0, <2>1
    <3> HIDE DEF via
    <3>6. CASE KindIn(f, via) = "link"
      <4>0. "link" # "none"
        OBVIOUS
      <4>1. via \in DOMAIN f
        BY <3>6, <4>0 DEF KindIn
      <4>2. via \in DOMAIN g /\ g[via] = f[via]
        BY <3>5, <3>6, <4>1
      <4>3. KindIn(g, via) = KindIn(f, via)
        BY <4>1, <4>2 DEF KindIn
      <4>4. Walk(f, y, TRUE) = f[via].to
        BY <3>2, <3>3, <3>6 DEF Hop
      <4>5. Walk(g, y, TRUE) = g[via].to
        BY <3>2, <3>4, <3>6, <4>3 DEF Hop
      <4> QED BY <4>2, <4>4, <4>5
    <3>7. CASE KindIn(f, via) # "link"
      BY <3>2, <3>3, <3>4, <3>7 DEF Hop
    <3> QED BY <3>6, <3>7
  <2> HIDE DEF y, via
  <2>2. y \in G
    BY <2>0, <2>1
  <2> QED BY <2>2 DEF y
<1> HIDE DEF G
<1>3. \A z \in Seq(Names) : z \in G
  BY <1>1, <1>2, PathInduction
<1>4. CASE p = <<>>
  BY <1>4, WalkEmpty
<1>5. CASE p # <<>>
  <2>1. PICK z \in Seq(Names), x \in Names : p = Append(z, x)
    BY <1>5, FrontIs
  <2>2. IsPrefix(p, p)
    BY PrefixProperties
  <2>3. IsPrefix(z, p) /\ z # p
    BY <1>0, <2>1, <2>2
  <2>4. Walk(g, z, TRUE) = Walk(f, z, TRUE)
    BY <1>3, <2>3 DEF G
  <2>5. Walk(g, p, FALSE) = Append(Walk(g, z, TRUE), x)
    BY <2>1, WalkEnd
  <2>6. Walk(f, p, FALSE) = Append(Walk(f, z, TRUE), x)
    BY <2>1, WalkEnd
  <2> QED BY <2>4, <2>5, <2>6
<1> QED
  BY <1>4, <1>5

-----------------------------------------------------------------------------
(* The file system stays a tree. *)

LEMMA TreeWithout ==
    ASSUME IsTree(fs), NEW q \in DOMAIN fs, q # <<>>, Entries(q) = {}
    PROVE  IsTree(Without({q})) /\ Lacks(fs, Without({q}), q)
<1> DEFINE g == Without({q})
<1>0. /\ DOMAIN fs \subseteq Path /\ <<>> \in DOMAIN fs /\ fs[<<>>] = Dir
      /\ \A p \in DOMAIN fs : fs[p] \in Node
  BY DEF IsTree
<1>1. DOMAIN g = DOMAIN fs \ {q} /\ \A x \in DOMAIN g : g[x] = fs[x]
  BY DEF Without, Restrict
<1> HIDE DEF g
<1>2. ASSUME NEW p \in DOMAIN g, p # <<>> PROVE KindIn(g, Front(p)) = "dir"
  <2>0. p \in DOMAIN fs /\ p \in Seq(Names)
    BY <1>1, TreeIs
  <2>1. Front(p) \in DOMAIN fs /\ KindIn(fs, Front(p)) = "dir"
    BY <1>2, <2>0, TreeIs
  <2>2. p[Len(p)] \in Names /\ p = Append(Front(p), p[Len(p)])
    BY <1>2, <2>0, FrontIs
  <2>3. Front(p) # q
    BY <2>0, <2>2 DEF Entries
  <2>4. Front(p) \in DOMAIN g /\ g[Front(p)] = fs[Front(p)]
    BY <1>1, <2>1, <2>3
  <2> QED BY <2>1, <2>4 DEF KindIn
<1>3. IsTree(g)
  BY <1>0, <1>1, <1>2 DEF IsTree
<1> QED
  BY <1>1, <1>3 DEF g, Lacks

LEMMA TreeExtended ==
    ASSUME IsTree(fs), NEW p \in Seq(Names), HasRoom(p), NEW n \in Node
    PROVE  /\ IsTree(Extended(p, n)) /\ KindIn(Extended(p, n), p) = n.kind
           /\ p \notin DOMAIN fs
           /\ \A q \in DOMAIN fs : q \in DOMAIN Extended(p, n) /\ Extended(p, n)[q] = fs[q]
           /\ \A q : q # p => KindIn(Extended(p, n), q) = KindIn(fs, q)
<1> DEFINE g == Extended(p, n)
<1>0. /\ DOMAIN fs \subseteq Path /\ <<>> \in DOMAIN fs /\ fs[<<>>] = Dir
      /\ \A q \in DOMAIN fs : fs[q] \in Node /\ (q # <<>> => KindIn(fs, Front(q)) = "dir")
  BY DEF IsTree
<1>1. /\ p # <<>> /\ Len(p) <= Depth /\ KindIn(fs, p) = "none" /\ KindIn(fs, Front(p)) = "dir"
  BY DEF HasRoom, Kind
<1>2. p \notin DOMAIN fs /\ p \in Path
  <2>1. p \notin DOMAIN fs
    BY <1>1, TreeIs
  <2> QED BY <1>1, <2>1, PathIs
<1>3. DOMAIN g = DOMAIN fs \cup {p} /\ g[p] = n /\ \A q \in DOMAIN fs : g[q] = fs[q]
  BY <1>2 DEF Extended
<1> HIDE DEF g
<1>4. \A q : q # p => KindIn(g, q) = KindIn(fs, q)
  BY <1>2, <1>3 DEF KindIn
<1>5. KindIn(g, p) = n.kind
  BY <1>3 DEF KindIn
<1>6. ASSUME NEW q \in DOMAIN g, q # <<>> PROVE KindIn(g, Front(q)) = "dir"
  <2>1. KindIn(fs, Front(q)) = "dir"
    BY <1>0, <1>1, <1>3, <1>6
  <2>2. Front(q) # p
    <3>1. "none" # "dir"
      OBVIOUS
    <3> QED BY <1>1, <2>1, <3>1
  <2> QED BY <1>4, <2>1, <2>2
<1>7. IsTree(g)
  BY <1>0, <1>2, <1>3, <1>6 DEF IsTree
<1> QED
  BY <1>2, <1>3, <1>4, <1>5, <1>7 DEF g

LEMMA FrontIsPrefix ==
    ASSUME NEW t \in Seq(Names), t # <<>>
    PROVE  Front(t) \in Seq(Names) /\ IsPrefix(Front(t), t) /\ Front(t) # t
<1> DEFINE s == Front(t)
           x == t[Len(t)]
<1>1. s \in Seq(Names) /\ Len(s) = Len(t) - 1 /\ x \in Names /\ t = Append(s, x)
  BY FrontIs
<1> HIDE DEF s, x
<1>2. IsPrefix(s, Append(s, x))
  BY <1>1, PrefixProperties
<1>3. Len(t) \in Nat /\ Len(s) # Len(t)
  BY <1>1
<1>4. s \in Seq(Names) /\ IsPrefix(s, t) /\ s # t
  BY <1>1, <1>2, <1>3
<1> QED
  BY <1>4 DEF s

\* What follows a prefix.
LEMMA RestIs ==
    ASSUME NEW p \in Seq(Names), NEW x \in Seq(Names), IsPrefix(p, x)
    PROVE  LET z == SubSeq(x, Len(p) + 1, Len(x))
           IN z \in Seq(Names) /\ x = p \o z
<1> DEFINE z == SubSeq(x, Len(p) + 1, Len(x))
<1>0. Len(p) \in Nat /\ Len(x) \in Nat
  OBVIOUS
<1>1. Len(p) <= Len(x) /\ p = SubSeq(x, 1, Len(p))
  BY PrefixIsSubSeq
<1>2. z \in Seq(Names)
  <2>1. \A k \in (Len(p) + 1)..Len(x) : x[k] \in Names
    <3>1. \A k \in (Len(p) + 1)..Len(x) : k \in 1..Len(x)
      BY <1>0
    <3> QED BY <3>1, ElementOfSeq
  <2>2. Len(p) + 1 \in Int /\ Len(x) \in Int
    BY <1>0
  <2> QED BY <2>1, <2>2, SubSeqProperties
<1>3. SubSeq(x, 1, Len(p)) \o z = SubSeq(x, 1, Len(x))
  <2>1. 1 \in 1..(Len(x) + 1) /\ Len(p) \in (1 - 1)..Len(x) /\ Len(x) \in Len(p)..Len(x)
    BY <1>0, <1>1
  <2> QED BY <2>1, ConcatAdjacentSubSeq
<1>4. SubSeq(x, 1, Len(x)) = x
  BY SubSeqFull
<1> QED
  BY <1>1, <1>2, <1>3, <1>4

LEMMA ConcatIs ==
    ASSUME NEW q \in Seq(Names), NEW z \in Seq(Names)
    PROVE  /\ q \o z \in Seq(Names) /\ Len(q \o z) = Len(q) + Len(z) /\ IsPrefix(q, q \o z)
           /\ SubSeq(q \o z, Len(q) + 1, Len(q \o z)) = z
           /\ z = <<>> => q \o z = q
           /\ z # <<>> => /\ Front(z) \in Seq(Names) /\ q \o z # <<>>
                          /\ Front(q \o z) = q \o Front(z)
<1> DEFINE u == q \o z
<1>0. Len(q) \in Nat /\ Len(z) \in Nat
  OBVIOUS
<1>1. /\ u \in Seq(Names) /\ Len(u) = Len(q) + Len(z)
      /\ \A i \in 1..(Len(q) + Len(z)) : u[i] = IF i <= Len(q) THEN q[i] ELSE z[i - Len(q)]
  BY ConcatProperties
<1> HIDE DEF u
<1>2. IsPrefix(q, u)
  <2>1. Len(q) <= Len(u) /\ \A k \in 1..Len(q) : q[k] = u[k]
    BY <1>0, <1>1
  <2> QED BY <1>1, <2>1, PrefixIs
<1>3. SubSeq(u, Len(q) + 1, Len(u)) = z
  <2>1. SubSeq(u, Len(q) + 1, Len(u)) \in Seq(Names) /\ u = q \o SubSeq(u, Len(q) + 1, Len(u))
    BY <1>1, <1>2, RestIs
  <2>2. q \o z = q \o SubSeq(u, Len(q) + 1, Len(u))
    BY <2>1 DEF u
  <2> QED BY <2>1, <2>2, ConcatSimplifications
<1>4. z = <<>> => u = q
  BY ConcatEmptySeq DEF u
<1>5. ASSUME z # <<>>
      PROVE  Front(z) \in Seq(Names) /\ u # <<>> /\ Front(u) = q \o Front(z)
  <2>1. Front(z) \in Seq(Names) /\ z[Len(z)] \in Names /\ z = Append(Front(z), z[Len(z)])
    BY <1>5, FrontIs
  <2> DEFINE y == Front(z)
             x == z[Len(z)]
  <2>2. y \in Seq(Names) /\ x \in Names /\ z = Append(y, x)
    BY <2>1
  <2> HIDE DEF x, y
  <2>3. z = y \o <<x>> /\ <<x>> \in Seq(Names)
    BY <2>2, AppendIsConcat
  <2>4. u = (q \o y) \o <<x>>
    BY <2>2, <2>3, ConcatAssociative DEF u
  <2>5. q \o y \in Seq(Names)
    BY <2>2, ConcatProperties
  <2>6. u = Append(q \o y, x)
    BY <2>2, <2>4, <2>5, AppendIsConcat
  <2>7. u # <<>> /\ Front(u) = q \o y
    <3> DEFINE v == q \o y
    <3>1. v \in Seq(Names) /\ u = Append(v, x)
      BY <2>5, <2>6
    <3> HIDE DEF v
    <3>2. u # <<>> /\ Front(u) = v
      BY <2>2, <3>1, AppendIs
    <3> QED BY <3>2 DEF v
  <2> QED BY <2>1, <2>7 DEF y
<1> QED
  BY <1>1, <1>2, <1>3, <1>4, <1>5 DEF u

LEMMA TreeRenamed ==
    ASSUME IsTree(fs), NEW p \in Seq(Names), NEW q \in Seq(Names), CanRename(p, q)
    PROVE  IsTree(Renamed(p, q))
<1> DEFINE g == Renamed(p, q)
           Z == {z \in Seq(Names) : p \o z \in DOMAIN fs}
           moved == {q \o z : z \in Z}
<1>0. /\ DOMAIN fs \subseteq Path /\ <<>> \in DOMAIN fs /\ fs[<<>>] = Dir
      /\ \A x \in DOMAIN fs : fs[x] \in Node /\ x \in Seq(Names)
  BY TreeIs DEF IsTree
<1>1. /\ p \in DOMAIN fs /\ p # <<>> /\ ~IsPrefix(p, q)
      /\ \/ HasRoom(q)
         \/ Kind(q) \in {"file", "link"}
         \/ Kind(q) = "dir" /\ q # <<>> /\ Entries(q) = {}
      /\ \A x \in Below(fs, p) : Len(x) - Len(p) + Len(q) <= Depth
  <2>1. Kind(p) # "none" => p \in DOMAIN fs
    BY TreeIs DEF Kind
  <2> QED BY <2>1 DEF CanRename
<1>2. q # <<>>
  <2>1. KindIn(fs, <<>>) = "dir"
    BY TreeIs
  <2>2. Kind(q) \in {"file", "link"} => q # <<>>
    BY <2>1 DEF Kind
  <2> QED BY <1>1, <2>2 DEF HasRoom
<1>3. Kind(Front(q)) = "dir"
  <2>1. CASE HasRoom(q)
    BY <2>1 DEF HasRoom
  <2>2. CASE Kind(q) \in {"file", "link", "dir"}
    <3>1. q \in DOMAIN fs
      BY <2>2, TreeIs DEF Kind
    <3> QED BY <1>2, <3>1, TreeIs DEF Kind
  <2> QED BY <1>1, <2>1, <2>2
<1>4. \A x \in DOMAIN fs : IsPrefix(q, x) => x = q
  <2> SUFFICES ASSUME NEW x \in DOMAIN fs, IsPrefix(q, x), x # q PROVE FALSE
    OBVIOUS
  <2>1. Kind(q) = "dir" /\ Entries(q) # {}
    BY AncestorIsDir DEF Kind, Entries
  <2>2. ~HasRoom(q)
    BY <2>1 DEF HasRoom
  <2> QED BY <1>1, <2>1, <2>2
<1>5. {q \o SubSeq(x, Len(p) + 1, Len(x)) : x \in Below(fs, p)} = moved
  <2>1. ASSUME NEW x \in Below(fs, p) PROVE q \o SubSeq(x, Len(p) + 1, Len(x)) \in moved
    <3>1. x \in Seq(Names) /\ x \in DOMAIN fs /\ IsPrefix(p, x)
      BY <1>0 DEF Below
    <3> QED BY <3>1, RestIs
  <2>2. ASSUME NEW z \in Z PROVE \E x \in Below(fs, p) : q \o z = q \o SubSeq(x, Len(p) + 1, Len(x))
    <3>1. /\ p \o z \in DOMAIN fs /\ IsPrefix(p, p \o z)
          /\ SubSeq(p \o z, Len(p) + 1, Len(p \o z)) = z
      BY ConcatIs
    <3>2. p \o z \in Below(fs, p)
      BY <3>1 DEF Below
    <3> QED BY <3>1, <3>2
  <2> HIDE DEF Z
  <2> QED BY <2>1, <2>2
<1>6. g = [x \in (DOMAIN fs \ Below(fs, p)) \cup moved |->
             IF x \in moved THEN fs[p \o SubSeq(x, Len(q) + 1, Len(x))] ELSE fs[x]]
  BY <1>5 DEF Renamed
<1> HIDE DEF g
<1>7. /\ DOMAIN g = (DOMAIN fs \ Below(fs, p)) \cup moved
      /\ \A x \in DOMAIN fs \ Below(fs, p) : x \notin moved => g[x] = fs[x]
      /\ \A z \in Z : g[q \o z] = fs[p \o z]
  <2>1. \A z \in Z : SubSeq(q \o z, Len(q) + 1, Len(q \o z)) = z
    BY ConcatIs
  <2> HIDE DEF Z
  <2> QED BY <1>6, <2>1
<1>8. \A x \in moved : x \in Seq(Names) /\ IsPrefix(q, x)
  <2>1. \A z \in Z : q \o z \in Seq(Names) /\ IsPrefix(q, q \o z)
    BY ConcatIs
  <2> HIDE DEF Z
  <2> QED BY <2>1
<1>9. \A z \in Z : q \o z \in Path
  <2> SUFFICES ASSUME NEW z \in Z PROVE q \o z \in Path
    OBVIOUS
  <2>1. /\ z \in Seq(Names) /\ Len(p \o z) = Len(p) + Len(z) /\ Len(q \o z) = Len(q) + Len(z)
        /\ IsPrefix(p, p \o z) /\ q \o z \in Seq(Names)
    BY ConcatIs
  <2>2. p \o z \in Below(fs, p)
    BY <2>1 DEF Below
  <2>3. Len(p \o z) - Len(p) + Len(q) <= Depth
    BY <1>1, <2>2
  <2>4. Len(p) \in Nat /\ Len(q) \in Nat /\ Len(z) \in Nat
    BY <2>1
  <2>5. Len(q \o z) <= Depth
    <3> DEFINE a == Len(p)
               b == Len(q)
               c == Len(z)
    <3>1. (a + c) - a + b <= Depth /\ a \in Nat /\ b \in Nat /\ c \in Nat
      BY <2>1, <2>3, <2>4
    <3> HIDE DEF a, b, c
    <3>2. b + c <= Depth
      BY <3>1, BoundsAssumption
    <3> QED BY <2>1, <3>2 DEF b, c
  <2> QED BY <2>1, <2>5, PathIs
<1>10. <<>> \in DOMAIN g /\ g[<<>>] = Dir
  <2>0. <<>> \in Seq(Names)
    OBVIOUS
  <2>1. ~IsPrefix(p, <<>>) /\ ~IsPrefix(q, <<>>)
    BY <1>1, <1>2, <2>0, PrefixProperties
  <2>2. <<>> \in DOMAIN fs \ Below(fs, p) /\ <<>> \notin moved
    BY <1>0, <1>8, <2>1 DEF Below
  <2> HIDE DEF moved
  <2> QED BY <1>0, <1>7, <2>2
<1>11. ASSUME NEW x, x \in DOMAIN fs, x \in Seq(Names), ~IsPrefix(p, x), ~IsPrefix(q, x)
       PROVE  x \in DOMAIN g /\ KindIn(g, x) = Kind(x)
  <2>1. x \in DOMAIN fs \ Below(fs, p) /\ x \notin moved
    BY <1>8, <1>11 DEF Below
  <2> HIDE DEF moved
  <2>2. x \in DOMAIN g /\ g[x] = fs[x]
    BY <1>7, <2>1
  <2> QED BY <1>11, <2>2 DEF Kind, KindIn
<1>12. ASSUME NEW z \in Z, q \o z # <<>> PROVE KindIn(g, Front(q \o z)) = "dir"
  <2>1. CASE z = <<>>
    <3>1. q \o z = q
      BY <2>1, ConcatIs
    <3>2. Front(q) \in Seq(Names) /\ IsPrefix(Front(q), q) /\ Front(q) # q
      BY <1>2, FrontIsPrefix
    <3>3. Front(q) \in DOMAIN fs
      BY <1>3, TreeIs DEF Kind
    <3>4. ~IsPrefix(p, Front(q)) /\ ~IsPrefix(q, Front(q))
      BY <1>1, <3>2, PrefixProperties
    <3>5. KindIn(g, Front(q)) = Kind(Front(q))
      BY <1>11, <3>2, <3>3, <3>4
    <3> QED BY <1>3, <3>1, <3>5
  <2>2. CASE z # <<>>
    <3>1. /\ Front(z) \in Seq(Names) /\ Front(q \o z) = q \o Front(z)
          /\ p \o z # <<>> /\ Front(p \o z) = p \o Front(z)
      BY <2>2, ConcatIs
    <3>2. p \o Front(z) \in DOMAIN fs /\ KindIn(fs, p \o Front(z)) = "dir"
      BY <3>1, TreeIs
    <3>3. Front(z) \in Z
      BY <3>1, <3>2
    <3>4. q \o Front(z) \in DOMAIN g /\ g[q \o Front(z)] = fs[p \o Front(z)]
      BY <1>7, <3>3
    <3> QED BY <3>1, <3>2, <3>4 DEF KindIn
  <2> QED BY <2>1, <2>2
<1>13. ASSUME NEW x \in DOMAIN fs \ Below(fs, p), x # <<>>, x \notin moved
       PROVE  KindIn(g, Front(x)) = "dir"
  <2>0. x \in DOMAIN fs /\ x \in Seq(Names) /\ ~IsPrefix(p, x)
    BY <1>0 DEF Below
  <2>1. Front(x) \in Seq(Names) /\ IsPrefix(Front(x), x) /\ Front(x) # x
    BY <1>13, <2>0, FrontIsPrefix
  <2>2. Front(x) \in DOMAIN fs /\ KindIn(fs, Front(x)) = "dir"
    BY <1>13, <2>0, TreeIs
  <2>4. ~IsPrefix(p, Front(x))
    BY <2>0, <2>1, PrefixProperties
  <2>5. ~IsPrefix(q, Front(x))
    <3> SUFFICES ASSUME IsPrefix(q, Front(x)) PROVE FALSE
      OBVIOUS
    <3>1. x = q
      BY <1>4, <2>0, <2>1, PrefixProperties
    <3>2. Front(x) = q
      BY <1>4, <2>2
    <3> QED BY <2>1, <3>1, <3>2
  <2>6. KindIn(g, Front(x)) = Kind(Front(x))
    BY <1>11, <2>1, <2>2, <2>4, <2>5
  <2> QED BY <2>2, <2>6 DEF Kind
<1>14. ASSUME NEW x \in DOMAIN g
       PROVE  x \in Path /\ g[x] \in Node /\ (x # <<>> => KindIn(g, Front(x)) = "dir")
  <2>1. CASE x \in moved
    <3>1. PICK z \in Z : x = q \o z
      BY <2>1
    <3>2. g[x] = fs[p \o z] /\ p \o z \in DOMAIN fs
      BY <1>7, <3>1
    <3> QED BY <1>0, <1>9, <1>12, <3>1, <3>2
  <2>2. CASE x \notin moved
    <3> HIDE DEF moved
    <3>1. x \in DOMAIN fs \ Below(fs, p) /\ g[x] = fs[x]
      BY <1>7, <2>2
    <3> QED BY <1>0, <1>13, <2>2, <3>1
  <2> QED BY <2>1, <2>2
<1>15. IsTree(g)
  BY <1>10, <1>14 DEF IsTree
<1> QED
  BY <1>15 DEF g

-----------------------------------------------------------------------------
(* The inductive invariant. *)

Keys == {"pc", "cmd", "at", "k", "stack", "in", "out", "pos", "res", "start", "others", "failed"}

Ops   == {"none", "rm", "rm -r", "mkdir", "mkdir -p", "cp", "cp -r", "mv"}
Cmd   == [op : Ops, src : Path, dst : Path]
Place == [op : Ops, src : Seq(Names), dst : Seq(Names)]
Frame == [src : Seq(Names), dst : Seq(Names), first : SUBSET Names, seen : SUBSET Names]

\* What a session keeps is well formed; the command it runs began on a tree.
Typed(r) ==
    /\ DOMAIN r = Keys
    /\ r.cmd \in Cmd /\ (r.cmd.op = "mkdir -p" => r.cmd.src # <<>>)
    /\ r.at \in Place /\ r.k \in Nat
    /\ r.stack \in Seq(Frame) /\ (r.pc = "scan" => r.stack # <<>>)
    /\ r.pc \in {"stat", "mkdir"} => r.k \in 1..Len(r.cmd.src)
    /\ r.pc # "idle" => IsTree(r.start.fs)

\* What rm -r removes.
Root(r) == Walk(r.start.fs, r.cmd.src, FALSE)

\* Nothing outside has changed, and no link has come.
Spared(r, f, d) ==
    /\ \A p \in DOMAIN r.start.fs :
          ~IsPrefix(Root(r), p) => p \in DOMAIN f /\ f[p] = r.start.fs[p]
    /\ d = r.start.data
    /\ \A p \in DOMAIN f : KindIn(f, p) = "link" => KindIn(r.start.fs, p) = "link"

\* A path leads into the tree, whether or not a link at its end is followed.
Inside(r, f, p) == IsPrefix(Root(r), Walk(f, p, FALSE)) /\ IsPrefix(Root(r), Walk(f, p, TRUE))

\* rm -r is where it may remove: at the command's own path, or below one on its
\* stack. What it looked at, it looked at without following links, and no link
\* can have come.
Removing(r, f) ==
    /\ r.pc \in {"visit", "opendir", "scan", "rmdir", "unlink", "done"}
    /\ r.pc \in {"visit", "opendir", "rmdir", "unlink"} =>
         /\ IsPrefix(Root(r), Walk(f, r.at.src, FALSE))
         /\ r.stack = <<>> => r.at.src = r.cmd.src
    /\ r.pc = "opendir" => Inside(r, f, r.at.src)
    /\ \A i \in 1..Len(r.stack) : Inside(r, f, r.stack[i].src)
    /\ r.stack # <<>> => r.stack[1].src = r.cmd.src

\* Success is reported at the end, when nothing is left.
Removed(r, f) ==
    r.res = "ok" =>
      /\ r.pc = "done"
      /\ ~Loops(r, r.cmd.src) => \A p \in DOMAIN f : ~IsPrefix(Root(r), p)

RmInv(r, f, d) == Spared(r, f, d) /\ Removing(r, f) /\ Removed(r, f)

Free(r) == \A m \in 1..Len(r.cmd.src) : Was(r, SubSeq(r.cmd.src, 1, m)) \in {"none", "dir"}

\* mkdir -p has made all up to where it is.
MkInv(r, f) ==
    /\ r.pc \in {"stat", "mkdir", "done"} /\ r.k \in 1..Len(r.cmd.src) /\ r.stack = <<>>
    /\ \A m \in 1..Len(r.cmd.src) : KindIn(f, SubSeq(r.cmd.src, 1, m)) \in {"none", "dir"}
    /\ ~r.failed => \A m \in 1..(r.k - 1) : KindIn(f, SubSeq(r.cmd.src, 1, m)) = "dir"
    /\ r.pc = "done" /\ ~r.failed => r.res = "ok" /\ KindIn(f, r.cmd.src) = "dir"

Good(r, f, d) ==
    /\ Typed(r)
    /\ Calm(r) /\ r.cmd.op = "rm -r" => RmInv(r, f, d)
    /\ Calm(r) /\ r.cmd.op = "mkdir -p" /\ Free(r) => MkInv(r, f)

Inv ==
    /\ IsTree(fs)
    /\ DOMAIN st = Sessions
    /\ \A s \in Sessions : Good(st[s], fs, data)

-----------------------------------------------------------------------------
(* Records. *)

LEMMA TypedPaths ==
    ASSUME NEW r, Typed(r)
    PROVE  /\ r.cmd.src \in Seq(Names) /\ r.cmd.dst \in Seq(Names)
           /\ Len(r.cmd.src) \in Nat /\ Len(r.cmd.src) <= Depth
           /\ r.at.src \in Seq(Names) /\ r.at.dst \in Seq(Names)
           /\ \A i \in 1..Len(r.stack) : r.stack[i] \in Frame /\ r.stack[i].src \in Seq(Names)
<1>1. r.cmd.src \in Path /\ r.cmd.dst \in Path
  BY DEF Typed, Cmd
<1>2. r.at.src \in Seq(Names) /\ r.at.dst \in Seq(Names)
  BY DEF Typed, Place
<1>3. \A i \in 1..Len(r.stack) : r.stack[i] \in Frame
  BY ElementOfSeq DEF Typed
<1>4. \A x \in Frame : x.src \in Seq(Names)
  BY DEF Frame
<1>5. /\ r.cmd.src \in Seq(Names) /\ r.cmd.dst \in Seq(Names)
      /\ Len(r.cmd.src) \in Nat /\ Len(r.cmd.src) <= Depth
  BY <1>1, PathIs
<1> QED
  BY <1>2, <1>3, <1>4, <1>5

LEMMA OkIs ==
    ASSUME NEW r, DOMAIN r = Keys
    PROVE  /\ DOMAIN Ok(r) = Keys
           /\ Ok(r).pc = (IF r.stack = <<>> THEN "done" ELSE "scan")
           /\ Ok(r).res = (IF r.stack = <<>> THEN "ok" ELSE "none")
           /\ Ok(r).cmd = r.cmd /\ Ok(r).at = r.at /\ Ok(r).k = r.k /\ Ok(r).stack = r.stack
           /\ Ok(r).start = r.start /\ Ok(r).others = r.others /\ Ok(r).failed = r.failed
BY DEF Ok, Keys

LEMMA ErrIs ==
    ASSUME NEW r, DOMAIN r = Keys
    PROVE  /\ DOMAIN Err(r) = Keys
           /\ Err(r).pc = "done" /\ Err(r).res = "error" /\ Err(r).stack = <<>>
           /\ Err(r).cmd = r.cmd /\ Err(r).at = r.at /\ Err(r).k = r.k
           /\ Err(r).start = r.start /\ Err(r).others = r.others /\ Err(r).failed = r.failed
BY DEF Err, Keys

LEMMA OkTyped ==
    ASSUME NEW r, Typed(r), r.pc # "idle"
    PROVE  Typed(Ok(r))
<1>1. DOMAIN r = Keys
  BY DEF Typed
<1>2. (Ok(r).pc = "scan" => r.stack # <<>>) /\ Ok(r).pc \notin {"stat", "mkdir"}
  BY <1>1, OkIs
<1> QED
  BY <1>1, <1>2, OkIs DEF Typed

LEMMA ErrTyped ==
    ASSUME NEW r, Typed(r), r.pc # "idle"
    PROVE  Typed(Err(r))
<1>1. DOMAIN r = Keys
  BY DEF Typed
<1>2. <<>> \in Seq(Frame) /\ Err(r).pc \notin {"scan", "stat", "mkdir"}
  BY <1>1, ErrIs
<1> QED
  BY <1>1, <1>2, ErrIs DEF Typed

\* What the invariant of rm -r depends on.
SameRm(r, x) ==
    /\ x.pc = r.pc /\ x.cmd = r.cmd /\ x.at = r.at /\ x.stack = r.stack
    /\ x.start = r.start /\ x.res = r.res

SameMk(r, x) ==
    /\ x.pc = r.pc /\ x.cmd = r.cmd /\ x.k = r.k /\ x.stack = r.stack
    /\ x.start = r.start /\ x.res = r.res /\ x.failed = r.failed

LEMMA SameCommand ==
    ASSUME NEW r, NEW x, x.cmd = r.cmd, x.start = r.start
    PROVE  /\ Root(x) = Root(r) /\ (Free(x) <=> Free(r))
           /\ (Loops(x, x.cmd.src) <=> Loops(r, r.cmd.src))
           /\ \A f, p : Inside(x, f, p) <=> Inside(r, f, p)
           /\ \A f, d : Spared(x, f, d) <=> Spared(r, f, d)
<1>1. Root(x) = Root(r)
  BY DEF Root
<1>2. Free(x) <=> Free(r)
  BY DEF Free, Was
<1>3. Loops(x, x.cmd.src) <=> Loops(r, r.cmd.src)
  BY DEF Loops, Was
<1>4. \A f, p : Inside(x, f, p) <=> Inside(r, f, p)
  BY <1>1 DEF Inside
<1>5. \A f, d : Spared(x, f, d) <=> Spared(r, f, d)
  BY <1>1 DEF Spared
<1> QED
  BY <1>1, <1>2, <1>3, <1>4, <1>5

LEMMA SameRmInv ==
    ASSUME NEW r, NEW x, SameRm(r, x), NEW f, NEW d, RmInv(r, f, d)
    PROVE  RmInv(x, f, d)
<1>1. /\ Root(x) = Root(r) /\ (Loops(x, x.cmd.src) <=> Loops(r, r.cmd.src))
      /\ (\A p : Inside(x, f, p) <=> Inside(r, f, p)) /\ (Spared(x, f, d) <=> Spared(r, f, d))
  BY SameCommand DEF SameRm
<1>2. Removing(x, f)
  BY <1>1 DEF RmInv, Removing, SameRm
<1>3. Removed(x, f)
  BY <1>1 DEF RmInv, Removed, SameRm
<1> QED
  BY <1>1, <1>2, <1>3 DEF RmInv

LEMMA SameMkInv ==
    ASSUME NEW r, NEW x, SameMk(r, x), NEW f, MkInv(r, f)
    PROVE  MkInv(x, f)
BY DEF MkInv, SameMk

\* rm -r goes on, or anything else but mkdir -p does.
LEMMA GoodStep ==
    ASSUME NEW r, NEW x, NEW f, NEW d, NEW g, NEW e, Good(r, f, d), Typed(x),
           r.pc \notin {"idle", "stat", "mkdir", "done"},
           x.cmd = r.cmd, x.start = r.start, x.others = r.others,
           Typed(r) /\ RmInv(r, f, d) => RmInv(x, g, e)
    PROVE  Good(x, g, e)
<1>1. Calm(x) => Calm(r)
  BY DEF Calm
<1>2. Free(x) <=> Free(r)
  BY SameCommand
<1>3. ~MkInv(r, f)
  BY DEF MkInv
<1> QED
  BY <1>1, <1>2, <1>3 DEF Good

\* mkdir -p does.
LEMMA GoodMake ==
    ASSUME NEW r, NEW x, NEW f, NEW d, NEW g, NEW e, Good(r, f, d), Typed(x),
           r.pc \in {"stat", "mkdir"},
           x.cmd = r.cmd, x.start = r.start, x.others = r.others,
           MkInv(r, f) => MkInv(x, g)
    PROVE  Good(x, g, e)
<1>1. Calm(x) => Calm(r)
  BY DEF Calm
<1>2. Free(x) <=> Free(r)
  BY SameCommand
<1>3. ~RmInv(r, f, d)
  BY DEF RmInv, Removing
<1> QED
  BY <1>1, <1>2, <1>3 DEF Good

-----------------------------------------------------------------------------
(* Directories made by others. *)

\* g is f and a directory p.
Made(f, g, p) ==
    /\ \A q \in DOMAIN f : q \in DOMAIN g /\ g[q] = f[q]
    /\ \A q : q # p => KindIn(g, q) = KindIn(f, q)
    /\ KindIn(f, p) = "none" /\ KindIn(g, p) = "dir"

LEMMA MadeSameLinks ==
    ASSUME NEW f, NEW g, NEW p, Made(f, g, p)
    PROVE  SameLinks(f, g)
<1>1. \A q : KindIn(f, q) = "link" <=> KindIn(g, q) = "link"
  BY DEF Made
<1>2. \A q : KindIn(f, q) = "link" => q \in DOMAIN f
  BY DEF KindIn
<1>3. \A q \in DOMAIN f : g[q] = f[q]
  BY DEF Made
<1> QED
  BY <1>1, <1>2, <1>3 DEF SameLinks

LEMMA RmMade ==
    ASSUME NEW r, NEW f, NEW g, NEW d, NEW p, Typed(r), Made(f, g, p), RmInv(r, f, d), r.pc # "done"
    PROVE  RmInv(r, g, d)
<1>1. \A q \in Seq(Names) : \A fo \in BOOLEAN : Walk(g, q, fo) = Walk(f, q, fo)
  BY MadeSameLinks, WalkSame
<1>2. \A q \in Seq(Names) : Inside(r, g, q) <=> Inside(r, f, q)
  BY <1>1 DEF Inside
<1>3. r.at.src \in Seq(Names) /\ \A i \in 1..Len(r.stack) : r.stack[i].src \in Seq(Names)
  BY TypedPaths
<1>4. Spared(r, g, d)
  <2>1. \A q \in DOMAIN r.start.fs :
           ~IsPrefix(Root(r), q) => q \in DOMAIN g /\ g[q] = r.start.fs[q]
    BY DEF RmInv, Spared, Made
  <2>2. ASSUME NEW q \in DOMAIN g, KindIn(g, q) = "link" PROVE KindIn(r.start.fs, q) = "link"
    <3>1. KindIn(f, q) = "link"
      BY <2>2 DEF Made
    <3>2. q \in DOMAIN f
      BY <3>1 DEF KindIn
    <3> QED BY <3>1, <3>2 DEF RmInv, Spared
  <2> QED BY <2>1, <2>2 DEF RmInv, Spared
<1>5. Removing(r, g)
  <2>1. Walk(g, r.at.src, FALSE) = Walk(f, r.at.src, FALSE)
    BY <1>1, <1>3
  <2>2. Removing(r, f)
    BY DEF RmInv
  <2> QED BY <1>2, <1>3, <2>1, <2>2 DEF Removing
<1>6. Removed(r, g)
  BY DEF RmInv, Removed
<1> QED
  BY <1>4, <1>5, <1>6 DEF RmInv

LEMMA MkMade ==
    ASSUME NEW r, NEW f, NEW g, NEW p, Made(f, g, p), MkInv(r, f), r.pc # "done"
    PROVE  MkInv(r, g)
<1>1. \A q : KindIn(f, q) \in {"none", "dir"} => KindIn(g, q) \in {"none", "dir"}
  BY DEF Made
<1>2. \A q : KindIn(f, q) = "dir" => KindIn(g, q) = "dir"
  BY DEF Made
<1> QED
  BY <1>1, <1>2 DEF MkInv

\* What a session has not changed leaves all as it was.
LEMMA GoKeeps ==
    ASSUME Inv, NEW s \in Sessions, NEW r, Go(s, r), Good(r, fs, data)
    PROVE  Inv'
<1>1. /\ fs' = fs /\ data' = data /\ DOMAIN st' = Sessions
      /\ \A x \in Sessions : st'[x] = IF x = s THEN r ELSE st[x]
  BY DEF Go, Inv
<1>2. \A x \in Sessions : Good(st'[x], fs', data')
  BY <1>1 DEF Inv
<1>3. IsTree(fs)
  BY DEF Inv
<1>4. IsTree(fs')
  BY <1>1, <1>3
<1> QED
  BY <1>1, <1>2, <1>4 DEF Inv

\* What it has changed, others notice unless they were past it.
LEMMA ChangeKeeps ==
    ASSUME Inv, NEW s \in Sessions, NEW f, NEW d, NEW how, NEW r,
           Change(s, f, d, how, r), IsTree(f), Good(r, f, d),
           how = "anything" \/ (how = "directories" /\ d = data /\ \E p : Made(fs, f, p))
    PROVE  Inv'
<1>1. /\ fs' = f /\ data' = d /\ DOMAIN st' = Sessions
      /\ \A x \in Sessions : st'[x] =
            IF x = s THEN r
            ELSE IF st[x].pc = "idle" \/ st[x].others = "anything" THEN st[x]
            ELSE [st[x] EXCEPT !.others = IF st[x].pc = "done" THEN "anything" ELSE how]
  BY DEF Change
<1>2. ASSUME NEW x \in Sessions PROVE Good(st'[x], f, d)
  <2>0. Good(st[x], fs, data) /\ Typed(st[x])
    BY DEF Inv, Good
  <2>1. CASE x = s
    BY <1>1, <2>1
  <2>2. CASE x # s /\ (st[x].pc = "idle" \/ st[x].others = "anything")
    <3>1. st'[x] = st[x] /\ ~Calm(st[x])
      BY <1>1, <2>2 DEF Calm
    <3> QED BY <2>0, <3>1 DEF Good
  <2>3. CASE x # s /\ ~(st[x].pc = "idle" \/ st[x].others = "anything")
    <3> DEFINE o == st[x]
               z == [o EXCEPT !.others = IF o.pc = "done" THEN "anything" ELSE how]
    <3>1. st'[x] = z
      BY <1>1, <2>3
    <3>2. /\ DOMAIN z = Keys /\ z.others = (IF o.pc = "done" THEN "anything" ELSE how)
          /\ SameRm(o, z) /\ SameMk(o, z) /\ z.at = o.at /\ z.k = o.k
      BY <2>0 DEF Typed, Keys, SameRm, SameMk
    <3>3. Calm(o)
      BY <2>3 DEF Calm
    <3> HIDE DEF z
    <3>4. Typed(z)
      BY <2>0, <3>2 DEF Typed, SameRm
    <3>5. CASE z.others = "anything"
      <4>1. ~Calm(z)
        BY <3>5 DEF Calm
      <4> QED BY <3>1, <3>4, <4>1 DEF Good
    <3>6. CASE z.others # "anything"
      <4>1. o.pc # "done" /\ d = data /\ \E p : Made(fs, f, p)
        BY <3>2, <3>6
      <4>2. PICK p : Made(fs, f, p)
        BY <4>1
      <4> HIDE DEF o
      <4>3. ASSUME z.cmd.op = "rm -r" PROVE RmInv(z, f, d)
        <5>1. RmInv(o, fs, data)
          BY <2>0, <3>2, <3>3, <4>3 DEF Good, SameRm, o
        <5>2. RmInv(o, f, d)
          BY <2>0, <4>1, <4>2, <5>1, RmMade DEF o
        <5> QED BY <3>2, <5>2, SameRmInv
      <4>4. ASSUME z.cmd.op = "mkdir -p", Free(z) PROVE MkInv(z, f)
        <5>1. Free(o)
          BY <3>2, <4>4, SameCommand DEF SameRm
        <5>2. MkInv(o, fs)
          BY <2>0, <3>2, <3>3, <4>4, <5>1 DEF Good, SameRm, o
        <5>3. MkInv(o, f)
          BY <4>1, <4>2, <5>2, MkMade
        <5> QED BY <3>2, <5>3, SameMkInv
      <4> QED BY <3>1, <3>4, <4>3, <4>4 DEF Good
    <3> QED BY <3>5, <3>6
  <2> QED BY <2>1, <2>2, <2>3
<1>3. \A x \in Sessions : Good(st'[x], fs', data')
  BY <1>1, <1>2
<1>4. IsTree(fs')
  BY <1>1
<1> QED
  BY <1>1, <1>3, <1>4 DEF Inv

-----------------------------------------------------------------------------
(* mkdir -p. *)

LEMMA MkWalk ==
    ASSUME NEW r, NEW f, Typed(r), IsTree(f), MkInv(r, f), NEW m \in 1..Len(r.cmd.src)
    PROVE  LET p == SubSeq(r.cmd.src, 1, m)
           IN /\ Walk(f, p, TRUE) = p /\ Walk(f, p, FALSE) = p
              /\ p \in Seq(Names) /\ p # <<>> /\ Len(p) <= Depth
              /\ m = 1 => Front(p) = <<>>
              /\ m # 1 => Front(p) = SubSeq(r.cmd.src, 1, m - 1)
<1> DEFINE src == r.cmd.src
           p == SubSeq(src, 1, m)
<1>0. src \in Seq(Names) /\ Len(src) <= Depth /\ Len(src) \in Nat
  BY TypedPaths
<1>1. \A i \in 1..Len(src) : KindIn(f, SubSeq(src, 1, i)) \in {"none", "dir"}
  BY DEF MkInv
<1>2. m \in 1..Len(src) /\ m \in Nat /\ m <= Len(src) /\ m # 0
  OBVIOUS
<1> HIDE DEF src
<1>3. p \in Seq(Names) /\ Len(p) = m /\ IsPrefix(p, src)
  BY <1>0, <1>2, SubSeqIsPrefix
<1> HIDE DEF p
<1>4. p # <<>> /\ Len(p) <= Depth
  <2>1. Len(<<>>) = 0
    OBVIOUS
  <2>2. m <= Depth
    BY <1>0, <1>2, BoundsAssumption
  <2> QED BY <1>2, <1>3, <2>1, <2>2
<1>5. ASSUME NEW z \in Seq(Names), IsPrefix(z, src) PROVE KindIn(f, z) # "link"
  <2>1. CASE z = <<>>
    <3>1. KindIn(f, z) = "dir"
      BY <2>1, TreeIs
    <3> QED BY <3>1
  <2>2. CASE z # <<>>
    <3>1. z = SubSeq(src, 1, Len(z)) /\ Len(z) \in 1..Len(src)
      BY <1>0, <1>5, <2>2, PrefixIsSubSeq
    <3>2. KindIn(f, z) \in {"none", "dir"}
      BY <1>1, <3>1
    <3> QED BY <3>2
  <2> QED BY <2>1, <2>2
<1>6. Walk(f, p, TRUE) = p /\ Walk(f, p, FALSE) = p
  <2>1. \A z \in Seq(Names) : IsPrefix(z, p) => KindIn(f, z) # "link"
    BY <1>0, <1>3, <1>5, PrefixProperties
  <2> QED BY <1>3, <2>1, WalkPlain
<1>7. Front(p) \in Seq(Names) /\ IsPrefix(Front(p), p) /\ Len(Front(p)) = m - 1
  BY <1>3, <1>4, FrontIs, FrontIsPrefix
<1>8. m = 1 => Front(p) = <<>>
  <2>1. m = 1 => Len(Front(p)) = 0
    BY <1>7
  <2> QED BY <1>7, <2>1, EmptySeq
<1>9. Front(p) = SubSeq(src, 1, m - 1)
  <2>1. IsPrefix(Front(p), src)
    BY <1>0, <1>3, <1>7, PrefixProperties
  <2> QED BY <1>0, <1>7, <2>1, PrefixIsSubSeq
<1> QED
  BY <1>3, <1>4, <1>6, <1>8, <1>9 DEF p, src

LEMMA EnsuredIs ==
    ASSUME NEW r, NEW good \in BOOLEAN, Typed(r), r.pc # "idle"
    PROVE  LET x == Ensured(r, good)
           IN /\ Typed(x) /\ x.cmd = r.cmd /\ x.start = r.start /\ x.others = r.others
              /\ x.failed = r.failed
              /\ r.k < Len(r.cmd.src) => x.pc = "stat" /\ x.k = r.k + 1 /\ x.stack = r.stack
              /\ ~(r.k < Len(r.cmd.src)) /\ good => x = Ok(r)
              /\ ~(r.k < Len(r.cmd.src)) /\ ~good => x = Err(r)
<1> DEFINE x == Ensured(r, good)
<1>0. DOMAIN r = Keys /\ r.k \in Nat
  BY DEF Typed
<1>1. CASE r.k < Len(r.cmd.src)
  <2>1. x = [r EXCEPT !.k = @ + 1, !.pc = "stat"]
    BY <1>1 DEF Ensured
  <2> HIDE DEF x
  <2>2. /\ DOMAIN x = Keys /\ x.k = r.k + 1 /\ x.pc = "stat" /\ x.cmd = r.cmd /\ x.at = r.at
        /\ x.stack = r.stack /\ x.start = r.start /\ x.others = r.others /\ x.failed = r.failed
    BY <1>0, <2>1 DEF Keys
  <2>3. x.k \in Nat /\ x.pc # "scan" /\ x.k \in 1..Len(x.cmd.src)
    <3>1. Len(r.cmd.src) \in Nat
      BY TypedPaths
    <3> QED BY <1>0, <1>1, <2>2, <3>1
  <2>4. Typed(x)
    BY <2>2, <2>3 DEF Typed
  <2> QED BY <1>1, <2>2, <2>4 DEF x
<1>2. CASE ~(r.k < Len(r.cmd.src))
  <2>1. (good => x = Ok(r)) /\ (~good => x = Err(r))
    BY <1>2 DEF Ensured
  <2> HIDE DEF x
  <2>2. Typed(Ok(r)) /\ Typed(Err(r))
    BY OkTyped, ErrTyped
  <2>3. CASE good
    BY <1>0, <1>2, <2>1, <2>2, <2>3, OkIs DEF x
  <2>4. CASE ~good
    BY <1>0, <1>2, <2>1, <2>2, <2>4, ErrIs DEF x
  <2> QED BY <2>3, <2>4
<1> QED
  BY <1>1, <1>2

\* The next prefix, when this one is a directory or something has failed.
LEMMA MkEnsured ==
    ASSUME NEW r, NEW f, NEW good \in BOOLEAN, Typed(r), r.pc \in {"stat", "mkdir"},
           r.k \in 1..Len(r.cmd.src), r.stack = <<>>,
           \A m \in 1..Len(r.cmd.src) : KindIn(f, SubSeq(r.cmd.src, 1, m)) \in {"none", "dir"},
           ~r.failed => good /\ \A m \in 1..r.k : KindIn(f, SubSeq(r.cmd.src, 1, m)) = "dir"
    PROVE  MkInv(Ensured(r, good), f)
<1> DEFINE x == Ensured(r, good)
           src == r.cmd.src
<1>0. DOMAIN r = Keys /\ src \in Seq(Names) /\ Len(src) \in Nat
  <2>1. src \in Seq(Names) /\ Len(src) \in Nat
    BY TypedPaths
  <2>2. DOMAIN r = Keys
    BY DEF Typed
  <2> QED BY <2>1, <2>2
<1>1. CASE r.k < Len(src)
  <2>1. /\ x.pc = "stat" /\ x.k = r.k + 1 /\ x.cmd = r.cmd /\ x.stack = <<>>
        /\ x.failed = r.failed
    BY <1>1, EnsuredIs
  <2> HIDE DEF x
  <2>2. x.k \in 1..Len(src) /\ x.k - 1 = r.k
    BY <1>0, <1>1, <2>1
  <2> QED BY <2>1, <2>2 DEF MkInv, x
<1>2. CASE ~(r.k < Len(src))
  <2>1. r.k = Len(src)
    BY <1>0, <1>2
  <2>2. CASE good
    <3>1. x = Ok(r)
      BY <1>2, <2>2, EnsuredIs
    <3>2. /\ x.pc = "done" /\ x.res = "ok" /\ x.cmd = r.cmd /\ x.k = r.k /\ x.stack = <<>>
          /\ x.failed = r.failed
      BY <1>0, <3>1, OkIs
    <3>3. ~r.failed => KindIn(f, src) = "dir"
      <4>1. SubSeq(src, 1, Len(src)) = src
        BY <1>0, SubSeqFull
      <4> QED BY <2>1, <4>1
    <3>4. \A m \in 1..(r.k - 1) : m \in 1..r.k
      OBVIOUS
    <3> HIDE DEF x
    <3> QED BY <3>2, <3>3, <3>4 DEF MkInv, x
  <2>3. CASE ~good
    <3>1. x = Err(r) /\ r.failed
      BY <1>2, <2>3, EnsuredIs
    <3> HIDE DEF x
    <3>2. /\ x.pc = "done" /\ x.cmd = r.cmd /\ x.k = r.k /\ x.stack = <<>>
          /\ x.failed = r.failed
      BY <1>0, <3>1, ErrIs
    <3> QED BY <3>1, <3>2 DEF MkInv, x
  <2> QED BY <2>2, <2>3
<1> QED
  BY <1>1, <1>2

LEMMA StatKeeps ==
    ASSUME Inv, NEW s \in Sessions, Stat(s)
    PROVE  Inv'
<1> DEFINE r == st[s]
           p == SubSeq(r.cmd.src, 1, r.k)
           kind == Kind(There(p))
           x == IF kind = "none" THEN [r EXCEPT !.pc = "mkdir"] ELSE Ensured(r, kind = "dir")
<1>0. Good(r, fs, data) /\ Typed(r) /\ r.pc = "stat" /\ IsTree(fs)
  BY DEF Inv, Good, Stat
<1>1. Go(s, x)
  BY DEF Stat
<1>2. CASE kind = "none"
  <2>1. x = [r EXCEPT !.pc = "mkdir"]
    BY <1>2
  <2> HIDE DEF x, kind
  <2>2. /\ DOMAIN x = Keys /\ x.pc = "mkdir" /\ x.cmd = r.cmd /\ x.at = r.at /\ x.k = r.k
        /\ x.stack = r.stack /\ x.start = r.start /\ x.others = r.others /\ x.failed = r.failed
    BY <1>0, <2>1 DEF Typed, Keys
  <2>3. Typed(x)
    BY <1>0, <2>2 DEF Typed
  <2>4. MkInv(r, fs) => MkInv(x, fs)
    BY <2>2 DEF MkInv
  <2>5. Good(x, fs, data)
    BY <1>0, <2>2, <2>3, <2>4, GoodMake
  <2> QED BY <1>1, <2>5, GoKeeps
<1>3. CASE kind # "none"
  <2>1. x = Ensured(r, kind = "dir")
    BY <1>3
  <2>2. Typed(x) /\ x.cmd = r.cmd /\ x.start = r.start /\ x.others = r.others
    BY <1>0, <2>1, EnsuredIs
  <2>3. ASSUME MkInv(r, fs) PROVE MkInv(x, fs)
    <3>1. r.k \in 1..Len(r.cmd.src) /\ r.stack = <<>>
      BY <2>3 DEF MkInv
    <3>2. There(p) = p
      BY <1>0, <2>3, <3>1, MkWalk DEF There
    <3>3. KindIn(fs, p) = "dir"
      BY <1>3, <2>3, <3>1, <3>2 DEF MkInv, Kind
    <3>4. kind = "dir"
      BY <3>2, <3>3 DEF Kind
    <3>5. ~r.failed => \A m \in 1..r.k : KindIn(fs, SubSeq(r.cmd.src, 1, m)) = "dir"
      <4>1. \A m \in 1..r.k : m = r.k \/ m \in 1..(r.k - 1)
        BY <3>1
      <4>2. ~r.failed => \A m \in 1..(r.k - 1) : KindIn(fs, SubSeq(r.cmd.src, 1, m)) = "dir"
        BY <2>3 DEF MkInv
      <4> QED BY <3>3, <4>1, <4>2
    <3>6. \A m \in 1..Len(r.cmd.src) : KindIn(fs, SubSeq(r.cmd.src, 1, m)) \in {"none", "dir"}
      BY <2>3 DEF MkInv
    <3> HIDE DEF kind
    <3>7. (kind = "dir") \in BOOLEAN
      OBVIOUS
    <3> QED BY <1>0, <2>1, <3>1, <3>4, <3>5, <3>6, <3>7, MkEnsured
  <2> HIDE DEF x
  <2>4. Good(x, fs, data)
    BY <1>0, <2>2, <2>3, GoodMake
  <2> QED BY <1>1, <2>4, GoKeeps
<1> QED
  BY <1>2, <1>3

\* Made by this session or by another, the prefix is a directory afterwards.
LEMMA MkMakes ==
    ASSUME NEW r, Typed(r), IsTree(fs), r.pc = "mkdir", MkInv(r, fs)
    PROVE  LET p == SubSeq(r.cmd.src, 1, r.k)
           IN /\ Here(p) = p /\ p \in Seq(Names)
              /\ HasRoom(p) => MkInv(Ensured(r, TRUE), Extended(p, Dir))
              /\ ~HasRoom(p) => MkInv(Ensured(r, Kind(p) # "none"), fs)
<1> DEFINE p == SubSeq(r.cmd.src, 1, r.k)
           Upto(f) == \A m \in 1..r.k : KindIn(f, SubSeq(r.cmd.src, 1, m)) = "dir"
           Clear(f) == \A m \in 1..Len(r.cmd.src) : KindIn(f, SubSeq(r.cmd.src, 1, m)) \in {"none", "dir"}
<1>1. r.k \in 1..Len(r.cmd.src) /\ r.stack = <<>> /\ Clear(fs)
  BY DEF MkInv
<1>2. /\ Walk(fs, p, FALSE) = p /\ p \in Seq(Names) /\ p # <<>> /\ Len(p) <= Depth
      /\ r.k = 1 => Front(p) = <<>>
      /\ r.k # 1 => Front(p) = SubSeq(r.cmd.src, 1, r.k - 1)
  BY <1>1, MkWalk
<1>3. Here(p) = p
  BY <1>2 DEF Here
<1>4. ~r.failed => \A m \in 1..(r.k - 1) : KindIn(fs, SubSeq(r.cmd.src, 1, m)) = "dir"
  BY DEF MkInv
<1>5. \A m \in 1..r.k : m = r.k \/ m \in 1..(r.k - 1)
  BY <1>1
<1>6. ASSUME HasRoom(p) PROVE MkInv(Ensured(r, TRUE), Extended(p, Dir))
  <2> DEFINE g == Extended(p, Dir)
  <2>1. KindIn(g, p) = "dir" /\ \A q : q # p => KindIn(g, q) = KindIn(fs, q)
    <3>1. Dir \in Node /\ Dir.kind = "dir"
      BY DEF Node, Dir
    <3> HIDE DEF p
    <3> QED BY <1>2, <1>6, <3>1, TreeExtended
  <2> HIDE DEF g, p
  <2>2. Clear(g)
    BY <1>1, <2>1
  <2>3. ~r.failed => Upto(g)
    BY <1>4, <1>5, <2>1 DEF p
  <2> HIDE DEF Upto, Clear
  <2>4. MkInv(Ensured(r, TRUE), g)
    BY <1>1, <2>2, <2>3, MkEnsured DEF Upto, Clear
  <2> QED BY <2>4 DEF g, p
<1>7. ASSUME ~HasRoom(p) PROVE MkInv(Ensured(r, Kind(p) # "none"), fs)
  <2>1. ~r.failed => Kind(Front(p)) = "dir"
    <3>1. CASE r.k = 1
      BY <1>2, <3>1, TreeIs DEF Kind
    <3>2. CASE r.k # 1
      <4>1. r.k - 1 \in 1..(r.k - 1)
        BY <1>1, <3>2
      <4> QED BY <1>2, <1>4, <3>2, <4>1 DEF Kind
    <3> QED BY <3>1, <3>2
  <2>2. ~r.failed => Kind(p) # "none"
    BY <1>2, <1>7, <2>1 DEF HasRoom
  <2>3. ~r.failed => Kind(p) = "dir"
    BY <1>1, <2>2 DEF Kind
  <2>4. ~r.failed => Upto(fs)
    BY <1>4, <1>5, <2>3 DEF Kind
  <2> DEFINE good == Kind(p) # "none"
  <2>5. good \in BOOLEAN
    OBVIOUS
  <2>6. ~r.failed => good
    BY <2>2
  <2> HIDE DEF good, p
  <2>7. MkInv(Ensured(r, good), fs)
    BY <1>1, <2>4, <2>5, <2>6, MkEnsured
  <2> QED BY <2>7 DEF good, p
<1> QED
  BY <1>2, <1>3, <1>6, <1>7

LEMMA HereTyped ==
    ASSUME IsTree(fs), NEW p \in Seq(Names)
    PROVE  Here(p) \in Seq(Names) /\ There(p) \in Seq(Names)
<1>1. TRUE \in BOOLEAN /\ FALSE \in BOOLEAN
  OBVIOUS
<1> QED
  BY <1>1, WalkTyped DEF Here, There

LEMMA MadeDir ==
    ASSUME IsTree(fs), NEW p \in Seq(Names), HasRoom(p)
    PROVE  IsTree(Extended(p, Dir)) /\ Made(fs, Extended(p, Dir), p)
<1>1. Dir \in Node /\ Dir.kind = "dir"
  BY DEF Node, Dir
<1>2. /\ IsTree(Extended(p, Dir)) /\ KindIn(Extended(p, Dir), p) = "dir"
      /\ \A q \in DOMAIN fs : q \in DOMAIN Extended(p, Dir) /\ Extended(p, Dir)[q] = fs[q]
      /\ \A q : q # p => KindIn(Extended(p, Dir), q) = KindIn(fs, q)
  BY <1>1, TreeExtended
<1>3. KindIn(fs, p) = "none"
  BY DEF HasRoom, Kind
<1> QED
  BY <1>2, <1>3 DEF Made

LEMMA MakeKeeps ==
    ASSUME Inv, NEW s \in Sessions, Make(s)
    PROVE  Inv'
<1> DEFINE r == st[s]
           z == SubSeq(r.cmd.src, 1, r.k)
           p == Here(z)
<1>0. Good(r, fs, data) /\ Typed(r) /\ r.pc = "mkdir" /\ IsTree(fs)
  BY DEF Inv, Good, Make
<1>1. p \in Seq(Names)
  <2>1. r.k \in Nat /\ r.k <= Len(r.cmd.src)
    <3>1. r.k \in 1..Len(r.cmd.src)
      BY <1>0 DEF Typed
    <3>2. Len(r.cmd.src) \in Nat
      BY <1>0, TypedPaths
    <3> QED BY <3>1, <3>2
  <2>2. z \in Seq(Names)
    BY <1>0, <2>1, TypedPaths, SubSeqIsPrefix
  <2> QED BY <1>0, <2>2, HereTyped
<1>2. IF HasRoom(p) THEN Change(s, Extended(p, Dir), data, "directories", Ensured(r, TRUE))
      ELSE Go(s, Ensured(r, Kind(p) # "none"))
  BY DEF Make
<1>3. MkInv(r, fs) => /\ z = p
                      /\ HasRoom(z) => MkInv(Ensured(r, TRUE), Extended(z, Dir))
                      /\ ~HasRoom(z) => MkInv(Ensured(r, Kind(z) # "none"), fs)
  BY <1>0, MkMakes
<1> HIDE DEF p, z
<1>4. CASE HasRoom(p)
  <2> DEFINE x == Ensured(r, TRUE)
             g == Extended(p, Dir)
  <2>1. Typed(x) /\ x.cmd = r.cmd /\ x.start = r.start /\ x.others = r.others
    BY <1>0, EnsuredIs
  <2>2. IsTree(g) /\ Made(fs, g, p)
    BY <1>0, <1>1, <1>4, MadeDir
  <2>3. MkInv(r, fs) => MkInv(x, g)
    BY <1>3, <1>4
  <2>4. Change(s, g, data, "directories", x)
    BY <1>2, <1>4
  <2> HIDE DEF x, g
  <2>5. Good(x, g, data)
    BY <1>0, <2>1, <2>3, GoodMake
  <2> QED BY <2>2, <2>4, <2>5, ChangeKeeps
<1>5. CASE ~HasRoom(p)
  <2> DEFINE good == Kind(p) # "none"
             x == Ensured(r, good)
  <2>0. good \in BOOLEAN
    OBVIOUS
  <2>1. Go(s, x) /\ (MkInv(r, fs) => MkInv(x, fs))
    BY <1>2, <1>3, <1>5
  <2> HIDE DEF good
  <2>2. Typed(x) /\ x.cmd = r.cmd /\ x.start = r.start /\ x.others = r.others
    BY <1>0, <2>0, EnsuredIs
  <2> HIDE DEF x
  <2>3. Good(x, fs, data)
    BY <1>0, <2>1, <2>2, GoodMake
  <2> QED BY <2>1, <2>3, GoKeeps
<1> QED
  BY <1>4, <1>5

LEMMA StatFailsKeeps ==
    ASSUME Inv, NEW s \in Sessions, StatFails(s)
    PROVE  Inv'
<1> DEFINE r == st[s]
           x == [r EXCEPT !.pc = "mkdir", !.failed = TRUE]
<1>0. Good(r, fs, data) /\ Typed(r) /\ r.pc = "stat" /\ Go(s, x)
  BY DEF Inv, Good, StatFails
<1>1. /\ DOMAIN x = Keys /\ x.pc = "mkdir" /\ x.cmd = r.cmd /\ x.at = r.at /\ x.k = r.k
      /\ x.stack = r.stack /\ x.start = r.start /\ x.others = r.others /\ x.failed = TRUE
  BY <1>0 DEF Typed, Keys
<1> HIDE DEF x
<1>2. Typed(x)
  BY <1>0, <1>1 DEF Typed
<1>3. MkInv(r, fs) => MkInv(x, fs)
  BY <1>1 DEF MkInv
<1>4. Good(x, fs, data)
  BY <1>0, <1>1, <1>2, <1>3, GoodMake
<1> QED
  BY <1>0, <1>4, GoKeeps

LEMMA MakeFailsKeeps ==
    ASSUME Inv, NEW s \in Sessions, MakeFails(s)
    PROVE  Inv'
<1> DEFINE r == st[s]
           y == Ensured(r, FALSE)
           x == [y EXCEPT !.failed = TRUE]
<1>0. Good(r, fs, data) /\ Typed(r) /\ r.pc \in {"stat", "mkdir"} /\ Go(s, x)
  BY DEF Inv, Good, MakeFails
<1>1. /\ Typed(y) /\ y.cmd = r.cmd /\ y.start = r.start /\ y.others = r.others
      /\ r.k < Len(r.cmd.src) => y.pc = "stat" /\ y.k = r.k + 1 /\ y.stack = r.stack
      /\ ~(r.k < Len(r.cmd.src)) => y = Err(r)
  BY <1>0, EnsuredIs
<1> HIDE DEF y
<1>2. /\ DOMAIN x = Keys /\ x.failed = TRUE /\ x.pc = y.pc /\ x.cmd = y.cmd /\ x.at = y.at
      /\ x.k = y.k /\ x.stack = y.stack /\ x.start = y.start /\ x.others = y.others
  BY <1>1 DEF Typed, Keys
<1> HIDE DEF x
<1>3. Typed(x)
  BY <1>1, <1>2 DEF Typed
<1>4. ASSUME MkInv(r, fs) PROVE MkInv(x, fs)
  <2>1. /\ x.k \in 1..Len(r.cmd.src) /\ x.stack = <<>> /\ x.pc \in {"stat", "done"}
    <3>1. /\ r.k \in 1..Len(r.cmd.src) /\ r.stack = <<>> /\ DOMAIN r = Keys
          /\ Len(r.cmd.src) \in Nat
      BY <1>0, <1>4, TypedPaths DEF MkInv, Typed
    <3>2. CASE r.k < Len(r.cmd.src)
      BY <1>1, <1>2, <3>1, <3>2
    <3>3. CASE ~(r.k < Len(r.cmd.src))
      BY <1>1, <1>2, <3>1, <3>3, ErrIs
    <3> QED BY <3>2, <3>3
  <2> QED BY <1>1, <1>2, <1>4, <2>1 DEF MkInv
<1>5. Good(x, fs, data)
  BY <1>0, <1>1, <1>2, <1>3, <1>4, GoodMake
<1> QED
  BY <1>0, <1>5, GoKeeps

-----------------------------------------------------------------------------
(* The other commands. *)

LEMMA RmErr ==
    ASSUME NEW r, NEW f, NEW d, DOMAIN r = Keys, RmInv(r, f, d)
    PROVE  RmInv(Err(r), f, d)
<1> DEFINE x == Err(r)
<1>1. /\ x.pc = "done" /\ x.res = "error" /\ x.stack = <<>> /\ x.cmd = r.cmd /\ x.start = r.start
  BY ErrIs
<1> HIDE DEF x
<1>2. Spared(x, f, d)
  BY <1>1, SameCommand DEF RmInv
<1>3. Removing(x, f)
  <2>1. \A i \in 1..Len(x.stack) : FALSE
    BY <1>1
  <2> QED BY <1>1, <2>1 DEF Removing
<1>4. Removed(x, f)
  BY <1>1 DEF Removed
<1>5. RmInv(x, f, d)
  BY <1>2, <1>3, <1>4 DEF RmInv
<1> QED
  BY <1>5 DEF x

\* An error ends any command but mkdir -p.
LEMMA GoodErr ==
    ASSUME NEW r, NEW f, NEW d, Good(r, f, d), r.pc \notin {"idle", "stat", "mkdir", "done"}
    PROVE  Good(Err(r), f, d)
<1>1. Typed(r) /\ DOMAIN r = Keys
  BY DEF Good, Typed
<1>2. Typed(Err(r)) /\ Err(r).cmd = r.cmd /\ Err(r).start = r.start /\ Err(r).others = r.others
  BY <1>1, ErrTyped, ErrIs
<1>3. RmInv(r, f, d) => RmInv(Err(r), f, d)
  BY <1>1, RmErr
<1> QED
  BY <1>2, <1>3, GoodStep

\* Commands of one call, and cp.
Elsewhere == {"call", "open", "create", "copy", "mkdst"}

LEMMA GoodElsewhere ==
    ASSUME NEW r, NEW x, NEW f, NEW d, NEW g, NEW e, Good(r, f, d), Typed(x), r.pc \in Elsewhere,
           x.cmd = r.cmd, x.start = r.start, x.others = r.others
    PROVE  Good(x, g, e)
<1>1. ~RmInv(r, f, d)
  BY DEF RmInv, Removing, Elsewhere
<1>2. r.pc \notin {"idle", "stat", "mkdir", "done"}
  BY DEF Elsewhere
<1> QED
  BY <1>1, <1>2, GoodStep

LEMMA GoodOk ==
    ASSUME NEW r, NEW f, NEW d, NEW g, NEW e, Good(r, f, d), r.pc \in Elsewhere
    PROVE  Good(Ok(r), g, e)
<1>1. Typed(r) /\ DOMAIN r = Keys /\ r.pc # "idle"
  BY DEF Good, Typed, Elsewhere
<1>2. Typed(Ok(r)) /\ Ok(r).cmd = r.cmd /\ Ok(r).start = r.start /\ Ok(r).others = r.others
  BY <1>1, OkTyped, OkIs
<1> QED
  BY <1>2, GoodElsewhere

LEMMA IdleTyped ==
    Typed(Idle) /\ ~Calm(Idle)
<1>0. <<>> \in Seq(Names) /\ <<>> \in Seq(Frame) /\ Len(<<>>) = 0 /\ 0 <= Depth
  BY BoundsAssumption
<1>1. <<>> \in Path
  BY <1>0, PathIs
<1>2. NoCmd \in Cmd
  BY <1>1 DEF NoCmd, Cmd, Ops
<1>3. NoCmd \in Place
  BY <1>0 DEF NoCmd, Place, Ops
<1>4. NoCmd.op # "mkdir -p"
  BY DEF NoCmd
<1> QED BY <1>0, <1>2, <1>3, <1>4 DEF Idle, Typed, Calm, Keys

LEMMA EndKeeps ==
    ASSUME Inv, NEW s \in Sessions, End(s)
    PROVE  Inv'
<1>1. Good(Idle, fs, data)
  BY IdleTyped DEF Good
<1> QED
  BY <1>1, GoKeeps DEF End

LEMMA CallFailsKeeps ==
    ASSUME Inv, NEW s \in Sessions, CallFails(s)
    PROVE  Inv'
<1> DEFINE r == st[s]
           y == Err(r)
           x == [y EXCEPT !.failed = TRUE]
<1>0. Good(r, fs, data) /\ Typed(r) /\ r.pc \notin {"idle", "stat", "mkdir", "done"} /\ Go(s, x)
  BY DEF Inv, Good, CallFails
<1>1. Good(y, fs, data) /\ Typed(y) /\ DOMAIN y = Keys /\ y.pc = "done"
      /\ y.cmd = r.cmd /\ y.start = r.start /\ y.others = r.others
  <2>1. DOMAIN r = Keys
    BY <1>0 DEF Typed
  <2>2. Good(y, fs, data)
    BY <1>0, GoodErr
  <2> QED BY <2>1, <2>2, ErrIs DEF Good
<1> HIDE DEF y
<1>2. /\ DOMAIN x = Keys /\ SameRm(y, x) /\ x.k = y.k /\ x.at = y.at /\ x.others = y.others
  BY <1>1 DEF SameRm, Keys
<1> HIDE DEF x
<1>3. Typed(x)
  BY <1>1, <1>2 DEF Typed, SameRm
<1>4. RmInv(r, fs, data) => RmInv(x, fs, data)
  <2>1. RmInv(r, fs, data) => RmInv(y, fs, data)
    BY <1>0, RmErr DEF y, Typed
  <2> QED BY <1>2, <2>1, SameRmInv
<1>5. x.cmd = r.cmd /\ x.start = r.start /\ x.others = r.others
  BY <1>1, <1>2 DEF SameRm
<1>6. Good(x, fs, data)
  BY <1>0, <1>3, <1>4, <1>5, GoodStep
<1> QED
  BY <1>0, <1>6, GoKeeps

\* A session that goes on elsewhere with the same command.
Onward(r, x) ==
    /\ DOMAIN x = Keys /\ x.cmd = r.cmd /\ x.start = r.start /\ x.others = r.others
    /\ x.at = r.at /\ x.k = r.k /\ x.stack = r.stack
    /\ x.pc \notin {"idle", "scan", "stat", "mkdir"}

LEMMA OnwardTyped ==
    ASSUME NEW r, NEW x, Typed(r), r.pc # "idle", Onward(r, x)
    PROVE  Typed(x)
BY DEF Typed, Onward

LEMMA GoodOnward ==
    ASSUME NEW r, NEW x, NEW f, NEW d, NEW g, NEW e, Good(r, f, d), r.pc \in Elsewhere, Onward(r, x)
    PROVE  Good(x, g, e)
<1>1. Typed(r) /\ r.pc # "idle"
  BY DEF Good, Elsewhere
<1>2. Typed(x)
  BY <1>1, OnwardTyped
<1> QED
  BY <1>2, GoodElsewhere DEF Onward

LEMMA LeafIs ==
    ASSUME IsTree(fs), NEW q \in Seq(Names), Kind(q) \in {"file", "link"}
    PROVE  q \in DOMAIN fs /\ q # <<>> /\ Entries(q) = {}
<1>1. q \in DOMAIN fs /\ q # <<>>
  BY TreeIs DEF Kind
<1>2. ASSUME NEW x \in Names, Append(q, x) \in DOMAIN fs PROVE FALSE
  <2>1. Append(q, x) # <<>> /\ Front(Append(q, x)) = q
    BY AppendIs
  <2>2. KindIn(fs, q) = "dir"
    BY <1>2, <2>1, TreeIs
  <2> QED BY <2>2 DEF Kind
<1> QED
  BY <1>1, <1>2 DEF Entries

LEMMA CallKeeps ==
    ASSUME Inv, NEW s \in Sessions, Call(s)
    PROVE  Inv'
<1> DEFINE r == st[s]
           c == r.cmd
<1>0. Good(r, fs, data) /\ Typed(r) /\ r.pc = "call" /\ IsTree(fs)
  BY DEF Inv, Good, Call
<1>1. Good(Err(r), fs, data) /\ \A g, e : Good(Ok(r), g, e)
  <2>1. r.pc \in Elsewhere /\ r.pc \notin {"idle", "stat", "mkdir", "done"}
    BY <1>0 DEF Elsewhere
  <2>2. Good(Err(r), fs, data)
    BY <1>0, <2>1, GoodErr
  <2>3. \A g, e : Good(Ok(r), g, e)
    BY <1>0, <2>1, GoodOk
  <2> QED BY <2>2, <2>3
<1>2. c.src \in Seq(Names) /\ c.dst \in Seq(Names)
  BY <1>0, TypedPaths
<1>3. Here(c.src) \in Seq(Names) /\ Here(c.dst) \in Seq(Names)
  BY <1>0, <1>2, HereTyped
<1>4. CASE Unlink(s, c.src)
  <2> DEFINE q == Here(c.src)
  <2>1. CASE Kind(q) \in {"file", "link"}
    <3>1. Change(s, Without({q}), data, "anything", Ok(r))
      BY <1>4, <2>1 DEF Unlink
    <3>2. IsTree(Without({q}))
      BY <1>0, <1>3, <2>1, LeafIs, TreeWithout
    <3> QED BY <1>1, <3>1, <3>2, ChangeKeeps
  <2>2. CASE Kind(q) \notin {"file", "link"}
    <3>1. Go(s, Err(r))
      BY <1>4, <2>2 DEF Unlink
    <3> QED BY <1>1, <3>1, GoKeeps
  <2> QED BY <2>1, <2>2
<1>5. CASE Mkdir(s, c.src)
  <2> DEFINE q == Here(c.src)
  <2>1. CASE HasRoom(q)
    <3>1. Change(s, Extended(q, Dir), data, "directories", Ok(r))
      BY <1>5, <2>1 DEF Mkdir
    <3>2. IsTree(Extended(q, Dir)) /\ Made(fs, Extended(q, Dir), q)
      BY <1>0, <1>3, <2>1, MadeDir
    <3> QED BY <1>1, <3>1, <3>2, ChangeKeeps
  <2>2. CASE ~HasRoom(q)
    <3>1. Go(s, Err(r))
      BY <1>5, <2>2 DEF Mkdir
    <3> QED BY <1>1, <3>1, GoKeeps
  <2> QED BY <2>1, <2>2
<1>6. CASE Rename(s, c.src, c.dst)
  <2> DEFINE p == Here(c.src)
             q == Here(c.dst)
  <2>1. CASE p = q /\ Kind(p) # "none"
    <3>1. Go(s, Ok(r))
      BY <1>6, <2>1 DEF Rename
    <3> QED BY <1>1, <3>1, GoKeeps
  <2>2. CASE ~(p = q /\ Kind(p) # "none") /\ CanRename(p, q)
    <3>1. Change(s, Renamed(p, q), data, "anything", Ok(r))
      BY <1>6, <2>2 DEF Rename
    <3>2. IsTree(Renamed(p, q))
      BY <1>0, <1>3, <2>2, TreeRenamed
    <3> QED BY <1>1, <3>1, <3>2, ChangeKeeps
  <2>3. CASE ~(p = q /\ Kind(p) # "none") /\ ~CanRename(p, q)
    <3>1. Go(s, Err(r))
      BY <1>6, <2>3 DEF Rename
    <3> QED BY <1>1, <3>1, GoKeeps
  <2> QED BY <2>1, <2>2, <2>3
<1> QED
  BY <1>4, <1>5, <1>6 DEF Call

LEMMA VisitCpKeeps ==
    ASSUME Inv, NEW s \in Sessions, VisitCp(s)
    PROVE  Inv'
<1> DEFINE r == st[s]
           kind == Looks(r.at.src)
           m == [r EXCEPT !.pc = "mkdst"]
           o == [r EXCEPT !.pc = "open"]
<1>0. Good(r, fs, data) /\ Typed(r) /\ DOMAIN r = Keys /\ r.pc = "visit" /\ r.cmd.op = "cp -r"
  BY DEF Inv, Good, VisitCp, Typed
<1>1. Go(s, Err(r)) \/ Go(s, m) \/ Go(s, o)
  <2>1. Go(s, CASE kind = "none" -> Err(r) [] kind = "dir" -> m [] OTHER -> o)
    BY DEF VisitCp
  <2>2. CASE kind = "none"
    BY <2>1, <2>2
  <2>3. CASE kind = "dir"
    BY <2>1, <2>3
  <2>4. CASE kind \notin {"none", "dir"}
    BY <2>1, <2>4
  <2> QED BY <2>2, <2>3, <2>4
<1>2. Good(Err(r), fs, data)
  BY <1>0, GoodErr
<1>3. Onward(r, m) /\ Onward(r, o)
  BY <1>0 DEF Onward, Keys
<1> HIDE DEF m, o
<1>4. ASSUME NEW x, Onward(r, x) PROVE Good(x, fs, data)
  <2>1. Typed(x)
    BY <1>0, <1>4, OnwardTyped
  <2>2. x.cmd.op # "rm -r" /\ x.cmd.op # "mkdir -p"
    BY <1>0, <1>4 DEF Onward
  <2> QED BY <2>1, <2>2 DEF Good
<1> QED
  BY <1>1, <1>2, <1>3, <1>4, GoKeeps

LEMMA MakeDstKeeps ==
    ASSUME Inv, NEW s \in Sessions, MakeDst(s)
    PROVE  Inv'
<1> DEFINE o == st[s]
           p == Here(o.at.dst)
           r == [o EXCEPT !.pc = "opendir"]
           x == [r EXCEPT !.failed = @ \/ HasRoom(p)]
<1>0. Good(o, fs, data) /\ Typed(o) /\ DOMAIN o = Keys /\ o.pc = "mkdst" /\ IsTree(fs)
  BY DEF Inv, Good, MakeDst, Typed
<1>1. \/ HasRoom(p) /\ Change(s, Extended(p, Dir), data, "directories", r)
      \/ Go(s, x)
  BY DEF MakeDst
<1>2. Onward(o, r) /\ Onward(o, x)
  BY <1>0 DEF Onward, Keys
<1> HIDE DEF r, x
<1>3. \A g, e : Good(r, g, e) /\ Good(x, g, e)
  <2>1. o.pc \in Elsewhere
    BY <1>0 DEF Elsewhere
  <2> QED BY <1>0, <1>2, <2>1, GoodOnward
<1>4. p \in Seq(Names)
  BY <1>0, TypedPaths, HereTyped
<1>5. HasRoom(p) => IsTree(Extended(p, Dir)) /\ Made(fs, Extended(p, Dir), p)
  BY <1>0, <1>4, MadeDir
<1> HIDE DEF p
<1>6. CASE HasRoom(p) /\ Change(s, Extended(p, Dir), data, "directories", r)
  BY <1>3, <1>5, <1>6, ChangeKeeps
<1>7. CASE Go(s, x)
  BY <1>3, <1>7, GoKeeps
<1> QED
  BY <1>1, <1>6, <1>7

LEMMA OpenInKeeps ==
    ASSUME Inv, NEW s \in Sessions, OpenIn(s)
    PROVE  Inv'
<1> DEFINE r == st[s]
           p == There(r.at.src)
           i == [r EXCEPT !.pc = "create", !.in = fs[p].ino]
           o == [r EXCEPT !.pc = "create"]
<1>0. Good(r, fs, data) /\ Typed(r) /\ DOMAIN r = Keys /\ r.pc = "open"
  BY DEF Inv, Good, OpenIn, Typed
<1>1. Go(s, Err(r)) \/ Go(s, i) \/ Go(s, o)
  <2>1. Go(s, CASE Kind(p) = "file" -> i [] Kind(p) = "dir" -> o [] OTHER -> Err(r))
    BY DEF OpenIn
  <2>2. CASE Kind(p) = "file"
    BY <2>1, <2>2
  <2>3. CASE Kind(p) = "dir"
    BY <2>1, <2>3
  <2>4. CASE Kind(p) \notin {"file", "dir"}
    BY <2>1, <2>4
  <2> QED BY <2>2, <2>3, <2>4
<1>2. Good(Err(r), fs, data)
  BY <1>0, GoodErr
<1>3. Onward(r, i) /\ Onward(r, o)
  BY <1>0 DEF Onward, Keys
<1> HIDE DEF i, o
<1>4. Good(i, fs, data) /\ Good(o, fs, data)
  <2>1. r.pc \in Elsewhere
    BY <1>0 DEF Elsewhere
  <2> QED BY <1>0, <1>3, <2>1, GoodOnward
<1> QED
  BY <1>1, <1>2, <1>4, GoKeeps

LEMMA CreateKeeps ==
    ASSUME Inv, NEW s \in Sessions, Create(s)
    PROVE  Inv'
<1> DEFINE r == st[s]
           p == There(r.at.dst)
           Opened(i) == [r EXCEPT !.pc = "copy", !.out = i]
           n == CHOOSE j \in Inodes : j \notin InUse
<1>0. /\ Good(r, fs, data) /\ Typed(r) /\ DOMAIN r = Keys /\ r.pc = "create" /\ IsTree(fs)
      /\ r.pc \in Elsewhere
  BY DEF Inv, Good, Create, Typed, Elsewhere
<1>1. \A i : Onward(r, Opened(i))
  BY <1>0 DEF Onward, Keys
<1>2. ASSUME NEW i, NEW g, NEW e PROVE Good(Opened(i), g, e)
  <2>1. Onward(r, Opened(i))
    BY <1>1
  <2> HIDE DEF Opened
  <2> QED BY <1>0, <2>1, GoodOnward
<1>3. p \in Seq(Names)
  BY <1>0, TypedPaths, HereTyped
<1>4. \/ Change(s, fs, [data EXCEPT ![fs[p].ino] = <<>>], "anything", Opened(fs[p].ino))
      \/ /\ HasRoom(p) /\ Inodes \ InUse # {}
         /\ Change(s, Extended(p, File(n)), [data EXCEPT ![n] = <<>>], "anything", Opened(n))
      \/ Go(s, Err(r))
  BY DEF Create
<1> HIDE DEF Opened
<1>5. CASE Change(s, fs, [data EXCEPT ![fs[p].ino] = <<>>], "anything", Opened(fs[p].ino))
  BY <1>0, <1>2, <1>5, ChangeKeeps
<1>6. CASE /\ HasRoom(p) /\ Inodes \ InUse # {}
           /\ Change(s, Extended(p, File(n)), [data EXCEPT ![n] = <<>>], "anything", Opened(n))
  <2>1. \E j \in Inodes : j \notin InUse
    BY <1>6
  <2>2. n \in Inodes
    BY <2>1
  <2> HIDE DEF n
  <2>3. File(n) \in Node
    BY <2>2 DEF Node
  <2>4. IsTree(Extended(p, File(n)))
    BY <1>0, <1>3, <1>6, <2>3, TreeExtended
  <2> QED BY <1>2, <1>6, <2>4, ChangeKeeps
<1>7. CASE Go(s, Err(r))
  <2>1. Good(Err(r), fs, data)
    BY <1>0, GoodErr
  <2> QED BY <1>7, <2>1, GoKeeps
<1> QED
  BY <1>4, <1>5, <1>6, <1>7

LEMMA CopyBlockKeeps ==
    ASSUME Inv, NEW s \in Sessions, CopyBlock(s)
    PROVE  Inv'
<1> DEFINE r == st[s]
           x == [r EXCEPT !.pos = @ + 1]
<1>0. /\ Good(r, fs, data) /\ Typed(r) /\ DOMAIN r = Keys /\ r.pc = "copy" /\ IsTree(fs)
      /\ r.pc \in Elsewhere
  BY DEF Inv, Good, CopyBlock, Typed, Elsewhere
<1>1. \E e : Change(s, fs, e, "anything", x)
  BY DEF CopyBlock
<1>2. Onward(r, x)
  BY <1>0 DEF Onward, Keys
<1> HIDE DEF x
<1>3. \A e : Good(x, fs, e)
  BY <1>0, <1>2, GoodOnward
<1> QED
  BY <1>0, <1>1, <1>3, ChangeKeeps

LEMMA CopyEndsKeeps ==
    ASSUME Inv, NEW s \in Sessions, CopyEnds(s)
    PROVE  Inv'
<1> DEFINE r == st[s]
<1>0. Good(r, fs, data) /\ r.pc = "copy" /\ r.pc \in Elsewhere
  BY DEF Inv, CopyEnds, Elsewhere
<1>1. Go(s, Err(r)) \/ Go(s, Ok(r))
  BY DEF CopyEnds
<1>2. Good(Err(r), fs, data) /\ Good(Ok(r), fs, data)
  BY <1>0, GoodErr, GoodOk
<1> QED
  BY <1>1, <1>2, GoKeeps

-----------------------------------------------------------------------------
(* rm -r, and the parts of cp -r that they share. *)

LEMMA RootTyped ==
    ASSUME NEW r, Typed(r), r.pc # "idle"
    PROVE  Root(r) \in Seq(Names)
<1>1. IsTree(r.start.fs) /\ r.cmd.src \in Seq(Names) /\ FALSE \in BOOLEAN
  BY TypedPaths DEF Typed
<1> QED
  BY <1>1, WalkTyped DEF Root

LEMMA VisitRmKeeps ==
    ASSUME Inv, NEW s \in Sessions, VisitRm(s)
    PROVE  Inv'
<1> DEFINE r == st[s]
           kind == Looks(r.at.src)
           o == [r EXCEPT !.pc = "opendir"]
           u == [r EXCEPT !.pc = "unlink"]
<1>0. Good(r, fs, data) /\ Typed(r) /\ DOMAIN r = Keys /\ r.pc = "visit"
  BY DEF Inv, Good, VisitRm, Typed
<1>1. Go(s, Err(r)) \/ (kind = "dir" /\ Go(s, o)) \/ Go(s, u)
  <2>1. Go(s, CASE kind = "none" -> Err(r) [] kind = "dir" -> o [] OTHER -> u)
    BY DEF VisitRm
  <2>2. CASE kind = "none"
    BY <2>1, <2>2
  <2>3. CASE kind = "dir"
    BY <2>1, <2>3
  <2>4. CASE kind \notin {"none", "dir"}
    BY <2>1, <2>4
  <2> QED BY <2>2, <2>3, <2>4
<1>2. Good(Err(r), fs, data)
  BY <1>0, GoodErr
<1>3. /\ Onward(r, o) /\ o.pc = "opendir" /\ o.res = r.res
      /\ Onward(r, u) /\ u.pc = "unlink" /\ u.res = r.res
  BY <1>0 DEF Onward, Keys
<1> HIDE DEF o, u
<1>4. ASSUME NEW x, Onward(r, x), x.res = r.res,
             x.pc = "unlink" \/ (x.pc = "opendir" /\ kind = "dir")
      PROVE  Good(x, fs, data)
  <2>1. Typed(x)
    BY <1>0, <1>4, OnwardTyped
  <2>2. ASSUME RmInv(r, fs, data) PROVE RmInv(x, fs, data)
    <3>1. /\ Root(x) = Root(r) /\ (\A p : Inside(x, fs, p) <=> Inside(r, fs, p))
          /\ Spared(x, fs, data)
      BY <1>4, <2>2, SameCommand DEF Onward, RmInv
    <3>2. Removed(x, fs)
      BY <1>0, <1>4, <2>2 DEF RmInv, Removed
    <3>3. /\ IsPrefix(Root(r), Walk(fs, r.at.src, FALSE))
          /\ r.stack = <<>> => r.at.src = r.cmd.src
          /\ \A i \in 1..Len(r.stack) : Inside(r, fs, r.stack[i].src)
          /\ r.stack # <<>> => r.stack[1].src = r.cmd.src
      BY <1>0, <2>2 DEF RmInv, Removing
    <3>4. kind = "dir" => Inside(r, fs, r.at.src)
      <4>1. r.at.src \in Seq(Names)
        BY <1>0, TypedPaths
      <4>2. kind = "dir" => KindIn(fs, Walk(fs, r.at.src, FALSE)) # "link"
        BY DEF Looks, Kind, Here
      <4>3. kind = "dir" => Walk(fs, r.at.src, TRUE) = Walk(fs, r.at.src, FALSE)
        BY <4>1, <4>2, WalkEnd
      <4> QED BY <3>3, <4>3 DEF Inside
    <3> HIDE DEF kind
    <3>5. /\ x.at = r.at /\ x.stack = r.stack /\ x.cmd = r.cmd
          /\ x.pc \in {"opendir", "unlink"} /\ (x.pc = "opendir" => kind = "dir")
      BY <1>4 DEF Onward
    <3>6. Removing(x, fs)
      BY <3>1, <3>3, <3>4, <3>5 DEF Removing
    <3> QED BY <3>1, <3>2, <3>6 DEF RmInv
  <2> QED BY <1>0, <1>4, <2>1, <2>2, GoodStep DEF Onward
<1> QED
  BY <1>1, <1>2, <1>3, <1>4, GoKeeps

LEMMA OpenDirKeeps ==
    ASSUME Inv, NEW s \in Sessions, OpenDir(s)
    PROVE  Inv'
<1> DEFINE r == st[s]
           p == There(r.at.src)
           frame == [src |-> r.at.src, dst |-> r.at.dst, first |-> Entries(p), seen |-> {}]
           x == [r EXCEPT !.pc = "scan", !.stack = Append(@, frame)]
<1>0. Good(r, fs, data) /\ Typed(r) /\ DOMAIN r = Keys /\ r.pc = "opendir"
  BY DEF Inv, Good, OpenDir, Typed
<1>1. Go(s, Err(r)) \/ Go(s, x)
  <2>1. Go(s, IF Kind(p) # "dir" THEN Err(r) ELSE x)
    BY DEF OpenDir
  <2>2. CASE Kind(p) = "dir"
    BY <2>1, <2>2
  <2>3. CASE Kind(p) # "dir"
    BY <2>1, <2>3
  <2> QED BY <2>2, <2>3
<1>2. Good(Err(r), fs, data)
  BY <1>0, GoodErr
<1>3. frame \in Frame /\ frame.src = r.at.src
  <2>1. Entries(p) \in SUBSET Names /\ {} \in SUBSET Names
    BY DEF Entries
  <2>2. r.at.src \in Seq(Names) /\ r.at.dst \in Seq(Names)
    BY <1>0, TypedPaths
  <2> HIDE DEF p
  <2> QED BY <2>1, <2>2 DEF Frame
<1> HIDE DEF frame
<1>4. /\ DOMAIN x = Keys /\ x.pc = "scan" /\ x.stack = Append(r.stack, frame) /\ x.cmd = r.cmd
      /\ x.at = r.at /\ x.k = r.k /\ x.start = r.start /\ x.others = r.others /\ x.res = r.res
  BY <1>0 DEF Keys
<1> HIDE DEF x
<1>5. r.stack \in Seq(Frame) /\ Len(r.stack) \in Nat
  <2>1. r.stack \in Seq(Frame)
    BY <1>0 DEF Typed
  <2> QED BY <2>1
<1>6. /\ x.stack \in Seq(Frame) /\ x.stack # <<>> /\ Len(x.stack) = Len(r.stack) + 1
      /\ \A i \in 1..Len(r.stack) : x.stack[i] = r.stack[i]
      /\ x.stack[Len(r.stack) + 1] = frame
  BY <1>3, <1>4, <1>5, AppendIs
<1>7. Typed(x)
  BY <1>0, <1>4, <1>6 DEF Typed
<1>8. ASSUME RmInv(r, fs, data) PROVE RmInv(x, fs, data)
  <2>1. /\ Root(x) = Root(r) /\ (\A q : Inside(x, fs, q) <=> Inside(r, fs, q))
        /\ Spared(x, fs, data)
    BY <1>4, <1>8, SameCommand DEF RmInv
  <2>2. Removed(x, fs)
    BY <1>0, <1>4, <1>8 DEF RmInv, Removed
  <2>3. /\ Inside(r, fs, r.at.src)
        /\ r.stack = <<>> => r.at.src = r.cmd.src
        /\ \A i \in 1..Len(r.stack) : Inside(r, fs, r.stack[i].src)
        /\ r.stack # <<>> => r.stack[1].src = r.cmd.src
    BY <1>0, <1>8 DEF RmInv, Removing
  <2>4. ASSUME NEW i \in 1..Len(x.stack) PROVE Inside(x, fs, x.stack[i].src)
    <3>1. i \in 1..Len(r.stack) \/ i = Len(r.stack) + 1
      BY <1>5, <1>6
    <3>2. CASE i \in 1..Len(r.stack)
      BY <1>6, <2>1, <2>3, <3>2
    <3>3. CASE i = Len(r.stack) + 1
      BY <1>3, <1>6, <2>1, <2>3, <3>3
    <3> QED BY <3>1, <3>2, <3>3
  <2>5. x.stack[1].src = x.cmd.src
    <3>1. CASE r.stack = <<>>
      <4>1. Len(r.stack) + 1 = 1
        BY <3>1
      <4> QED BY <1>3, <1>4, <1>6, <2>3, <3>1, <4>1
    <3>2. CASE r.stack # <<>>
      <4>1. 1 \in 1..Len(r.stack)
        BY <1>5, <3>2, EmptySeq
      <4> QED BY <1>4, <1>6, <2>3, <3>2, <4>1
    <3> QED BY <3>1, <3>2
  <2>6. Removing(x, fs)
    BY <1>4, <2>4, <2>5 DEF Removing
  <2> QED BY <2>1, <2>2, <2>6 DEF RmInv
<1>9. Good(x, fs, data)
  BY <1>0, <1>4, <1>7, <1>8, GoodStep
<1> QED
  BY <1>1, <1>2, <1>9, GoKeeps

LEMMA TopIs ==
    ASSUME NEW s, Typed(st[s]), st[s].pc = "scan"
    PROVE  LET n == Len(st[s].stack)
           IN /\ st[s].stack \in Seq(Frame) /\ n \in Nat /\ n >= 1 /\ n \in 1..n /\ 1 \in 1..n
              /\ Top(s) = st[s].stack[n] /\ Top(s) \in Frame
              /\ Top(s).src \in Seq(Names) /\ Top(s).dst \in Seq(Names)
              /\ Top(s).seen \in SUBSET Names
<1> DEFINE t == st[s].stack
<1>1. t \in Seq(Frame) /\ t # <<>>
  BY DEF Typed
<1>2. Len(t) \in Nat \ {0}
  BY <1>1, EmptySeq
<1>3. Top(s) = t[Len(t)]
  BY DEF Top, Last
<1>4. Len(t) \in 1..Len(t) /\ 1 \in 1..Len(t) /\ Len(t) \in Nat /\ Len(t) >= 1
  BY <1>2
<1>5. t[Len(t)] \in Frame
  BY <1>1, <1>4, ElementOfSeq
<1>6. Top(s).src \in Seq(Names) /\ Top(s).dst \in Seq(Names) /\ Top(s).seen \in SUBSET Names
  BY <1>3, <1>5 DEF Frame
<1> QED
  BY <1>1, <1>3, <1>4, <1>5, <1>6

LEMMA ReadDirKeeps ==
    ASSUME Inv, NEW s \in Sessions, NEW y \in Names, ReadDir(s, y)
    PROVE  Inv'
<1> DEFINE r == st[s]
           n == Len(r.stack)
           top == Top(s)
           x == [r EXCEPT !.pc = "visit",
                   !.at.src = Append(top.src, y), !.at.dst = Append(top.dst, y),
                   !.stack[n].seen = @ \cup {y}]
<1>0. Good(r, fs, data) /\ Typed(r) /\ DOMAIN r = Keys /\ r.pc = "scan" /\ IsTree(fs)
  BY DEF Inv, Good, ReadDir, Typed
<1>1. Go(s, x)
  BY DEF ReadDir
<1>2. /\ r.stack \in Seq(Frame) /\ n \in Nat /\ n \in 1..n /\ 1 \in 1..n
      /\ top = r.stack[n] /\ top \in Frame
      /\ top.src \in Seq(Names) /\ top.dst \in Seq(Names) /\ top.seen \in SUBSET Names
  BY <1>0, TopIs
<1> DEFINE at == [[r.at EXCEPT !.src = Append(top.src, y)] EXCEPT !.dst = Append(top.dst, y)]
           frame == [top EXCEPT !.seen = @ \cup {y}]
           stack == [r.stack EXCEPT ![n] = frame]
<1> HIDE DEF top
<1>3. /\ DOMAIN x = Keys /\ x.pc = "visit" /\ x.cmd = r.cmd /\ x.k = r.k /\ x.start = r.start
      /\ x.others = r.others /\ x.res = r.res
      /\ x.at = at /\ x.stack = stack
  BY <1>0, <1>2 DEF Keys
<1> HIDE DEF x
<1>4. Append(top.src, y) \in Seq(Names) /\ Append(top.dst, y) \in Seq(Names)
  BY <1>2, AppendIs
<1>5. at \in Place /\ at.src = Append(top.src, y)
  BY <1>0, <1>4 DEF Typed, Place
<1>6. frame \in Frame /\ frame.src = top.src
  BY <1>2 DEF Frame
<1> HIDE DEF at, frame
<1>7. /\ stack \in Seq(Frame) /\ Len(stack) = n
      /\ \A i \in 1..n : stack[i] = IF i = n THEN frame ELSE r.stack[i]
  BY <1>2, <1>6, ExceptSeq
<1>8. \A i \in 1..n : stack[i].src = r.stack[i].src
  BY <1>2, <1>6, <1>7
<1> HIDE DEF stack
<1>9. stack # <<>>
  BY <1>2, <1>7
<1>10. Typed(x)
  BY <1>0, <1>3, <1>5, <1>7 DEF Typed
<1>11. ASSUME RmInv(r, fs, data) PROVE RmInv(x, fs, data)
  <2>1. /\ Root(x) = Root(r) /\ (\A q : Inside(x, fs, q) <=> Inside(r, fs, q))
        /\ Spared(x, fs, data)
    BY <1>3, <1>11, SameCommand DEF RmInv
  <2>2. Removed(x, fs)
    BY <1>0, <1>3, <1>11 DEF RmInv, Removed
  <2>3. /\ \A i \in 1..n : Inside(r, fs, r.stack[i].src)
        /\ r.stack[1].src = r.cmd.src
    BY <1>0, <1>2, <1>11 DEF RmInv, Removing, Typed
  <2>4. IsPrefix(Root(x), Walk(fs, x.at.src, FALSE))
    <3> DEFINE w == Walk(fs, top.src, TRUE)
    <3>0. TRUE \in BOOLEAN
      OBVIOUS
    <3>1. w \in Seq(Names) /\ Root(r) \in Seq(Names)
      BY <1>0, <1>2, <3>0, WalkTyped, RootTyped
    <3>2. IsPrefix(Root(r), w)
      BY <1>2, <2>3 DEF Inside
    <3>3. Walk(fs, Append(top.src, y), FALSE) = Append(w, y)
      BY <1>2, WalkEnd
    <3> HIDE DEF w
    <3>4. IsPrefix(w, Append(w, y)) /\ Append(w, y) \in Seq(Names)
      BY <3>1, PrefixProperties, AppendIs
    <3>5. IsPrefix(Root(r), Append(w, y))
      BY <3>1, <3>2, <3>4, PrefixProperties
    <3> QED BY <1>3, <1>5, <2>1, <3>3, <3>5
  <2>5. \A i \in 1..Len(x.stack) : Inside(x, fs, x.stack[i].src)
    BY <1>3, <1>7, <1>8, <2>1, <2>3
  <2>6. x.stack[1].src = x.cmd.src
    BY <1>2, <1>3, <1>8, <2>3
  <2>7. Removing(x, fs)
    BY <1>3, <1>9, <2>4, <2>5, <2>6 DEF Removing
  <2> QED BY <2>1, <2>2, <2>7 DEF RmInv
<1>12. Good(x, fs, data)
  BY <1>0, <1>3, <1>10, <1>11, GoodStep
<1> QED
  BY <1>1, <1>12, GoKeeps

LEMMA CloseDirKeeps ==
    ASSUME Inv, NEW s \in Sessions, CloseDir(s)
    PROVE  Inv'
<1> DEFINE r == st[s]
           n == Len(r.stack)
           top == Top(s)
           z == [r EXCEPT !.stack = Front(@), !.at.src = top.src, !.at.dst = top.dst]
           x == [z EXCEPT !.pc = "rmdir"]
<1>0. Good(r, fs, data) /\ Typed(r) /\ DOMAIN r = Keys /\ r.pc = "scan"
  BY DEF Inv, Good, CloseDir, Typed
<1>1. Go(s, IF z.cmd.op = "rm -r" THEN x ELSE Ok(z))
  BY DEF CloseDir
<1>2. /\ r.stack \in Seq(Frame) /\ n \in Nat /\ n >= 1 /\ n \in 1..n /\ 1 \in 1..n
      /\ top = r.stack[n] /\ top \in Frame
      /\ top.src \in Seq(Names) /\ top.dst \in Seq(Names)
  BY <1>0, TopIs
<1> DEFINE at == [[r.at EXCEPT !.src = top.src] EXCEPT !.dst = top.dst]
<1> HIDE DEF top
<1>3. /\ DOMAIN z = Keys /\ z.pc = "scan" /\ z.cmd = r.cmd /\ z.k = r.k /\ z.start = r.start
      /\ z.others = r.others /\ z.res = r.res
      /\ z.at = at /\ z.stack = Front(r.stack)
  BY <1>0 DEF Keys
<1> HIDE DEF z
<1>4. at \in Place /\ at.src = top.src
  BY <1>0, <1>2 DEF Typed, Place
<1> HIDE DEF at
<1>5. /\ Front(r.stack) \in Seq(Frame) /\ Len(Front(r.stack)) = n - 1
      /\ \A i \in 1..(n - 1) : Front(r.stack)[i] = r.stack[i]
  BY <1>0, <1>2, FrontIs DEF Typed
<1>6. CASE r.cmd.op # "rm -r"
  <2> DEFINE o == Ok(z)
  <2>1. Go(s, o)
    BY <1>1, <1>3, <1>6
  <2>2. /\ DOMAIN o = Keys /\ o.cmd = r.cmd /\ o.start = r.start /\ o.others = r.others
        /\ o.at = at /\ o.k = r.k /\ o.stack = Front(r.stack)
        /\ o.pc = (IF z.stack = <<>> THEN "done" ELSE "scan")
    BY <1>3, OkIs
  <2> HIDE DEF o
  <2>3. o.pc \notin {"idle", "stat", "mkdir"} /\ (o.pc = "scan" => o.stack # <<>>)
    BY <1>3, <2>2
  <2>4. Typed(o)
    BY <1>0, <1>4, <1>5, <2>2, <2>3 DEF Typed
  <2>5. Calm(o) => Calm(r)
    BY <1>0, <2>2 DEF Calm
  <2>6. Free(o) <=> Free(r)
    BY <2>2, SameCommand
  <2>7. ~MkInv(r, fs)
    BY <1>0 DEF MkInv
  <2>8. Good(o, fs, data)
    BY <1>0, <1>6, <2>2, <2>4, <2>5, <2>6, <2>7 DEF Good
  <2> QED BY <2>1, <2>8, GoKeeps
<1>7. CASE r.cmd.op = "rm -r"
  <2>1. Go(s, x)
    BY <1>1, <1>3, <1>7
  <2>2. /\ DOMAIN x = Keys /\ x.pc = "rmdir" /\ x.cmd = r.cmd /\ x.k = r.k /\ x.start = r.start
        /\ x.others = r.others /\ x.res = r.res
        /\ x.at = at /\ x.stack = Front(r.stack)
    BY <1>3 DEF Keys
  <2> HIDE DEF x
  <2>3. Typed(x)
    BY <1>0, <1>4, <1>5, <2>2 DEF Typed
  <2>4. ASSUME RmInv(r, fs, data) PROVE RmInv(x, fs, data)
    <3>1. /\ Root(x) = Root(r) /\ (\A q : Inside(x, fs, q) <=> Inside(r, fs, q))
          /\ Spared(x, fs, data)
      BY <2>2, <2>4, SameCommand DEF RmInv
    <3>2. Removed(x, fs)
      BY <1>0, <2>2, <2>4 DEF RmInv, Removed
    <3>3. /\ \A i \in 1..n : Inside(r, fs, r.stack[i].src)
          /\ r.stack[1].src = r.cmd.src
      BY <1>0, <1>2, <2>4 DEF RmInv, Removing, Typed
    <3>4. IsPrefix(Root(x), Walk(fs, x.at.src, FALSE))
      BY <1>2, <1>4, <2>2, <3>1, <3>3 DEF Inside
    <3>5. \A i \in 1..(n - 1) : i \in 1..n
      BY <1>2
    <3>6. \A i \in 1..Len(x.stack) : Inside(x, fs, x.stack[i].src)
      BY <1>5, <2>2, <3>1, <3>3, <3>5
    <3>7. x.stack = <<>> => x.at.src = x.cmd.src
      <4> SUFFICES ASSUME x.stack = <<>> PROVE x.at.src = x.cmd.src
        OBVIOUS
      <4>1. n - 1 = 0
        <5>1. Len(<<>>) = 0
          OBVIOUS
        <5> QED BY <1>5, <2>2, <5>1
      <4>2. n = 1
        BY <1>2, <4>1
      <4> QED BY <1>2, <1>4, <2>2, <3>3, <4>2
    <3>8. x.stack # <<>> => x.stack[1].src = x.cmd.src
      <4> SUFFICES ASSUME x.stack # <<>> PROVE x.stack[1].src = x.cmd.src
        OBVIOUS
      <4>1. 1 \in 1..(n - 1)
        <5>1. Len(x.stack) # 0
          BY <1>5, <2>2, EmptySeq
        <5> QED BY <1>2, <1>5, <2>2, <5>1
      <4> QED BY <1>5, <2>2, <3>3, <4>1
    <3>9. Removing(x, fs)
      BY <2>2, <3>4, <3>6, <3>7, <3>8 DEF Removing
    <3> QED BY <3>1, <3>2, <3>9 DEF RmInv
  <2>5. Good(x, fs, data)
    BY <1>0, <2>2, <2>3, <2>4, GoodStep
  <2> QED BY <2>1, <2>5, GoKeeps
<1> QED
  BY <1>6, <1>7

\* The path rm -r was given still leads to the tree, if it leads over no link
\* in it.
LEMMA RootStays ==
    ASSUME NEW r, NEW f, NEW d, Typed(r), r.pc # "idle", Spared(r, f, d), ~Loops(r, r.cmd.src)
    PROVE  Walk(f, r.cmd.src, FALSE) = Root(r)
<1> DEFINE p == r.cmd.src
           b == r.start.fs
           t == Root(r)
<1>0. p \in Seq(Names)
  BY TypedPaths
<1>1. \A q \in DOMAIN b : ~IsPrefix(t, q) => q \in DOMAIN f /\ f[q] = b[q]
  BY DEF Spared
<1>2. \A q : KindIn(f, q) = "link" => KindIn(b, q) = "link"
  <2>1. \A q : KindIn(f, q) = "link" => q \in DOMAIN f
    BY DEF KindIn
  <2> QED BY <2>1 DEF Spared
<1>3. ASSUME NEW z \in Seq(Names), IsPrefix(z, p), z # p, z # <<>>,
             KindIn(b, Walk(b, z, FALSE)) = "link"
      PROVE  ~IsPrefix(t, Walk(b, z, FALSE))
  <2>1. \A m \in 1..(Len(p) - 1) : LET v == Walk(b, SubSeq(p, 1, m), FALSE)
                                   IN ~(KindIn(b, v) = "link" /\ IsPrefix(t, v))
    BY DEF Loops, Was, Root
  <2>2. z = SubSeq(p, 1, Len(z)) /\ Len(z) \in 1..(Len(p) - 1)
    BY <1>0, <1>3, PrefixIsSubSeq
  <2> HIDE DEF p, b, t
  <2>3. LET v == Walk(b, z, FALSE) IN ~(KindIn(b, v) = "link" /\ IsPrefix(t, v))
    BY <2>1, <2>2
  <2> QED BY <1>3, <2>3
<1> HIDE DEF p, b, t
<1>4. Walk(f, p, FALSE) = Walk(b, p, FALSE)
  BY <1>0, <1>1, <1>2, <1>3, WalkUnlooped
<1> QED
  BY <1>4 DEF p, b, Root

\* One node less: every path that led into the tree still does.
LEMMA InsideStays ==
    ASSUME NEW r, IsTree(fs), NEW g, NEW q \in Seq(Names), Lacks(fs, g, q),
           q \in DOMAIN fs, Root(r) \in Seq(Names), IsPrefix(Root(r), q),
           NEW p \in Seq(Names), NEW fo \in BOOLEAN, IsPrefix(Root(r), Walk(fs, p, fo))
    PROVE  IsPrefix(Root(r), Walk(g, p, fo))
<1>1. CASE KindIn(fs, q) = "link"
  <2>1. /\ Walk(g, p, fo) \in Seq(Names)
        /\ Walk(g, p, fo) = Walk(fs, p, fo) \/ IsPrefix(q, Walk(g, p, fo))
    BY <1>1, WalkLinkGone
  <2> QED BY <2>1, PrefixProperties
<1>2. CASE KindIn(fs, q) # "link"
  <2>1. \A x : x # q => KindIn(g, x) = KindIn(fs, x) /\ (x \in DOMAIN fs => g[x] = fs[x])
    BY DEF Lacks, KindIn
  <2>2. KindIn(g, q) = "none"
    BY DEF Lacks, KindIn
  <2>3. \A x : KindIn(fs, x) = "link" => x \in DOMAIN fs
    BY TreeIs
  <2>4. SameLinks(fs, g)
    BY <1>2, <2>1, <2>2, <2>3 DEF SameLinks
  <2>5. Walk(g, p, fo) = Walk(fs, p, fo)
    BY <2>4, WalkSame
  <2> QED BY <2>5
<1> QED
  BY <1>1, <1>2

LEMMA RmRemoves ==
    ASSUME NEW r, Typed(r), DOMAIN r = Keys, IsTree(fs), r.pc \in {"rmdir", "unlink"},
           RmInv(r, fs, data), NEW q, q = Here(r.at.src), q \in DOMAIN fs, q \in Seq(Names),
           Entries(q) = {}, NEW g, Lacks(fs, g, q)
    PROVE  RmInv(Ok(r), g, data)
<1> DEFINE x == Ok(r)
           t == Root(r)
<1>0. /\ DOMAIN x = Keys /\ x.pc = (IF r.stack = <<>> THEN "done" ELSE "scan")
      /\ x.res = (IF r.stack = <<>> THEN "ok" ELSE "none")
      /\ x.cmd = r.cmd /\ x.stack = r.stack /\ x.start = r.start
  BY OkIs
<1> HIDE DEF x
<1>1. /\ Root(x) = t /\ (\A p : Inside(x, g, p) <=> Inside(r, g, p))
      /\ (Spared(x, g, data) <=> Spared(r, g, data))
      /\ (Loops(x, x.cmd.src) <=> Loops(r, r.cmd.src))
  BY <1>0, SameCommand
<1>2. /\ t \in Seq(Names) /\ IsPrefix(t, q)
  BY RootTyped DEF RmInv, Removing, Here
<1>3. Spared(r, g, data)
  <2>1. \A p \in DOMAIN r.start.fs : ~IsPrefix(t, p) => p \in DOMAIN g /\ g[p] = r.start.fs[p]
    BY <1>2 DEF RmInv, Spared, Lacks
  <2>2. \A p \in DOMAIN g : p \in DOMAIN fs /\ KindIn(g, p) = KindIn(fs, p)
    BY DEF Lacks, KindIn
  <2>3. \A p \in DOMAIN g : KindIn(g, p) = "link" => KindIn(r.start.fs, p) = "link"
    BY <2>2 DEF RmInv, Spared
  <2> QED BY <2>1, <2>3 DEF RmInv, Spared
<1>4. Removing(x, g)
  <2>1. ASSUME NEW i \in 1..Len(r.stack) PROVE Inside(r, g, r.stack[i].src)
    <3>1. r.stack[i].src \in Seq(Names) /\ TRUE \in BOOLEAN /\ FALSE \in BOOLEAN
      BY TypedPaths
    <3>2. Inside(r, fs, r.stack[i].src)
      BY DEF RmInv, Removing
    <3>3. IsPrefix(t, Walk(fs, r.stack[i].src, FALSE)) /\ IsPrefix(t, Walk(fs, r.stack[i].src, TRUE))
      BY <3>2 DEF Inside
    <3>4. IsPrefix(t, Walk(g, r.stack[i].src, FALSE))
      BY <1>2, <3>1, <3>3, InsideStays
    <3>5. IsPrefix(t, Walk(g, r.stack[i].src, TRUE))
      BY <1>2, <3>1, <3>3, InsideStays
    <3> QED BY <3>4, <3>5 DEF Inside
  <2>2. r.stack # <<>> => r.stack[1].src = r.cmd.src
    BY DEF RmInv, Removing
  <2>3. x.pc \in {"done", "scan"}
    BY <1>0
  <2> QED BY <1>0, <1>1, <2>1, <2>2, <2>3 DEF Removing
<1>5. Removed(x, g)
  <2> SUFFICES ASSUME x.res = "ok"
               PROVE  /\ x.pc = "done"
                      /\ ~Loops(r, r.cmd.src) => \A p \in DOMAIN g : ~IsPrefix(t, p)
    BY <1>1 DEF Removed
  <2>1. r.stack = <<>> /\ x.pc = "done"
    BY <1>0
  <2>2. r.at.src = r.cmd.src
    BY <2>1 DEF RmInv, Removing
  <2>3. ASSUME ~Loops(r, r.cmd.src), NEW p \in DOMAIN g, IsPrefix(t, p) PROVE FALSE
    <3>1. q = t
      BY <2>2, <2>3, RootStays DEF RmInv, Here
    <3>2. p \in DOMAIN fs /\ p # q
      BY DEF Lacks
    <3>3. \E y \in Names : Append(q, y) \in DOMAIN fs
      BY <2>3, <3>1, <3>2, AncestorIsDir
    <3> QED BY <3>3 DEF Entries
  <2> QED BY <2>1, <2>3
<1>6. RmInv(x, g, data)
  BY <1>1, <1>3, <1>4, <1>5 DEF RmInv
<1> QED
  BY <1>6 DEF x

LEMMA RemoveNodeKeeps ==
    ASSUME Inv, NEW s \in Sessions, RemoveNode(s)
    PROVE  Inv'
<1> DEFINE r == st[s]
           q == Here(r.at.src)
           can == IF r.pc = "rmdir" THEN Kind(q) = "dir" /\ q # <<>> /\ Entries(q) = {}
                  ELSE Kind(q) \in {"file", "link"}
<1>0. /\ Good(r, fs, data) /\ Typed(r) /\ DOMAIN r = Keys /\ r.pc \in {"rmdir", "unlink"}
      /\ IsTree(fs)
  BY DEF Inv, Good, RemoveNode, Typed
<1>1. \/ can /\ Change(s, Without({q}), data, "anything", Ok(r))
      \/ Go(s, Err(r))
  BY DEF RemoveNode
<1>2. q \in Seq(Names)
  BY <1>0, TypedPaths, HereTyped
<1>3. CASE can /\ Change(s, Without({q}), data, "anything", Ok(r))
  <2> DEFINE g == Without({q})
  <2>1. q \in DOMAIN fs /\ q # <<>> /\ Entries(q) = {}
    <3>1. CASE r.pc = "rmdir"
      <4>1. Kind(q) = "dir" /\ q # <<>> /\ Entries(q) = {}
        BY <1>3, <3>1
      <4> QED BY <1>0, <4>1, TreeIs DEF Kind
    <3>2. CASE r.pc # "rmdir"
      <4>1. Kind(q) \in {"file", "link"}
        BY <1>3, <3>2
      <4> HIDE DEF q
      <4> QED BY <1>0, <1>2, <4>1, LeafIs
    <3> QED BY <3>1, <3>2
  <2>2. IsTree(g) /\ Lacks(fs, g, q)
    BY <1>0, <2>1, TreeWithout
  <2>3. Typed(Ok(r)) /\ Ok(r).cmd = r.cmd /\ Ok(r).start = r.start /\ Ok(r).others = r.others
    BY <1>0, OkTyped, OkIs
  <2> HIDE DEF g
  <2>4. RmInv(r, fs, data) => RmInv(Ok(r), g, data)
    BY <1>0, <1>2, <2>1, <2>2, RmRemoves
  <2>5. Good(Ok(r), g, data)
    BY <1>0, <2>3, <2>4, GoodStep
  <2> QED BY <1>3, <2>2, <2>5, ChangeKeeps DEF g
<1>4. CASE Go(s, Err(r))
  <2>1. Good(Err(r), fs, data)
    BY <1>0, GoodErr
  <2> QED BY <1>4, <2>1, GoKeeps
<1> QED
  BY <1>1, <1>3, <1>4

-----------------------------------------------------------------------------
(* Every step. *)

LEMMA BeginKeeps ==
    ASSUME Inv, NEW s \in Sessions, NEW c \in Commands, Begin(s, c)
    PROVE  Inv'
<1> DEFINE x == [Idle EXCEPT !.cmd = c, !.at = c, !.start = [fs |-> fs, data |-> data],
                   !.pc = CASE c.op \in {"rm -r", "cp -r"} -> "visit"
                            [] c.op = "cp" -> "open"
                            [] c.op = "mkdir -p" -> "stat"
                            [] OTHER -> "call",
                   !.k = IF c.op = "mkdir -p" THEN 1 ELSE 0]
<1>0. IsTree(fs)
  BY DEF Inv
<1>1. fs' = fs /\ data' = data /\ st' = [st EXCEPT ![s] = x]
  BY DEF Begin
<1>2. /\ DOMAIN x = Keys /\ x.cmd = c /\ x.at = c /\ x.start = [fs |-> fs, data |-> data]
      /\ x.stack = <<>> /\ x.res = "none"
  BY DEF Idle, Keys
<1>3. x.start.fs = fs /\ x.start.data = data
  <2> HIDE DEF x
  <2> QED BY <1>2
<1>4. /\ x.pc \notin {"idle", "scan", "mkdir"} /\ (x.pc = "stat" <=> c.op = "mkdir -p")
      /\ c.op = "rm -r" => x.pc = "visit"
  <2>1. x.pc = (CASE c.op \in {"rm -r", "cp -r"} -> "visit" [] c.op = "cp" -> "open"
                  [] c.op = "mkdir -p" -> "stat" [] OTHER -> "call")
    BY DEF Idle, Keys
  <2> HIDE DEF x
  <2>2. CASE c.op \in {"rm -r", "cp -r"}
    BY <2>1, <2>2
  <2>3. CASE c.op = "cp"
    BY <2>1, <2>3
  <2>4. CASE c.op = "mkdir -p"
    BY <2>1, <2>4
  <2>5. CASE c.op \notin {"rm -r", "cp -r", "cp", "mkdir -p"}
    <3>1. x.pc = "call"
      BY <2>1, <2>5
    <3> QED BY <2>5, <3>1
  <2> QED BY <2>2, <2>3, <2>4, <2>5
<1>count. x.k \in Nat /\ (c.op = "mkdir -p" => x.k = 1)
  <2>1. x.k = (IF c.op = "mkdir -p" THEN 1 ELSE 0)
    BY DEF Idle, Keys
  <2> HIDE DEF x
  <2>2. c.op = "mkdir -p" => x.k = 1
    BY Zenon, <2>1
  <2>3. c.op # "mkdir -p" => x.k = 0
    BY Zenon, <2>1
  <2>4. x.k = 0 \/ x.k = 1
    BY <2>2, <2>3
  <2>5. x.k \in Nat
    BY <2>4
  <2> QED BY <2>2, <2>5
<1> HIDE DEF x
<1>5. /\ c \in Cmd /\ c \in Place /\ c.src \in Seq(Names) /\ Len(c.src) \in Nat
      /\ c.op = "mkdir -p" => c.src # <<>>
  <2>1. c.src \in Path /\ c.dst \in Path /\ c.op \in Ops /\ (c.op = "mkdir -p" => c.src # <<>>)
    BY CommandsAssumption DEF Ops
  <2>2. c = [op |-> c.op, src |-> c.src, dst |-> c.dst]
    BY CommandsAssumption
  <2>3. c.src \in Seq(Names) /\ c.dst \in Seq(Names)
    BY <2>1, PathIs
  <2>4. c \in Cmd
    BY <2>1, <2>2 DEF Cmd
  <2>5. c \in Place
    BY <2>1, <2>2, <2>3 DEF Place
  <2>6. Len(c.src) \in Nat
    BY <2>3
  <2> QED BY <2>1, <2>3, <2>4, <2>5, <2>6
<1>6. c.op = "mkdir -p" => x.k = 1 /\ 1 \in 1..Len(c.src)
  <2>1. c.op = "mkdir -p" => Len(c.src) # 0
    BY <1>5, EmptySeq
  <2>2. c.op = "mkdir -p" => 1 \in 1..Len(c.src)
    <3> DEFINE n == Len(c.src)
    <3>0. n \in Nat
      BY <1>5
    <3>1. c.op = "mkdir -p" => n # 0
      BY <2>1
    <3> HIDE DEF n
    <3>2. n # 0 => 1 \in 1..n
      BY <3>0
    <3> QED BY <3>1, <3>2 DEF n
  <2> QED BY <1>count, <2>2
<1>7. Typed(x)
  <2>1. <<>> \in Seq(Frame)
    OBVIOUS
  <2> QED BY <1>0, <1>2, <1>3, <1>4, <1>5, <1>6, <1>count, <2>1 DEF Typed
<1>8. ASSUME c.op = "rm -r" PROVE RmInv(x, fs, data)
  <2>1. Root(x) = Walk(fs, x.at.src, FALSE) /\ x.at.src = x.cmd.src
    BY <1>2, <1>3 DEF Root
  <2>2. IsPrefix(Root(x), Root(x))
    BY <1>4, <1>7, RootTyped, PrefixProperties
  <2>3. Spared(x, fs, data)
    BY <1>3 DEF Spared
  <2>4. \A i \in 1..Len(x.stack) : FALSE
    <3>1. Len(x.stack) = 0 /\ 1..0 = {}
      BY <1>2
    <3> QED BY <3>1
  <2>5. Removing(x, fs)
    BY <1>2, <1>4, <1>8, <2>1, <2>2, <2>4 DEF Removing
  <2>6. Removed(x, fs)
    BY <1>2 DEF Removed
  <2> QED BY <2>3, <2>5, <2>6 DEF RmInv
<1>9. ASSUME c.op = "mkdir -p", Free(x) PROVE MkInv(x, fs)
  <2>1. \A m \in 1..Len(c.src) : KindIn(fs, SubSeq(c.src, 1, m)) \in {"none", "dir"}
    BY <1>2, <1>3, <1>9 DEF Free, Was
  <2>2. \A m \in 1..(1 - 1) : FALSE
    OBVIOUS
  <2> QED BY <1>2, <1>4, <1>6, <1>9, <2>1, <2>2 DEF MkInv
<1>10. Good(x, fs, data)
  BY <1>2, <1>7, <1>8, <1>9 DEF Good
<1>11. /\ DOMAIN st' = Sessions
       /\ \A y \in Sessions : st'[y] = IF y = s THEN x ELSE st[y]
  BY <1>1 DEF Inv
<1>12. \A y \in Sessions : Good(st'[y], fs', data')
  BY <1>1, <1>10, <1>11 DEF Inv
<1>13. IsTree(fs')
  BY <1>0, <1>1
<1> QED
  BY <1>11, <1>12, <1>13 DEF Inv

LEMMA InvInit ==
    ASSUME Init
    PROVE  Inv
<1>1. IsTree(fs)
  BY DisksAssumption DEF Init
<1>2. Typed(Idle) /\ ~Calm(Idle)
  BY IdleTyped
<1>3. Good(Idle, fs, data)
  BY <1>2 DEF Good
<1> QED
  BY <1>1, <1>3 DEF Init, Inv

LEMMA InvNext ==
    ASSUME Inv, [Next]_vars
    PROVE  Inv'
<1>1. CASE Next
  <2>1. PICK s \in Sessions : Step(s) \/ \E c \in Commands : Begin(s, c)
    BY <1>1 DEF Next
  <2>2. CASE \E c \in Commands : Begin(s, c)
    BY <2>2, BeginKeeps
  <2>3. CASE End(s) \/ Call(s) \/ CallFails(s)
    BY <2>3, EndKeeps, CallKeeps, CallFailsKeeps
  <2>4. CASE Stat(s) \/ StatFails(s) \/ Make(s) \/ MakeFails(s)
    BY <2>4, StatKeeps, StatFailsKeeps, MakeKeeps, MakeFailsKeeps
  <2>5. CASE VisitRm(s) \/ VisitCp(s) \/ MakeDst(s) \/ OpenDir(s)
    BY <2>5, VisitRmKeeps, VisitCpKeeps, MakeDstKeeps, OpenDirKeeps
  <2>6. CASE (\E x \in Names : ReadDir(s, x)) \/ CloseDir(s) \/ RemoveNode(s)
    BY <2>6, ReadDirKeeps, CloseDirKeeps, RemoveNodeKeeps
  <2>7. CASE OpenIn(s) \/ Create(s) \/ CopyBlock(s) \/ CopyEnds(s)
    BY <2>7, OpenInKeeps, CreateKeeps, CopyBlockKeeps, CopyEndsKeeps
  <2> QED BY <2>1, <2>2, <2>3, <2>4, <2>5, <2>6, <2>7 DEF Step
<1>2. CASE UNCHANGED vars
  <2>1. fs' = fs /\ data' = data /\ st' = st
    BY <1>2 DEF vars
  <2>2. IsTree(fs') /\ DOMAIN st' = Sessions /\ \A s \in Sessions : Good(st'[s], fs', data')
    BY <2>1 DEF Inv
  <2> QED BY <2>2 DEF Inv
<1> QED
  BY <1>1, <1>2

LEMMA InvAlways == Spec => []Inv
BY InvInit, InvNext, PTL DEF Spec

\* rm -r removes nothing but the tree it was told to, whatever directories are
\* made meanwhile, and all of it when it reports no error (recurse_rm()).
THEOREM RemovesItsTree == Spec => []RemovesOnlyItsTree
<1>1. Inv => RemovesOnlyItsTree
  <2> SUFFICES ASSUME Inv, NEW s \in Sessions, st[s].cmd.op = "rm -r", Calm(st[s])
               PROVE  LET r == st[s]
                          tree == Below(r.start.fs, Walk(r.start.fs, r.cmd.src, FALSE))
                      IN /\ \A p \in DOMAIN r.start.fs \ tree :
                               p \in DOMAIN fs /\ fs[p] = r.start.fs[p]
                         /\ data = r.start.data
                         /\ r.res = "ok" /\ ~Loops(r, r.cmd.src) => tree \cap DOMAIN fs = {}
    BY DEF RemovesOnlyItsTree
  <2> DEFINE r == st[s]
             tree == Below(r.start.fs, Root(r))
  <2>1. RmInv(r, fs, data)
    BY DEF Inv, Good
  <2>2. \A p \in DOMAIN r.start.fs \ tree : p \in DOMAIN fs /\ fs[p] = r.start.fs[p]
    BY <2>1 DEF RmInv, Spared, Below
  <2>3. data = r.start.data
    BY <2>1 DEF RmInv, Spared
  <2>4. r.res = "ok" /\ ~Loops(r, r.cmd.src) => tree \cap DOMAIN fs = {}
    BY <2>1 DEF RmInv, Removed, Below
  <2> QED BY <2>2, <2>3, <2>4 DEF Root
<1> QED
  BY <1>1, InvAlways, PTL

\* mkdir -p makes the whole path, whatever directories others make at the same
\* time, if no call fails and nothing else was in the way (ensure_dir()).
THEOREM MkdirMakesPath == Spec => []MakesWholePath
<1>1. Inv => MakesWholePath
  <2> SUFFICES ASSUME Inv, NEW s \in Sessions, st[s].cmd.op = "mkdir -p", st[s].pc = "done",
                      Calm(st[s]), ~st[s].failed, Free(st[s])
               PROVE  st[s].res = "ok" /\ Kind(st[s].cmd.src) = "dir"
    BY DEF MakesWholePath, Free
  <2>1. MkInv(st[s], fs)
    BY DEF Inv, Good
  <2> QED BY <2>1 DEF MkInv, Kind
<1> QED
  BY <1>1, InvAlways, PTL

-----------------------------------------------------------------------------
(* cp and cp -r: an invariant on top of Inv. Whatever the source had is copied,  *)
(* or is still to come: it lies below the entry the command is at, or below an   *)
(* entry that a directory it has open has not given it yet.                      *)

\* A file that was there has been copied, and a directory made if all of them
\* can be.
Copied(r, f, d, q) ==
    /\ Was(r, q) = "file" =>
         KindIn(f, At(r, q)) = "file" /\ d[f[At(r, q)].ino] = r.start.data[r.start.fs[q].ino]
    /\ Was(r, q) = "dir" /\ Fits(r) => KindIn(f, At(r, q)) = "dir"

\* What was there still is; what has come are directories, and the copies of
\* files; no file has two names; the files of the source have not changed.
Grown(r, f, d) ==
    /\ \A p \in DOMAIN r.start.fs : p \in DOMAIN f /\ f[p] = r.start.fs[p]
    /\ \A p \in DOMAIN f :
          \/ p \in DOMAIN r.start.fs \/ KindIn(f, p) = "dir"
          \/ KindIn(f, p) = "file" /\ \E q \in Src(r) : Was(r, q) = "file" /\ p = At(r, q)
    /\ \A p, q \in DOMAIN f :
          KindIn(f, p) = "file" /\ KindIn(f, q) = "file" /\ f[p].ino = f[q].ino => p = q
    /\ \A q \in Src(r) :
          Was(r, q) = "file" => d[r.start.fs[q].ino] = r.start.data[r.start.fs[q].ino]

\* The directory a frame is for lies in the source; its names were all there when
\* it was opened; it has been made.
Scanned(r, f, d, fr) ==
    /\ IsPrefix(r.cmd.src, fr.src) /\ fr.dst = At(r, fr.src)
    /\ \A y \in Names : Append(fr.src, y) \in DOMAIN r.start.fs => y \in fr.first
    /\ fr.src \in Src(r) => Was(r, fr.src) = "dir" /\ Copied(r, f, d, fr.src)

\* Where cp -r is: in the source, at an entry of the directory it scans.
Placed(r) ==
    /\ IsPrefix(r.cmd.src, r.at.src) /\ r.at.dst = At(r, r.at.src)
    /\ IF r.stack = <<>> THEN r.at.src = r.cmd.src
       ELSE r.at.src # <<>> /\ Front(r.at.src) = Last(r.stack).src

\* The first n blocks have been copied.
Begun(from, to, n) == n <= Len(from) /\ Len(to) = n /\ \A m \in 1..n : to[m] = from[m]

\* What it knows at each call.
Knows(r, f, d) ==
    /\ r.pc \in {"visit", "mkdst", "opendir", "scan", "open", "create", "copy", "done"}
    /\ r.pc \notin {"scan", "done"} => Placed(r)
    /\ r.pc = "done" => r.stack = <<>>
    /\ r.pc = "opendir" /\ r.at.src \in Src(r) /\ Was(r, r.at.src) = "dir" =>
         Copied(r, f, d, r.at.src)
    /\ r.pc \in {"create", "copy"} =>
         r.at.src \in Src(r) /\ Was(r, r.at.src) = "file" /\ r.in = r.start.fs[r.at.src].ino
    /\ r.pc = "copy" =>
         /\ KindIn(f, r.at.dst) = "file" /\ f[r.at.dst].ino = r.out
         /\ Begun(r.start.data[r.in], d[r.out], r.pos)

\* It will get there: from where it is, or from a directory it has not read to
\* the end.
Todo(r, q) ==
    \/ r.pc \notin {"scan", "done"} /\ IsPrefix(r.at.src, q)
    \/ \E i \in 1..Len(r.stack) :
          \E y \in Names \ r.stack[i].seen : IsPrefix(Append(r.stack[i].src, y), q)

CpInv(r, f, d) ==
    /\ Grown(r, f, d) /\ Knows(r, f, d)
    /\ \A i \in 1..Len(r.stack) : Scanned(r, f, d, r.stack[i])
    /\ \A q \in Src(r) : Copied(r, f, d, q) \/ Todo(r, q)

\* A copy that promises something, and has not failed; one of a directory by cp
\* without -r is going to.
Copying(r) ==
    /\ r.cmd.op \in {"cp", "cp -r"} /\ Calm(r) /\ Apart(r) /\ Plain(r) /\ Single(r)
    /\ ~r.failed /\ r.res # "error" /\ (r.pc \in {"create", "copy"} => r.in # None)

\* Descriptors, and what is read and written through them.
IoTyped(r) ==
    /\ r.in \in Inodes \cup {None} /\ (r.pc \notin {"create", "copy"} => r.in = None)
    /\ r.pc = "copy" => r.out \in Inodes
    /\ r.pos \in Nat /\ (r.pc # "copy" => r.pos = 0) /\ (r.res = "error" => r.pc = "done")
    /\ r.pc # "idle" => r.start.data \in Data

CpAll ==
    /\ data \in Data
    /\ \A s \in Sessions : IoTyped(st[s]) /\ (Copying(st[s]) => CpInv(st[s], fs, data))

-----------------------------------------------------------------------------
(* cp -r: paths of the source, and of the copy. *)

\* Of two prefixes of a path, one is a prefix of the other.
LEMMA PrefixesMeet ==
    ASSUME NEW s \in Seq(Names), NEW t \in Seq(Names), NEW u \in Seq(Names),
           IsPrefix(s, u), IsPrefix(t, u)
    PROVE  IsPrefix(s, t) \/ IsPrefix(t, s)
<1>1. Len(s) \in Nat /\ Len(t) \in Nat /\ Len(u) \in Nat
  OBVIOUS
<1>2. /\ Len(s) <= Len(u) /\ \A k \in 1..Len(s) : s[k] = u[k]
      /\ Len(t) <= Len(u) /\ \A k \in 1..Len(t) : t[k] = u[k]
  BY PrefixIs
<1>3. CASE Len(s) <= Len(t)
  <2>1. \A k \in 1..Len(s) : k \in 1..Len(t)
    BY <1>1, <1>3
  <2>2. \A k \in 1..Len(s) : s[k] = t[k]
    BY <1>2, <2>1
  <2> QED BY <1>3, <2>2, PrefixIs
<1>4. CASE Len(t) <= Len(s)
  <2>1. \A k \in 1..Len(t) : k \in 1..Len(s)
    BY <1>1, <1>4
  <2>2. \A k \in 1..Len(t) : t[k] = s[k]
    BY <1>2, <2>1
  <2> QED BY <1>4, <2>2, PrefixIs
<1> QED
  BY <1>1, <1>3, <1>4

\* One that is not the whole goes on with some name.
LEMMA PrefixGoesOn ==
    ASSUME NEW s \in Seq(Names), NEW t \in Seq(Names), IsPrefix(s, t), s # t
    PROVE  \E x \in Names : Append(s, x) \in Seq(Names) /\ IsPrefix(Append(s, x), t)
<1> DEFINE n == Len(s) + 1
           x == t[n]
           u == Append(s, x)
<1>0. Len(s) \in Nat /\ Len(t) \in Nat
  OBVIOUS
<1>1. Len(s) <= Len(t) /\ Len(s) # Len(t) /\ \A k \in 1..Len(s) : s[k] = t[k]
  BY PrefixIs, SeqEqual
<1>2. n \in 1..Len(t)
  BY <1>0, <1>1
<1>3. x \in Names
  BY <1>2, ElementOfSeq
<1>4. /\ u \in Seq(Names) /\ Len(u) = n /\ \A k \in 1..Len(s) : u[k] = s[k]
      /\ u[n] = x
  BY <1>3, AppendIs
<1>5. Len(u) <= Len(t) /\ \A k \in 1..Len(u) : u[k] = t[k]
  <2>1. \A k \in 1..Len(u) : k \in 1..Len(s) \/ k = n
    BY <1>0, <1>4
  <2> HIDE DEF u, n
  <2> QED BY <1>1, <1>2, <1>4, <2>1
<1>6. IsPrefix(u, t)
  <2> HIDE DEF u
  <2> QED BY <1>4, <1>5, PrefixIs
<1> QED
  BY <1>3, <1>4, <1>6

LEMMA AtForm ==
    ASSUME NEW r, Typed(r), NEW p \in Seq(Names), IsPrefix(r.cmd.src, p)
    PROVE  \E z \in Seq(Names) : p = r.cmd.src \o z /\ At(r, p) = r.cmd.dst \o z
<1>1. r.cmd.src \in Seq(Names)
  BY TypedPaths
<1>2. LET z == SubSeq(p, Len(r.cmd.src) + 1, Len(p)) IN z \in Seq(Names) /\ p = r.cmd.src \o z
  BY <1>1, RestIs
<1> QED
  BY <1>2 DEF At

LEMMA AtOf ==
    ASSUME NEW r, Typed(r), NEW z \in Seq(Names)
    PROVE  /\ r.cmd.src \o z \in Seq(Names) /\ IsPrefix(r.cmd.src, r.cmd.src \o z)
           /\ At(r, r.cmd.src \o z) = r.cmd.dst \o z
<1>1. r.cmd.src \in Seq(Names)
  BY TypedPaths
<1>2. /\ r.cmd.src \o z \in Seq(Names) /\ IsPrefix(r.cmd.src, r.cmd.src \o z)
      /\ SubSeq(r.cmd.src \o z, Len(r.cmd.src) + 1, Len(r.cmd.src \o z)) = z
  BY <1>1, ConcatIs
<1> QED
  BY <1>2 DEF At

LEMMA AtIs ==
    ASSUME NEW r, Typed(r), NEW p \in Seq(Names), IsPrefix(r.cmd.src, p)
    PROVE  /\ At(r, p) \in Seq(Names) /\ IsPrefix(r.cmd.dst, At(r, p))
           /\ p = r.cmd.src => At(r, p) = r.cmd.dst
           /\ p # r.cmd.src => /\ p # <<>> /\ IsPrefix(r.cmd.src, Front(p)) /\ At(r, p) # <<>>
                               /\ Front(At(r, p)) = At(r, Front(p))
           /\ \A x \in Names : IsPrefix(r.cmd.src, Append(p, x))
                               /\ At(r, Append(p, x)) = Append(At(r, p), x)
           /\ \A q \in Seq(Names) : IsPrefix(r.cmd.src, q) /\ At(r, q) = At(r, p) => q = p
<1> DEFINE a == r.cmd.src
           b == r.cmd.dst
<1>0. a \in Seq(Names) /\ b \in Seq(Names)
  BY TypedPaths
<1>1. PICK z \in Seq(Names) : p = a \o z /\ At(r, p) = b \o z
  BY AtForm
<1>2. At(r, p) \in Seq(Names) /\ IsPrefix(b, At(r, p))
  BY <1>0, <1>1, ConcatIs
<1>3. ASSUME p = a PROVE At(r, p) = b
  <2>1. a \o z = a \o <<>> /\ <<>> \in Seq(Names)
    BY <1>0, <1>1, <1>3, ConcatEmptySeq
  <2>2. z = <<>>
    BY <1>0, <2>1, ConcatSimplifications
  <2> QED BY <1>0, <1>1, <2>2, ConcatEmptySeq
<1>4. ASSUME p # a
      PROVE  p # <<>> /\ IsPrefix(a, Front(p)) /\ At(r, p) # <<>> /\ Front(At(r, p)) = At(r, Front(p))
  <2>1. z # <<>>
    BY <1>0, <1>1, <1>4, ConcatEmptySeq
  <2>2. /\ Front(z) \in Seq(Names)
        /\ a \o z # <<>> /\ Front(a \o z) = a \o Front(z)
        /\ b \o z # <<>> /\ Front(b \o z) = b \o Front(z)
    BY <1>0, <2>1, ConcatIs
  <2>3. IsPrefix(a, a \o Front(z)) /\ At(r, a \o Front(z)) = b \o Front(z)
    BY <2>2, AtOf
  <2> QED BY <1>1, <2>2, <2>3
<1>5. ASSUME NEW x \in Names PROVE IsPrefix(a, Append(p, x)) /\ At(r, Append(p, x)) = Append(At(r, p), x)
  <2>1. <<x>> \in Seq(Names) /\ Append(z, x) \in Seq(Names) /\ Append(z, x) = z \o <<x>>
    BY AppendIsConcat, AppendIs
  <2>2. ASSUME NEW c \in Seq(Names) PROVE c \o Append(z, x) = Append(c \o z, x)
    <3>1. c \o z \in Seq(Names)
      BY ConcatIs
    <3>2. c \o (z \o <<x>>) = (c \o z) \o <<x>>
      BY <2>1, ConcatAssociative
    <3>3. Append(c \o z, x) = (c \o z) \o <<x>>
      BY <3>1, AppendIsConcat
    <3> QED BY <2>1, <3>2, <3>3
  <2>3. Append(p, x) = a \o Append(z, x) /\ Append(At(r, p), x) = b \o Append(z, x)
    BY <1>0, <1>1, <2>2
  <2> QED BY <2>1, <2>3, AtOf
<1>6. ASSUME NEW q \in Seq(Names), IsPrefix(a, q), At(r, q) = At(r, p) PROVE q = p
  <2>1. PICK y \in Seq(Names) : q = a \o y /\ At(r, q) = b \o y
    BY <1>6, AtForm
  <2>2. b \o y = b \o z
    BY <1>1, <1>6, <2>1
  <2>3. y = z
    BY <1>0, <2>2, ConcatSimplifications
  <2> QED BY <1>1, <2>1, <2>3
<1> QED
  BY <1>2, <1>3, <1>4, <1>5, <1>6

\* A path that led over no link, and not to one, is its own way.
LEMMA WayPlain ==
    ASSUME NEW r, NEW p \in Seq(Names), IsTree(r.start.fs), ~ViaLink(r, p)
    PROVE  \A z \in Seq(Names) : IsPrefix(z, p) => Was(r, z) # "link"
<1> DEFINE f == r.start.fs
           G == {z \in Seq(Names) : IsPrefix(z, p) => Walk(f, z, TRUE) = z /\ KindIn(f, z) # "link"}
<1>1. <<>> \in G
  <2>1. <<>> \in Seq(Names) /\ KindIn(f, <<>>) = "dir"
    BY TreeIs
  <2> QED BY <2>1, WalkEmpty
<1>2. ASSUME NEW z \in Seq(Names), NEW x \in Names, z \in G PROVE Append(z, x) \in G
  <2> DEFINE u == Append(z, x)
  <2>0. u \in Seq(Names) /\ u # <<>> /\ IsPrefix(z, u)
    BY AppendIs, PrefixProperties
  <2>1. Walk(f, u, FALSE) = Append(Walk(f, z, TRUE), x)
    BY WalkEnd
  <2>2. ASSUME IsPrefix(u, p) PROVE Walk(f, u, TRUE) = u /\ KindIn(f, u) # "link"
    <3>1. IsPrefix(z, p)
      BY <2>0, <2>2, PrefixProperties
    <3>2. Walk(f, u, FALSE) = u
      BY <1>2, <2>1, <3>1
    <3> HIDE DEF u
    <3>3. u = SubSeq(p, 1, Len(u)) /\ Len(u) \in 1..Len(p)
      <4>1. /\ u = SubSeq(p, 1, Len(u)) /\ Len(u) \in Nat /\ Len(p) \in Nat
            /\ Len(u) <= Len(p) /\ 1 <= Len(u)
        BY <2>0, <2>2, PrefixIsSubSeq
      <4>2. Len(u) \in 1..Len(p)
        BY <4>1
      <4> QED BY <4>1, <4>2
    <3>4. KindIn(f, Walk(f, SubSeq(p, 1, Len(u)), FALSE)) # "link"
      BY <3>3 DEF ViaLink, Was
    <3>5. KindIn(f, u) # "link"
      BY <3>2, <3>3, <3>4
    <3>6. Walk(f, u, TRUE) = u
      BY <2>0, <3>2, <3>5, WalkEnd
    <3> QED BY <3>5, <3>6
  <2> QED BY <2>0, <2>2
<1> HIDE DEF G
<1>3. \A z \in Seq(Names) : z \in G
  BY <1>1, <1>2, PathInduction
<1> QED
  BY <1>3 DEF G, Was

-----------------------------------------------------------------------------
(* What a copy can rely on. *)

\* What does not depend on how far it is.
LEMMA SameCopy ==
    ASSUME NEW r, NEW x, x.cmd = r.cmd, x.start = r.start
    PROVE  /\ Src(x) = Src(r) /\ (\A p : At(x, p) = At(r, p)) /\ (\A p : Was(x, p) = Was(r, p))
           /\ (Apart(x) <=> Apart(r)) /\ (Plain(x) <=> Plain(r))
           /\ (Single(x) <=> Single(r)) /\ (Fits(x) <=> Fits(r))
           /\ \A f, d, q : Copied(x, f, d, q) <=> Copied(r, f, d, q)
           /\ \A f, d : Grown(x, f, d) <=> Grown(r, f, d)
           /\ \A f, d, fr : Scanned(x, f, d, fr) <=> Scanned(r, f, d, fr)
<1>1. Src(x) = Src(r) /\ (\A p : At(x, p) = At(r, p)) /\ (\A p : Was(x, p) = Was(r, p))
  BY DEF Src, At, Was
<1>2. \A p : ViaLink(x, p) <=> ViaLink(r, p)
  BY <1>1 DEF ViaLink
<1>3. (Apart(x) <=> Apart(r)) /\ (Plain(x) <=> Plain(r))
  BY <1>1, <1>2 DEF Apart, Plain
<1>4. Single(x) <=> Single(r)
  BY <1>1 DEF Single
<1>5. Fits(x) <=> Fits(r)
  BY <1>1 DEF Fits
<1>6. \A f, d, q : Copied(x, f, d, q) <=> Copied(r, f, d, q)
  BY <1>1, <1>5 DEF Copied
<1>7. \A f, d : Grown(x, f, d) <=> Grown(r, f, d)
  BY <1>1 DEF Grown
<1>8. \A f, d, fr : Scanned(x, f, d, fr) <=> Scanned(r, f, d, fr)
  BY <1>1, <1>6 DEF Scanned
<1> QED
  BY <1>1, <1>3, <1>4, <1>5, <1>6, <1>7, <1>8

\* A session in the middle of one.
Ready(r, f, d) ==
    /\ Typed(r) /\ IoTyped(r) /\ r.pc # "idle" /\ IsTree(r.start.fs) /\ IsTree(f) /\ d \in Data
    /\ Copying(r) /\ CpInv(r, f, d)

LEMMA SrcIs ==
    ASSUME NEW r, Typed(r), r.pc # "idle", NEW q \in Src(r)
    PROVE  q \in Seq(Names) /\ IsPrefix(r.cmd.src, q) /\ q \in DOMAIN r.start.fs
           /\ At(r, q) \in Seq(Names) /\ Was(r, q) # "none"
<1>1. q \in DOMAIN r.start.fs /\ IsPrefix(r.cmd.src, q)
  BY DEF Src, Below
<1>2. q \in Seq(Names) /\ Was(r, q) # "none"
  BY <1>1, TreeIs DEF Typed, Was
<1> QED
  BY <1>1, <1>2, AtIs

\* What was there has the kind it had.
LEMMA KindStays ==
    ASSUME NEW r, NEW f, NEW d, Grown(r, f, d)
    PROVE  \A p \in DOMAIN r.start.fs : KindIn(f, p) = Was(r, p) /\ f[p] = r.start.fs[p]
BY DEF Grown, KindIn, Was

\* No link has come.
LEMMA NoNewLink ==
    ASSUME NEW r, NEW f, NEW d, Grown(r, f, d), NEW p, KindIn(f, p) = "link"
    PROVE  Was(r, p) = "link" /\ p \in DOMAIN r.start.fs
<1>1. p \in DOMAIN f
  BY DEF KindIn
<1>2. p \in DOMAIN r.start.fs
  BY <1>1 DEF Grown
<1> QED
  BY <1>2, KindStays

\* Neither the source nor what is copied is reached over a link.
LEMMA CopyWalk ==
    ASSUME NEW r, NEW f, NEW d, Typed(r), r.pc # "idle", Plain(r), Grown(r, f, d)
    PROVE  /\ \A p \in Seq(Names) : IsPrefix(r.cmd.src, p) =>
                 Walk(f, p, TRUE) = p /\ Walk(f, p, FALSE) = p
           /\ \A q \in Src(r) : Walk(f, At(r, q), TRUE) = At(r, q) /\ Walk(f, At(r, q), FALSE) = At(r, q)
<1>0. IsTree(r.start.fs) /\ r.cmd.src \in Seq(Names) /\ r.cmd.dst \in Seq(Names)
  BY TypedPaths DEF Typed
<1>1. ASSUME NEW p \in Seq(Names), IsPrefix(r.cmd.src, p)
      PROVE  Walk(f, p, TRUE) = p /\ Walk(f, p, FALSE) = p
  <2>1. ASSUME NEW z \in Seq(Names), IsPrefix(z, p), KindIn(f, z) = "link" PROVE FALSE
    <3>1. Was(r, z) = "link" /\ z \in DOMAIN r.start.fs
      BY <2>1, NoNewLink
    <3>2. CASE IsPrefix(z, r.cmd.src)
      BY <1>0, <3>1, <3>2, WayPlain DEF Plain
    <3>3. CASE IsPrefix(r.cmd.src, z)
      <4>1. z \in Src(r)
        BY <3>1, <3>3 DEF Src, Below
      <4> QED BY <3>1, <4>1 DEF Plain
    <3> QED BY <1>0, <1>1, <2>1, <3>2, <3>3, PrefixesMeet
  <2> QED BY <2>1, WalkPlain
<1>2. ASSUME NEW q \in Src(r)
      PROVE  Walk(f, At(r, q), TRUE) = At(r, q) /\ Walk(f, At(r, q), FALSE) = At(r, q)
  <2>1. At(r, q) \in Seq(Names)
    BY SrcIs
  <2>2. ~ViaLink(r, At(r, q))
    BY DEF Plain
  <2>3. ASSUME NEW z \in Seq(Names), IsPrefix(z, At(r, q)), KindIn(f, z) = "link" PROVE FALSE
    <3>1. Was(r, z) = "link"
      BY <2>3, NoNewLink
    <3> QED BY <1>0, <2>1, <2>2, <2>3, <3>1, WayPlain
  <2> QED BY <2>1, <2>3, WalkPlain
<1> QED
  BY <1>1, <1>2

\* The two trees share no path.
LEMMA TreesApart ==
    ASSUME NEW r, Typed(r), Apart(r), NEW p \in Seq(Names), IsPrefix(r.cmd.src, p)
    PROVE  ~IsPrefix(r.cmd.dst, p)
<1>1. r.cmd.src \in Seq(Names) /\ r.cmd.dst \in Seq(Names)
  BY TypedPaths
<1> QED
  BY <1>1, PrefixesMeet DEF Apart

\* A file in the source has been there.
LEMMA FileWasThere ==
    ASSUME NEW r, NEW f, NEW d, Typed(r), r.pc # "idle", Apart(r), Grown(r, f, d),
           NEW p \in Seq(Names), IsPrefix(r.cmd.src, p), KindIn(f, p) = "file"
    PROVE  p \in Src(r) /\ Was(r, p) = "file" /\ f[p] = r.start.fs[p]
<1>1. p \in DOMAIN f
  BY DEF KindIn
<1>2. p \in DOMAIN r.start.fs
  <2>1. ASSUME NEW q \in Src(r), p = At(r, q) PROVE FALSE
    <3>1. IsPrefix(r.cmd.dst, At(r, q))
      BY SrcIs, AtIs
    <3> QED BY <2>1, <3>1, TreesApart
  <2> QED BY <1>1, <2>1 DEF Grown
<1>3. p \in Src(r)
  BY <1>2 DEF Src, Below
<1> QED
  BY <1>2, <1>3, KindStays

\* Of what was there, what lies on the way was there.
LEMMA WayWasThere ==
    ASSUME NEW r, Typed(r), r.pc # "idle", NEW q \in Src(r), NEW p \in Seq(Names),
           IsPrefix(r.cmd.src, p), IsPrefix(p, q)
    PROVE  p \in Src(r) /\ (p # q => Was(r, p) = "dir")
<1>1. q \in DOMAIN r.start.fs /\ IsTree(r.start.fs)
  BY SrcIs DEF Typed
<1>2. p # q => KindIn(r.start.fs, p) = "dir"
  BY <1>1, AncestorIsDir
<1>3. p \in DOMAIN r.start.fs
  BY <1>1, <1>2 DEF KindIn
<1> QED
  BY <1>2, <1>3 DEF Src, Below, Was

-----------------------------------------------------------------------------
(* What others do meanwhile. *)

\* What the invariant of a copy depends on.
SameCp(r, x) ==
    /\ x.pc = r.pc /\ x.cmd = r.cmd /\ x.at = r.at /\ x.stack = r.stack /\ x.start = r.start
    /\ x.in = r.in /\ x.out = r.out /\ x.pos = r.pos

LEMMA SameCpInv ==
    ASSUME NEW r, NEW x, SameCp(r, x), NEW f, NEW d, CpInv(r, f, d)
    PROVE  CpInv(x, f, d)
<1>1. /\ Src(x) = Src(r) /\ (\A p : At(x, p) = At(r, p)) /\ (\A p : Was(x, p) = Was(r, p))
      /\ (\A q : Copied(x, f, d, q) <=> Copied(r, f, d, q)) /\ (Grown(x, f, d) <=> Grown(r, f, d))
      /\ (\A fr : Scanned(x, f, d, fr) <=> Scanned(r, f, d, fr))
  BY SameCopy DEF SameCp
<1>2. Placed(x) <=> Placed(r)
  BY <1>1 DEF Placed, SameCp
<1>3. Knows(x, f, d)
  <2>1. Knows(r, f, d)
    BY DEF CpInv
  <2> QED BY <1>1, <1>2, <2>1 DEF Knows, SameCp
<1>4. \A q : Todo(x, q) <=> Todo(r, q)
  BY DEF Todo, SameCp
<1> QED
  BY <1>1, <1>3, <1>4 DEF CpInv, SameCp

LEMMA CopiedMade ==
    ASSUME NEW r, NEW f, NEW d, NEW g, NEW p, Made(f, g, p)
    PROVE  \A q : Copied(r, f, d, q) => Copied(r, g, d, q)
<1>1. \A q : KindIn(f, q) = "file" => KindIn(g, q) = "file" /\ g[q] = f[q]
  BY DEF Made, KindIn
<1>2. \A q : KindIn(f, q) = "dir" => KindIn(g, q) = "dir"
  BY DEF Made
<1> QED
  BY <1>1, <1>2 DEF Copied

LEMMA GrownMade ==
    ASSUME NEW r, NEW f, NEW d, NEW g, NEW p, IsTree(g), Made(f, g, p), Grown(r, f, d)
    PROVE  Grown(r, g, d)
<1>1. \A q \in DOMAIN r.start.fs : q \in DOMAIN g /\ g[q] = r.start.fs[q]
  BY DEF Made, Grown
<1>2. ASSUME NEW q \in DOMAIN g, q # p PROVE q \in DOMAIN f /\ KindIn(g, q) = KindIn(f, q)
  <2>1. KindIn(g, q) = KindIn(f, q) /\ KindIn(g, q) # "none"
    BY <1>2, TreeIs DEF Made
  <2> QED BY <2>1 DEF KindIn
<1>3. ASSUME NEW q \in DOMAIN g, KindIn(g, q) # "dir"
      PROVE  q \in DOMAIN f /\ KindIn(g, q) = KindIn(f, q) /\ g[q] = f[q]
  <2>1. q # p
    BY <1>3 DEF Made
  <2> QED BY <1>2, <2>1 DEF Made
<1>4. ASSUME NEW q \in DOMAIN g
      PROVE  \/ q \in DOMAIN r.start.fs \/ KindIn(g, q) = "dir"
             \/ KindIn(g, q) = "file" /\ \E y \in Src(r) : Was(r, y) = "file" /\ q = At(r, y)
  BY <1>3 DEF Grown
<1>5. ASSUME NEW q \in DOMAIN g, NEW y \in DOMAIN g, KindIn(g, q) = "file", KindIn(g, y) = "file",
             g[q].ino = g[y].ino
      PROVE  q = y
  <2>1. /\ q \in DOMAIN f /\ KindIn(f, q) = "file" /\ f[q] = g[q]
        /\ y \in DOMAIN f /\ KindIn(f, y) = "file" /\ f[y] = g[y]
    BY <1>3, <1>5
  <2> QED BY <1>5, <2>1 DEF Grown
<1>6. \A q \in Src(r) :
         Was(r, q) = "file" => d[r.start.fs[q].ino] = r.start.data[r.start.fs[q].ino]
  BY DEF Grown
<1> QED
  BY <1>1, <1>4, <1>5, <1>6 DEF Grown

LEMMA CpMade ==
    ASSUME NEW r, NEW f, NEW d, NEW g, NEW p, IsTree(g), Made(f, g, p), CpInv(r, f, d)
    PROVE  CpInv(r, g, d)
<1>1. Grown(r, g, d) /\ Knows(r, f, d)
  BY GrownMade DEF CpInv
<1>2. \A q : Copied(r, f, d, q) => Copied(r, g, d, q)
  BY CopiedMade
<1>3. Knows(r, g, d)
  <2>1. KindIn(f, r.at.dst) = "file" => KindIn(g, r.at.dst) = "file" /\ g[r.at.dst] = f[r.at.dst]
    BY DEF Made, KindIn
  <2> QED BY <1>1, <1>2, <2>1 DEF Knows
<1>4. \A i \in 1..Len(r.stack) : Scanned(r, g, d, r.stack[i])
  BY <1>2 DEF CpInv, Scanned
<1> QED
  BY <1>1, <1>2, <1>3, <1>4 DEF CpInv

\* The session's own step is checked by itself; the others notice it.
LEMMA CpGo ==
    ASSUME Inv, CpAll, NEW s \in Sessions, NEW r, Go(s, r), IoTyped(r),
           Copying(r) => CpInv(r, fs, data)
    PROVE  CpAll'
<1>1. /\ fs' = fs /\ data' = data
      /\ \A x \in Sessions : st'[x] = IF x = s THEN r ELSE st[x]
  BY DEF Go, Inv
<1>2. \A x \in Sessions : IoTyped(st'[x]) /\ (Copying(st'[x]) => CpInv(st'[x], fs', data'))
  BY <1>1 DEF CpAll
<1> QED
  BY <1>1, <1>2 DEF CpAll

LEMMA CpChange ==
    ASSUME Inv, CpAll, NEW s \in Sessions, NEW f, NEW d, NEW how, NEW r, Change(s, f, d, how, r),
           IsTree(f), d \in Data, IoTyped(r), Copying(r) => CpInv(r, f, d),
           how = "anything" \/ (how = "directories" /\ d = data /\ \E p : Made(fs, f, p))
    PROVE  CpAll'
<1>1. /\ fs' = f /\ data' = d
      /\ \A x \in Sessions : st'[x] =
            IF x = s THEN r
            ELSE IF st[x].pc = "idle" \/ st[x].others = "anything" THEN st[x]
            ELSE [st[x] EXCEPT !.others = IF st[x].pc = "done" THEN "anything" ELSE how]
  BY DEF Change
<1>2. ASSUME NEW x \in Sessions
      PROVE  IoTyped(st'[x]) /\ (Copying(st'[x]) => CpInv(st'[x], f, d))
  <2>0. Typed(st[x]) /\ IoTyped(st[x]) /\ (Copying(st[x]) => CpInv(st[x], fs, data))
    BY DEF Inv, Good, CpAll
  <2>1. CASE x = s
    BY <1>1, <2>1
  <2>2. CASE x # s /\ (st[x].pc = "idle" \/ st[x].others = "anything")
    <3>1. st'[x] = st[x] /\ ~Copying(st[x])
      BY <1>1, <2>2 DEF Copying, Calm
    <3> QED BY <2>0, <3>1
  <2>3. CASE x # s /\ ~(st[x].pc = "idle" \/ st[x].others = "anything")
    <3> DEFINE o == st[x]
               z == [o EXCEPT !.others = IF o.pc = "done" THEN "anything" ELSE how]
    <3>1. st'[x] = z
      BY <1>1, <2>3
    <3>2. /\ z.others = (IF o.pc = "done" THEN "anything" ELSE how)
          /\ SameCp(o, z) /\ z.failed = o.failed /\ z.res = o.res
      BY <2>0 DEF Typed, Keys, SameCp
    <3>3. Calm(o)
      BY <2>3 DEF Calm
    <3> HIDE DEF z
    <3>4. IoTyped(z)
      BY <2>0, <3>2 DEF IoTyped, SameCp
    <3>5. ASSUME Copying(z) PROVE CpInv(z, f, d)
      <4>1. d = data /\ \E p : Made(fs, f, p)
        BY <3>2, <3>5 DEF Copying, Calm
      <4>2. (Apart(z) <=> Apart(o)) /\ (Plain(z) <=> Plain(o)) /\ (Single(z) <=> Single(o))
        BY <3>2, SameCopy DEF SameCp
      <4>3. Copying(o)
        BY <3>2, <3>3, <3>5, <4>2 DEF Copying, SameCp
      <4>4. CpInv(o, fs, data)
        BY <2>0, <4>3
      <4>5. CpInv(o, f, d)
        BY <4>1, <4>4, CpMade
      <4> QED BY <3>2, <4>5, SameCpInv
    <3> QED BY <3>1, <3>4, <3>5
  <2> QED BY <2>1, <2>2, <2>3
<1> QED
  BY <1>1, <1>2 DEF CpAll

-----------------------------------------------------------------------------
(* Steps that are not those of a copy, or end it. *)

LEMMA OkIo ==
    ASSUME NEW r, DOMAIN r = Keys, IoTyped(r), r.pc # "idle"
    PROVE  IoTyped(Ok(r))
<1>1. Ok(r).in = None /\ Ok(r).pos = 0
  BY DEF Ok, Keys
<1>2. Ok(r).pc \notin {"copy", "idle"} /\ Ok(r).res # "error" /\ Ok(r).start = r.start
  BY OkIs
<1> QED
  BY <1>1, <1>2 DEF IoTyped

LEMMA ErrIo ==
    ASSUME NEW r, DOMAIN r = Keys, IoTyped(r), r.pc # "idle"
    PROVE  IoTyped(Err(r)) /\ ~Copying(Err(r))
<1>1. Err(r).in = None /\ Err(r).pos = 0
  BY DEF Err, Keys
<1>2. Err(r).pc = "done" /\ Err(r).res = "error" /\ Err(r).start = r.start
  BY ErrIs
<1> QED
  BY <1>1, <1>2 DEF IoTyped, Copying

\* A session that is copying after a step was copying before it.
LEMMA CopyingBefore ==
    ASSUME NEW r, NEW x, x.cmd = r.cmd, x.start = r.start, x.others = r.others,
           r.failed => x.failed, r.pc \notin {"idle", "done"}, IoTyped(r),
           r.pc \in {"create", "copy"} => r.in # None, Copying(x)
    PROVE  Copying(r)
<1>1. (Apart(x) <=> Apart(r)) /\ (Plain(x) <=> Plain(r)) /\ (Single(x) <=> Single(r))
  BY SameCopy
<1>2. r.res # "error"
  BY DEF IoTyped
<1> QED
  BY <1>1, <1>2 DEF Copying, Calm

\* Where no copy is.
LEMMA NoCopy ==
    ASSUME NEW r, NEW x, NEW f, NEW d, IoTyped(r), Copying(r) => CpInv(r, f, d),
           r.pc \in {"call", "stat", "mkdir", "rmdir", "unlink"},
           x.cmd = r.cmd, x.start = r.start, x.others = r.others, r.failed => x.failed
    PROVE  ~Copying(x)
<1>1. ~Copying(r)
  BY DEF CpInv, Knows
<1> QED
  BY <1>1, CopyingBefore

LEMMA CpEnd ==
    ASSUME Inv, CpAll, NEW s \in Sessions, End(s)
    PROVE  CpAll'
<1>1. IoTyped(Idle)
  BY DEF IoTyped, Idle
<1>2. ~Copying(Idle)
  BY IdleTyped DEF Copying
<1> QED
  BY <1>1, <1>2, CpGo DEF End

LEMMA CpFails ==
    ASSUME Inv, CpAll, NEW s \in Sessions, CallFails(s)
    PROVE  CpAll'
<1> DEFINE r == st[s]
           y == Err(r)
           x == [y EXCEPT !.failed = TRUE]
<1>0. DOMAIN r = Keys /\ IoTyped(r) /\ r.pc # "idle" /\ Go(s, x)
  BY DEF Inv, Good, Typed, CpAll, CallFails
<1>1. DOMAIN y = Keys /\ IoTyped(y)
  BY <1>0, ErrIs, ErrIo
<1> HIDE DEF y
<1>2. /\ x.failed = TRUE /\ x.in = y.in /\ x.pc = y.pc /\ x.pos = y.pos /\ x.res = y.res
      /\ x.start = y.start /\ x.out = y.out
  BY <1>1 DEF Keys
<1> HIDE DEF x
<1>3. IoTyped(x) /\ ~Copying(x)
  BY <1>1, <1>2 DEF IoTyped, Copying
<1> QED
  BY <1>0, <1>3, CpGo

LEMMA CpCall ==
    ASSUME Inv, CpAll, NEW s \in Sessions, Call(s)
    PROVE  CpAll'
<1> DEFINE r == st[s]
           c == r.cmd
<1>0. /\ Typed(r) /\ DOMAIN r = Keys /\ IoTyped(r) /\ (Copying(r) => CpInv(r, fs, data))
      /\ r.pc = "call" /\ IsTree(fs) /\ data \in Data
  BY DEF Inv, Good, Typed, CpAll, Call
<1>1. IoTyped(Err(r)) /\ ~Copying(Err(r)) /\ IoTyped(Ok(r)) /\ ~Copying(Ok(r))
  BY <1>0, OkIo, ErrIo, OkIs, NoCopy
<1>2. c.src \in Seq(Names) /\ c.dst \in Seq(Names)
  BY <1>0, TypedPaths
<1>3. Here(c.src) \in Seq(Names) /\ Here(c.dst) \in Seq(Names)
  BY <1>0, <1>2, HereTyped
<1>4. ASSUME Go(s, Err(r)) \/ Go(s, Ok(r)) PROVE CpAll'
  BY <1>1, <1>4, CpGo
<1>5. ASSUME NEW f, IsTree(f), Change(s, f, data, "anything", Ok(r)) PROVE CpAll'
  BY <1>0, <1>1, <1>5, CpChange
<1>6. CASE Unlink(s, c.src)
  <2> DEFINE q == Here(c.src)
  <2>1. CASE Kind(q) \in {"file", "link"}
    <3>1. Change(s, Without({q}), data, "anything", Ok(r))
      BY <1>6, <2>1 DEF Unlink
    <3>2. IsTree(Without({q}))
      BY <1>0, <1>3, <2>1, LeafIs, TreeWithout
    <3> QED BY <1>5, <3>1, <3>2
  <2>2. CASE Kind(q) \notin {"file", "link"}
    BY <1>4, <1>6, <2>2 DEF Unlink
  <2> QED BY <2>1, <2>2
<1>7. CASE Mkdir(s, c.src)
  <2> DEFINE q == Here(c.src)
  <2>1. CASE HasRoom(q)
    <3>1. Change(s, Extended(q, Dir), data, "directories", Ok(r))
      BY <1>7, <2>1 DEF Mkdir
    <3>2. IsTree(Extended(q, Dir)) /\ Made(fs, Extended(q, Dir), q)
      BY <1>0, <1>3, <2>1, MadeDir
    <3> QED BY <1>0, <1>1, <3>1, <3>2, CpChange
  <2>2. CASE ~HasRoom(q)
    BY <1>4, <1>7, <2>2 DEF Mkdir
  <2> QED BY <2>1, <2>2
<1>8. CASE Rename(s, c.src, c.dst)
  <2> DEFINE p == Here(c.src)
             q == Here(c.dst)
  <2>1. CASE CanRename(p, q) /\ Change(s, Renamed(p, q), data, "anything", Ok(r))
    <3>1. IsTree(Renamed(p, q))
      BY <1>0, <1>3, <2>1, TreeRenamed
    <3> QED BY <1>5, <2>1, <3>1
  <2>2. CASE Go(s, Ok(r)) \/ Go(s, Err(r))
    BY <1>4, <2>2
  <2> QED BY <1>8, <2>1, <2>2 DEF Rename
<1> QED
  BY <1>6, <1>7, <1>8 DEF Call

\* mkdir -p.
LEMMA CpEnsured ==
    ASSUME NEW r, NEW good \in BOOLEAN, Typed(r), IoTyped(r), r.pc \in {"stat", "mkdir"},
           NEW f, NEW d, Copying(r) => CpInv(r, f, d)
    PROVE  IoTyped(Ensured(r, good)) /\ ~Copying(Ensured(r, good))
<1> DEFINE x == Ensured(r, good)
<1>0. DOMAIN r = Keys /\ r.pc # "idle"
  BY DEF Typed
<1>1. x.cmd = r.cmd /\ x.start = r.start /\ x.others = r.others /\ x.failed = r.failed
  BY <1>0, EnsuredIs
<1>2. ~Copying(x)
  <2> HIDE DEF x
  <2> QED BY <1>1, NoCopy
<1>3. IoTyped(x)
  <2>1. CASE r.k < Len(r.cmd.src)
    <3> DEFINE z == [r EXCEPT !.k = @ + 1, !.pc = "stat"]
    <3>1. x = z
      BY <2>1 DEF Ensured
    <3>2. z.in = r.in /\ z.pos = r.pos /\ z.res = r.res /\ z.start = r.start /\ z.pc = "stat"
      BY <1>0 DEF Keys
    <3> HIDE DEF z, x
    <3>3. r.pos = 0 /\ r.res # "error"
      BY DEF IoTyped
    <3> QED BY <3>1, <3>2, <3>3 DEF IoTyped
  <2>2. CASE ~(r.k < Len(r.cmd.src))
    <3>1. x = Ok(r) \/ x = Err(r)
      BY <2>2 DEF Ensured
    <3> QED BY <1>0, <3>1, OkIo, ErrIo
  <2> QED BY <2>1, <2>2
<1> QED
  BY <1>2, <1>3

LEMMA CpMkdirP ==
    ASSUME Inv, CpAll, NEW s \in Sessions,
           Stat(s) \/ StatFails(s) \/ Make(s) \/ MakeFails(s)
    PROVE  CpAll'
<1> DEFINE r == st[s]
           z == SubSeq(r.cmd.src, 1, r.k)
           p == Here(z)
<1>0. /\ Typed(r) /\ DOMAIN r = Keys /\ IoTyped(r) /\ (Copying(r) => CpInv(r, fs, data))
      /\ r.pc \in {"stat", "mkdir"} /\ IsTree(fs) /\ data \in Data
  BY DEF Inv, Good, Typed, CpAll, Stat, StatFails, Make, MakeFails
<1>1. \A good \in BOOLEAN : IoTyped(Ensured(r, good)) /\ ~Copying(Ensured(r, good))
  BY <1>0, CpEnsured
<1>2. ASSUME Stat(s) PROVE CpAll'
  <2> DEFINE kind == Kind(There(z))
             m == [r EXCEPT !.pc = "mkdir"]
             good == kind = "dir"
  <2>1. Go(s, IF kind = "none" THEN m ELSE Ensured(r, good))
    BY <1>2 DEF Stat
  <2>2. CASE kind = "none"
    <3>1. /\ m.in = r.in /\ m.pos = r.pos /\ m.res = r.res /\ m.start = r.start /\ m.pc = "mkdir"
          /\ m.cmd = r.cmd /\ m.others = r.others /\ m.failed = r.failed
      BY <1>0 DEF Keys
    <3>2. Go(s, m)
      BY <2>1, <2>2
    <3> HIDE DEF m
    <3>3. r.pos = 0 /\ r.res # "error"
      BY <1>0 DEF IoTyped
    <3>4. IoTyped(m)
      BY <1>0, <3>1, <3>3 DEF IoTyped
    <3>5. ~Copying(m)
      BY <1>0, <3>1, NoCopy
    <3> QED BY <3>2, <3>4, <3>5, CpGo
  <2>3. CASE kind # "none"
    <3>1. Go(s, Ensured(r, good)) /\ good \in BOOLEAN
      BY <2>1, <2>3
    <3> HIDE DEF good
    <3> QED BY <1>1, <3>1, CpGo
  <2> QED BY <2>2, <2>3
<1>3. ASSUME Make(s) PROVE CpAll'
  <2>1. p \in Seq(Names)
    <3>1. r.k \in Nat /\ r.k <= Len(r.cmd.src)
      <4>1. r.k \in 1..Len(r.cmd.src)
        BY <1>0 DEF Typed
      <4>2. Len(r.cmd.src) \in Nat
        BY <1>0, TypedPaths
      <4> QED BY <4>1, <4>2
    <3>2. z \in Seq(Names)
      BY <1>0, <3>1, TypedPaths, SubSeqIsPrefix
    <3> QED BY <1>0, <3>2, HereTyped
  <2> DEFINE good == Kind(p) # "none"
  <2>2. IF HasRoom(p) THEN Change(s, Extended(p, Dir), data, "directories", Ensured(r, TRUE))
        ELSE Go(s, Ensured(r, good))
    BY <1>3 DEF Make
  <2>3. good \in BOOLEAN /\ TRUE \in BOOLEAN
    OBVIOUS
  <2> HIDE DEF good, p
  <2>4. CASE HasRoom(p)
    <3>1. IsTree(Extended(p, Dir)) /\ Made(fs, Extended(p, Dir), p)
      BY <1>0, <2>1, <2>4, MadeDir
    <3>2. Change(s, Extended(p, Dir), data, "directories", Ensured(r, TRUE))
      BY <2>2, <2>4
    <3>3. IoTyped(Ensured(r, TRUE)) /\ ~Copying(Ensured(r, TRUE))
      BY <1>1, <2>3
    <3> QED BY <1>0, <3>1, <3>2, <3>3, CpChange
  <2>5. CASE ~HasRoom(p)
    <3>1. Go(s, Ensured(r, good))
      BY <2>2, <2>5
    <3> QED BY <1>1, <2>3, <3>1, CpGo
  <2> QED BY <2>4, <2>5
<1>4. ASSUME MakeFails(s) PROVE CpAll'
  <2> DEFINE y == Ensured(r, FALSE)
             x == [y EXCEPT !.failed = TRUE]
  <2>1. Go(s, x)
    BY <1>4 DEF MakeFails
  <2>2. FALSE \in BOOLEAN
    OBVIOUS
  <2>3. IoTyped(y) /\ DOMAIN y = Keys
    <3>1. r.pc # "idle" /\ Typed(y)
      BY <1>0, <2>2, EnsuredIs
    <3> QED BY <1>1, <2>2, <3>1 DEF Typed
  <2> HIDE DEF y
  <2>4. /\ x.failed = TRUE /\ x.in = y.in /\ x.pc = y.pc /\ x.pos = y.pos /\ x.res = y.res
        /\ x.start = y.start /\ x.out = y.out
    BY <2>3 DEF Keys
  <2> HIDE DEF x
  <2>5. IoTyped(x) /\ ~Copying(x)
    BY <2>3, <2>4 DEF IoTyped, Copying
  <2> QED BY <2>1, <2>5, CpGo
<1>5. ASSUME StatFails(s) PROVE CpAll'
  <2> DEFINE x == [r EXCEPT !.pc = "mkdir", !.failed = TRUE]
  <2>1. Go(s, x)
    BY <1>5 DEF StatFails
  <2>2. /\ x.failed = TRUE /\ x.in = r.in /\ x.pc = "mkdir" /\ x.pos = r.pos /\ x.res = r.res
        /\ x.start = r.start /\ x.out = r.out
    BY <1>0 DEF Keys
  <2>3. r.pos = 0 /\ r.res # "error"
    BY <1>0 DEF IoTyped
  <2> HIDE DEF x
  <2>4. IoTyped(x) /\ ~Copying(x)
    BY <1>0, <2>2, <2>3 DEF IoTyped, Copying
  <2> QED BY <2>1, <2>4, CpGo
<1> QED
  BY <1>2, <1>3, <1>4, <1>5

\* rm -r.
LEMMA CpVisitRm ==
    ASSUME Inv, CpAll, NEW s \in Sessions, VisitRm(s)
    PROVE  CpAll'
<1> DEFINE r == st[s]
           kind == Looks(r.at.src)
           o == [r EXCEPT !.pc = "opendir"]
           u == [r EXCEPT !.pc = "unlink"]
<1>0. DOMAIN r = Keys /\ IoTyped(r) /\ r.pc = "visit" /\ r.cmd.op = "rm -r"
  BY DEF Inv, Good, Typed, CpAll, VisitRm
<1>1. Go(s, CASE kind = "none" -> Err(r) [] kind = "dir" -> o [] OTHER -> u)
  BY DEF VisitRm
<1>2. Go(s, Err(r)) \/ Go(s, o) \/ Go(s, u)
  <2>1. CASE kind = "none"
    BY <1>1, <2>1
  <2>2. CASE kind = "dir"
    BY <1>1, <2>2
  <2>3. CASE kind \notin {"none", "dir"}
    BY <1>1, <2>3
  <2> QED BY <2>1, <2>2, <2>3
<1>3. /\ o.cmd = r.cmd /\ o.in = r.in /\ o.pos = r.pos /\ o.res = r.res /\ o.start = r.start
      /\ o.pc = "opendir"
      /\ u.cmd = r.cmd /\ u.in = r.in /\ u.pos = r.pos /\ u.res = r.res /\ u.start = r.start
      /\ u.pc = "unlink"
  BY <1>0 DEF Keys
<1> HIDE DEF o, u
<1>4. r.pos = 0 /\ r.res # "error"
  BY <1>0 DEF IoTyped
<1>5. IoTyped(o) /\ ~Copying(o) /\ IoTyped(u) /\ ~Copying(u)
  BY <1>0, <1>3, <1>4 DEF IoTyped, Copying
<1>6. IoTyped(Err(r)) /\ ~Copying(Err(r))
  BY <1>0, ErrIo
<1> QED
  BY <1>2, <1>5, <1>6, CpGo

LEMMA CpRemoveNode ==
    ASSUME Inv, CpAll, NEW s \in Sessions, RemoveNode(s)
    PROVE  CpAll'
<1> DEFINE r == st[s]
           q == Here(r.at.src)
<1>0. /\ Typed(r) /\ DOMAIN r = Keys /\ IoTyped(r) /\ (Copying(r) => CpInv(r, fs, data))
      /\ r.pc \in {"rmdir", "unlink"} /\ IsTree(fs) /\ data \in Data
  BY DEF Inv, Good, Typed, CpAll, RemoveNode
<1>1. IoTyped(Err(r)) /\ ~Copying(Err(r)) /\ IoTyped(Ok(r)) /\ ~Copying(Ok(r))
  BY <1>0, OkIo, ErrIo, OkIs, NoCopy
<1>2. q \in Seq(Names)
  BY <1>0, TypedPaths, HereTyped
<1>3. \/ /\ IF r.pc = "rmdir" THEN Kind(q) = "dir" /\ q # <<>> /\ Entries(q) = {}
            ELSE Kind(q) \in {"file", "link"}
         /\ Change(s, Without({q}), data, "anything", Ok(r))
      \/ Go(s, Err(r))
  BY DEF RemoveNode
<1>4. CASE Go(s, Err(r))
  BY <1>1, <1>4, CpGo
<1>5. ASSUME r.pc = "rmdir" => Kind(q) = "dir" /\ q # <<>> /\ Entries(q) = {},
             r.pc # "rmdir" => Kind(q) \in {"file", "link"},
             Change(s, Without({q}), data, "anything", Ok(r))
      PROVE  CpAll'
  <2>1. q \in DOMAIN fs /\ q # <<>> /\ Entries(q) = {}
    <3>1. CASE r.pc = "rmdir"
      BY <1>0, <1>5, <3>1, TreeIs DEF Kind
    <3>2. CASE r.pc # "rmdir"
      BY <1>0, <1>2, <1>5, <3>2, LeafIs
    <3> QED BY <3>1, <3>2
  <2>2. IsTree(Without({q}))
    BY <1>0, <2>1, TreeWithout
  <2> QED BY <1>0, <1>1, <1>5, <2>2, CpChange
<1> QED
  BY <1>3, <1>4, <1>5

-----------------------------------------------------------------------------
(* The steps of a copy. *)

LEMMA FileNode ==
    ASSUME NEW f, IsTree(f), NEW p, KindIn(f, p) = "file"
    PROVE  p \in DOMAIN f /\ f[p] = File(f[p].ino) /\ f[p].ino \in Inodes
<1>1. p \in DOMAIN f /\ f[p].kind = "file"
  BY DEF KindIn
<1>2. f[p] \in Node
  BY <1>1 DEF IsTree
<1>3. Dir.kind = "dir" /\ \A t : Link(t).kind = "link"
  BY DEF Dir, Link
<1>4. PICK i \in Inodes : f[p] = File(i)
  BY <1>1, <1>2, <1>3 DEF Node
<1>5. File(i).ino = i
  BY DEF File
<1> QED
  BY <1>1, <1>4, <1>5

\* It goes on where it is.
LEMMA CpOnward ==
    ASSUME NEW r, NEW x, NEW f, NEW d, CpInv(r, f, d), r.pc \notin {"scan", "done"},
           x.pc \notin {"scan", "done"}, x.cmd = r.cmd, x.start = r.start, x.at = r.at,
           x.stack = r.stack, Knows(x, f, d)
    PROVE  CpInv(x, f, d)
<1>1. /\ Src(x) = Src(r) /\ (\A q : Copied(x, f, d, q) <=> Copied(r, f, d, q))
      /\ (Grown(x, f, d) <=> Grown(r, f, d))
      /\ (\A fr : Scanned(x, f, d, fr) <=> Scanned(r, f, d, fr))
  BY SameCopy
<1>2. \A q : Todo(r, q) => Todo(x, q)
  BY DEF Todo
<1> QED
  BY <1>1, <1>2 DEF CpInv

LEMMA SamePlace ==
    ASSUME NEW r, NEW x, x.cmd = r.cmd, x.start = r.start, x.at = r.at, x.stack = r.stack, Placed(r)
    PROVE  Placed(x)
<1>1. \A p : At(x, p) = At(r, p)
  BY SameCopy
<1> QED
  BY <1>1 DEF Placed

LEMMA CpVisitCp ==
    ASSUME Inv, CpAll, NEW s \in Sessions, VisitCp(s)
    PROVE  CpAll'
<1> DEFINE r == st[s]
           kind == Looks(r.at.src)
           m == [r EXCEPT !.pc = "mkdst"]
           o == [r EXCEPT !.pc = "open"]
<1>0. /\ DOMAIN r = Keys /\ IoTyped(r) /\ (Copying(r) => CpInv(r, fs, data)) /\ r.pc = "visit"
  BY DEF Inv, Good, Typed, CpAll, VisitCp
<1>1. Go(s, CASE kind = "none" -> Err(r) [] kind = "dir" -> m [] OTHER -> o)
  BY DEF VisitCp
<1>2. Go(s, Err(r)) \/ Go(s, m) \/ Go(s, o)
  <2>1. CASE kind = "none"
    BY <1>1, <2>1
  <2>2. CASE kind = "dir"
    BY <1>1, <2>2
  <2>3. CASE kind \notin {"none", "dir"}
    BY <1>1, <2>3
  <2> QED BY <2>1, <2>2, <2>3
<1> DEFINE Goes(x) == /\ x.cmd = r.cmd /\ x.in = r.in /\ x.pos = r.pos /\ x.res = r.res
                      /\ x.start = r.start /\ x.at = r.at /\ x.stack = r.stack
                      /\ x.others = r.others /\ x.failed = r.failed /\ x.pc \in {"mkdst", "open"}
<1>3. Goes(m) /\ Goes(o)
  BY <1>0 DEF Keys
<1> HIDE DEF m, o
<1>4. r.pos = 0 /\ r.res # "error"
  BY <1>0 DEF IoTyped
<1>5. ASSUME NEW x, Goes(x) PROVE IoTyped(x) /\ (Copying(x) => CpInv(x, fs, data))
  <2>1. IoTyped(x)
    BY <1>0, <1>4, <1>5 DEF IoTyped
  <2>2. ASSUME Copying(x) PROVE CpInv(x, fs, data)
    <3>1. Copying(r)
      BY <1>0, <1>5, <2>2, CopyingBefore
    <3>2. CpInv(r, fs, data)
      BY <1>0, <3>1
    <3>3. Placed(r)
      BY <1>0, <3>2 DEF CpInv, Knows
    <3>4. Knows(x, fs, data)
      BY <1>5, <3>3, SamePlace DEF Knows
    <3> QED BY <1>0, <1>5, <3>2, <3>4, CpOnward
  <2> QED BY <2>1, <2>2
<1>6. IoTyped(Err(r)) /\ ~Copying(Err(r))
  BY <1>0, ErrIo
<1> HIDE DEF Goes
<1> QED
  BY <1>2, <1>3, <1>5, <1>6, CpGo

\* If the directories fit, mkdir() fails where there is one.
LEMMA MkdirFits ==
    ASSUME NEW r, Ready(r, fs, data), r.pc = "mkdst", r.at.src \in Src(r),
           Was(r, r.at.src) = "dir", Fits(r), ~HasRoom(r.at.dst)
    PROVE  Kind(r.at.dst) = "dir"
<1> DEFINE p == r.at.src
           q == r.at.dst
<1>0. /\ Typed(r) /\ r.pc # "idle" /\ IsTree(r.start.fs) /\ IsTree(fs) /\ Apart(r)
      /\ Grown(r, fs, data) /\ Placed(r)
  BY DEF Ready, Copying, CpInv, Knows
<1>1. p \in Seq(Names) /\ IsPrefix(r.cmd.src, p) /\ q = At(r, p) /\ q \in Seq(Names)
  BY <1>0, TypedPaths DEF Placed
<1>2. r.cmd.src \in Seq(Names) /\ r.cmd.dst \in Seq(Names)
  BY <1>0, TypedPaths
<1>3. q # <<>>
  <2>1. <<>> \in Seq(Names) /\ IsPrefix(<<>>, r.cmd.src) /\ IsPrefix(<<>>, r.cmd.dst)
    BY <1>2, PrefixProperties
  <2>2. r.cmd.dst # <<>>
    BY <1>0, <2>1 DEF Apart
  <2>3. IsPrefix(r.cmd.dst, q)
    BY <1>0, <1>1, AtIs
  <2>4. ASSUME q = <<>> PROVE FALSE
    <3>1. IsPrefix(r.cmd.dst, <<>>)
      BY <2>3, <2>4
    <3>2. r.cmd.dst = <<>>
      BY <1>2, <2>1, <3>1, PrefixProperties
    <3> QED BY <2>2, <3>2
  <2> QED BY <2>4
<1>4. Len(q) <= Depth /\ Was(r, q) \in {"none", "dir"}
  BY <1>1 DEF Fits
<1>5. KindIn(fs, Front(q)) = "dir"
  <2>1. CASE r.stack = <<>>
    <3>1. p = r.cmd.src
      BY <1>0, <2>1 DEF Placed
    <3>2. q = r.cmd.dst
      BY <1>0, <1>1, <3>1, AtIs
    <3>3. Was(r, Front(q)) = "dir"
      BY <3>2 DEF Fits
    <3>4. Front(q) \in DOMAIN r.start.fs
      BY <3>3 DEF Was, KindIn
    <3> QED BY <1>0, <3>3, <3>4, KindStays
  <2>2. CASE r.stack # <<>>
    <3> DEFINE fr == Last(r.stack)
    <3>1. fr \in Frame /\ \E i \in 1..Len(r.stack) : fr = r.stack[i]
      <4>1. r.stack \in Seq(Frame)
        BY <1>0 DEF Typed
      <4>2. Len(r.stack) \in Nat \ {0}
        BY <2>2, <4>1, EmptySeq
      <4>3. Len(r.stack) \in 1..Len(r.stack)
        BY <4>2
      <4>4. r.stack[Len(r.stack)] \in Frame
        BY <4>1, <4>3, ElementOfSeq
      <4> QED BY <4>3, <4>4 DEF Last
    <3>2. Scanned(r, fs, data, fr)
      BY <3>1 DEF Ready, CpInv
    <3>3. p # <<>> /\ Front(p) = fr.src
      BY <1>0, <2>2 DEF Placed
    <3>4. Front(p) \in Seq(Names) /\ IsPrefix(Front(p), p) /\ Front(p) # p
      BY <1>1, <3>3, FrontIsPrefix
    <3>5. IsPrefix(r.cmd.src, Front(p))
      BY <3>2, <3>3 DEF Scanned
    <3>6. p # r.cmd.src
      BY <1>1, <3>4, <3>5, PrefixProperties
    <3>7. Front(q) = At(r, Front(p))
      BY <1>0, <1>1, <3>6, AtIs
    <3>8. Front(p) \in Src(r)
      BY <1>0, <3>4, <3>5, WayWasThere
    <3>9. Was(r, Front(p)) = "dir" /\ Copied(r, fs, data, Front(p))
      BY <3>2, <3>3, <3>8 DEF Scanned
    <3> QED BY <3>7, <3>9 DEF Copied
  <2> QED BY <2>1, <2>2
<1>6. KindIn(fs, q) # "none"
  BY <1>3, <1>4, <1>5 DEF HasRoom, Kind
<1>7. q \in DOMAIN fs
  BY <1>6 DEF KindIn
<1>8. CASE q \in DOMAIN r.start.fs
  <2>1. KindIn(fs, q) = Was(r, q)
    BY <1>0, <1>8, KindStays
  <2> QED BY <1>4, <1>6, <2>1 DEF Kind
<1>9. ASSUME NEW y \in Src(r), Was(r, y) = "file", q = At(r, y) PROVE FALSE
  <2>1. y \in Seq(Names) /\ IsPrefix(r.cmd.src, y)
    BY <1>0, SrcIs
  <2>2. y = p
    BY <1>0, <1>1, <1>9, <2>1, AtIs
  <2> QED BY <1>9, <2>2
<1> QED
  BY <1>0, <1>7, <1>8, <1>9 DEF Grown, Kind

LEMMA CpMakeDst ==
    ASSUME Inv, CpAll, NEW s \in Sessions, MakeDst(s)
    PROVE  CpAll'
<1> DEFINE o == st[s]
           p == Here(o.at.dst)
           r == [o EXCEPT !.pc = "opendir"]
           x == [r EXCEPT !.failed = @ \/ HasRoom(p)]
<1>0. /\ Typed(o) /\ DOMAIN o = Keys /\ IoTyped(o) /\ (Copying(o) => CpInv(o, fs, data))
      /\ o.pc = "mkdst" /\ IsTree(fs) /\ data \in Data
  BY DEF Inv, Good, Typed, CpAll, MakeDst
<1>1. \/ HasRoom(p) /\ Change(s, Extended(p, Dir), data, "directories", r)
      \/ Go(s, x)
  BY DEF MakeDst
<1> DEFINE Goes(y) == /\ y.cmd = o.cmd /\ y.in = o.in /\ y.pos = o.pos /\ y.res = o.res
                      /\ y.start = o.start /\ y.at = o.at /\ y.stack = o.stack
                      /\ y.others = o.others /\ y.pc = "opendir"
<1>2. Goes(r) /\ r.failed = o.failed /\ Goes(x) /\ x.failed = (o.failed \/ HasRoom(p))
  BY <1>0 DEF Keys
<1> HIDE DEF r, x
<1>3. o.pos = 0 /\ o.res # "error"
  BY <1>0 DEF IoTyped
<1>4. IoTyped(r) /\ IoTyped(x)
  BY <1>0, <1>2, <1>3 DEF IoTyped
<1>5. p \in Seq(Names)
  BY <1>0, TypedPaths, HereTyped
<1>6. ASSUME Copying(o)
      PROVE  /\ Ready(o, fs, data) /\ Placed(o)
             /\ o.at.src \in Src(o) => p = o.at.dst /\ p = At(o, o.at.src)
  <2>1. CpInv(o, fs, data) /\ o.pc # "idle" /\ IsTree(o.start.fs)
    BY <1>0, <1>6 DEF Typed
  <2>2. Placed(o) /\ Grown(o, fs, data) /\ Plain(o)
    BY <1>0, <1>6, <2>1 DEF CpInv, Knows, Copying
  <2>3. \A q \in Src(o) : Walk(fs, At(o, q), FALSE) = At(o, q)
    BY <1>0, <2>1, <2>2, CopyWalk
  <2>4. o.at.src \in Src(o) => p = o.at.dst
    BY <2>2, <2>3 DEF Placed, Here
  <2> QED BY <1>0, <1>6, <2>1, <2>2, <2>4 DEF Ready, Placed
<1>7. ASSUME NEW y, Goes(y), NEW g, Copying(o), CpInv(o, g, data),
             /\ o.at.src \in Src(o) /\ Was(o, o.at.src) = "dir" /\ Fits(o)
             => KindIn(g, At(o, o.at.src)) = "dir"
      PROVE  CpInv(y, g, data)
  <2>1. /\ Src(y) = Src(o) /\ (\A q : Was(y, q) = Was(o, q))
        /\ (\A q : Copied(y, g, data, q) <=> Copied(o, g, data, q))
    BY <1>7, SameCopy
  <2>2. Placed(y)
    BY <1>6, <1>7, SamePlace
  <2>3. o.at.src \in Src(o) /\ Was(o, o.at.src) = "dir" => Copied(o, g, data, o.at.src)
    BY <1>7 DEF Copied
  <2>4. Knows(y, g, data)
    BY <1>7, <2>1, <2>2, <2>3 DEF Knows
  <2> QED BY <1>0, <1>7, <2>4, CpOnward
<1>8. CASE HasRoom(p) /\ Change(s, Extended(p, Dir), data, "directories", r)
  <2> DEFINE g == Extended(p, Dir)
  <2>1. IsTree(g) /\ Made(fs, g, p)
    BY <1>0, <1>5, <1>8, MadeDir
  <2> HIDE DEF g
  <2>2. ASSUME Copying(r) PROVE CpInv(r, g, data)
    <3>1. Copying(o)
      BY <1>0, <1>2, <2>2, CopyingBefore
    <3>2. CpInv(o, g, data)
      BY <1>0, <2>1, <3>1, CpMade
    <3>3. o.at.src \in Src(o) => KindIn(g, At(o, o.at.src)) = "dir"
      BY <1>6, <2>1, <3>1 DEF Made
    <3> HIDE DEF Goes
    <3> QED BY <1>2, <1>7, <3>1, <3>2, <3>3
  <2>3. Change(s, g, data, "directories", r)
    BY <1>8 DEF g
  <2> QED BY <1>0, <1>4, <2>1, <2>2, <2>3, CpChange
<1>9. CASE Go(s, x)
  <2>1. ASSUME Copying(x) PROVE CpInv(x, fs, data)
    <3>1. ~HasRoom(p) /\ ~o.failed
      BY <1>2, <2>1 DEF Copying
    <3>2. Copying(o)
      BY <1>0, <1>2, <2>1, <3>1, CopyingBefore
    <3>3. CpInv(o, fs, data)
      BY <1>0, <3>2
    <3>4. /\ o.at.src \in Src(o) /\ Was(o, o.at.src) = "dir" /\ Fits(o)
          => KindIn(fs, At(o, o.at.src)) = "dir"
      BY <1>0, <1>6, <3>1, <3>2, MkdirFits DEF Kind
    <3> HIDE DEF Goes
    <3> QED BY <1>2, <1>7, <3>2, <3>3, <3>4
  <2> QED BY <1>4, <1>9, <2>1, CpGo
<1> QED
  BY <1>1, <1>8, <1>9

LEMMA CpOpenDir ==
    ASSUME Inv, CpAll, NEW s \in Sessions, OpenDir(s)
    PROVE  CpAll'
<1> DEFINE r == st[s]
           p == There(r.at.src)
           frame == [src |-> r.at.src, dst |-> r.at.dst, first |-> Entries(p), seen |-> {}]
           x == [r EXCEPT !.pc = "scan", !.stack = Append(@, frame)]
<1>0. /\ Typed(r) /\ DOMAIN r = Keys /\ IoTyped(r) /\ (Copying(r) => CpInv(r, fs, data))
      /\ r.pc = "opendir" /\ IsTree(fs)
  BY DEF Inv, Good, Typed, CpAll, OpenDir
<1>1. Go(s, Err(r)) \/ (Kind(p) = "dir" /\ Go(s, x))
  <2>1. Go(s, IF Kind(p) # "dir" THEN Err(r) ELSE x)
    BY DEF OpenDir
  <2>2. CASE Kind(p) = "dir"
    BY <2>1, <2>2
  <2>3. CASE Kind(p) # "dir"
    BY <2>1, <2>3
  <2> QED BY <2>2, <2>3
<1>2. IoTyped(Err(r)) /\ ~Copying(Err(r))
  BY <1>0, ErrIo
<1>3. r.at.src \in Seq(Names) /\ r.at.dst \in Seq(Names)
  BY <1>0, TypedPaths
<1>4. /\ frame \in Frame /\ frame.src = r.at.src /\ frame.dst = r.at.dst
      /\ frame.first = Entries(p) /\ frame.seen = {}
  <2>1. Entries(p) \in SUBSET Names /\ {} \in SUBSET Names
    BY DEF Entries
  <2> HIDE DEF p
  <2> QED BY <1>3, <2>1 DEF Frame
<1> HIDE DEF frame
<1>5. /\ x.pc = "scan" /\ x.stack = Append(r.stack, frame) /\ x.cmd = r.cmd /\ x.in = r.in
      /\ x.pos = r.pos /\ x.failed = r.failed
      /\ x.at = r.at /\ x.start = r.start /\ x.others = r.others /\ x.res = r.res
  BY <1>0 DEF Keys
<1> HIDE DEF x
<1>6. /\ Len(r.stack) \in Nat /\ Len(x.stack) = Len(r.stack) + 1
      /\ \A i \in 1..Len(r.stack) : x.stack[i] = r.stack[i]
      /\ x.stack[Len(r.stack) + 1] = frame
  <2>1. r.stack \in Seq(Frame)
    BY <1>0 DEF Typed
  <2>2. Len(r.stack) \in Nat
    BY <2>1
  <2> QED BY <1>4, <1>5, <2>1, <2>2, AppendIs
<1>7. IoTyped(x)
  <2>1. r.pos = 0 /\ r.res # "error"
    BY <1>0 DEF IoTyped
  <2> QED BY <1>0, <1>5, <2>1 DEF IoTyped
<1>8. ASSUME Kind(p) = "dir", Copying(x) PROVE CpInv(x, fs, data)
  <2>1. Copying(r)
    BY <1>0, <1>5, <1>8, CopyingBefore
  <2>2. CpInv(r, fs, data) /\ Grown(r, fs, data) /\ Knows(r, fs, data) /\ Plain(r) /\ Placed(r)
    BY <1>0, <2>1 DEF CpInv, Copying, Knows
  <2>3. IsPrefix(r.cmd.src, r.at.src) /\ r.at.dst = At(r, r.at.src)
    BY <2>2 DEF Placed
  <2>4. p = r.at.src
    BY <1>0, <1>3, <2>2, <2>3, CopyWalk DEF There
  <2>5. /\ Src(x) = Src(r) /\ (\A q : Copied(x, fs, data, q) <=> Copied(r, fs, data, q))
        /\ (Grown(x, fs, data) <=> Grown(r, fs, data))
        /\ (\A fr : Scanned(x, fs, data, fr) <=> Scanned(r, fs, data, fr))
    BY <1>5, SameCopy
  <2>6. r.at.src \in Src(r) => Was(r, r.at.src) = "dir" /\ Copied(r, fs, data, r.at.src)
    <3>1. r.at.src \in Src(r) => r.at.src \in DOMAIN r.start.fs
      BY DEF Src, Below
    <3>2. r.at.src \in Src(r) => Was(r, r.at.src) = "dir"
      BY <1>8, <2>2, <2>4, <3>1, KindStays DEF Kind
    <3> QED BY <1>0, <2>2, <3>2 DEF Knows
  <2>7. Scanned(r, fs, data, frame)
    <3>1. \A y \in Names : Append(r.at.src, y) \in DOMAIN r.start.fs => y \in Entries(p)
      BY <2>2, <2>4 DEF Entries, Grown
    <3> QED BY <1>4, <2>3, <2>6, <3>1 DEF Scanned
  <2>8. ASSUME NEW i \in 1..Len(x.stack) PROVE Scanned(x, fs, data, x.stack[i])
    <3>1. i \in 1..Len(r.stack) \/ i = Len(r.stack) + 1
      BY <1>6
    <3>2. CASE i \in 1..Len(r.stack)
      BY <1>6, <2>2, <2>5, <3>2 DEF CpInv
    <3>3. CASE i = Len(r.stack) + 1
      BY <1>6, <2>5, <2>7, <3>3
    <3> QED BY <3>1, <3>2, <3>3
  <2>9. ASSUME NEW q \in Src(r) PROVE Copied(r, fs, data, q) \/ Todo(x, q)
    <3>0. Len(r.stack) + 1 \in 1..Len(x.stack) /\ \A i \in 1..Len(r.stack) : i \in 1..Len(x.stack)
      BY <1>6
    <3>1. Copied(r, fs, data, q) \/ Todo(r, q)
      BY <2>2 DEF CpInv
    <3>2. CASE IsPrefix(r.at.src, q) /\ r.at.src # q
      <4>1. q \in Seq(Names)
        BY <1>0, SrcIs
      <4>2. PICK y \in Names : IsPrefix(Append(r.at.src, y), q)
        BY <1>3, <3>2, <4>1, PrefixGoesOn
      <4>3. y \in Names \ x.stack[Len(r.stack) + 1].seen
            /\ IsPrefix(Append(x.stack[Len(r.stack) + 1].src, y), q)
        BY <1>4, <1>6, <4>2
      <4> QED BY <3>0, <4>3 DEF Todo
    <3>3. CASE r.at.src = q
      BY <2>6, <3>3
    <3>4. ASSUME NEW i \in 1..Len(r.stack), NEW y \in Names \ r.stack[i].seen,
                 IsPrefix(Append(r.stack[i].src, y), q)
          PROVE  Todo(x, q)
      BY <1>6, <3>0, <3>4 DEF Todo
    <3> QED BY <3>1, <3>2, <3>3, <3>4 DEF Todo
  <2>10. Knows(x, fs, data)
    BY <1>5 DEF Knows
  <2> QED BY <2>2, <2>5, <2>8, <2>9, <2>10 DEF CpInv
<1> HIDE DEF p
<1> QED
  BY <1>1, <1>2, <1>7, <1>8, CpGo

LEMMA CpReadDir ==
    ASSUME Inv, CpAll, NEW s \in Sessions, NEW y \in Names, ReadDir(s, y)
    PROVE  CpAll'
<1> DEFINE r == st[s]
           n == Len(r.stack)
           top == Top(s)
           x == [r EXCEPT !.pc = "visit",
                   !.at.src = Append(top.src, y), !.at.dst = Append(top.dst, y),
                   !.stack[n].seen = @ \cup {y}]
<1>0. /\ Typed(r) /\ DOMAIN r = Keys /\ IoTyped(r) /\ (Copying(r) => CpInv(r, fs, data))
      /\ r.pc = "scan" /\ IsTree(fs)
  BY DEF Inv, Good, Typed, CpAll, ReadDir
<1>1. Go(s, x)
  BY DEF ReadDir
<1>2. /\ r.stack \in Seq(Frame) /\ n \in Nat /\ n \in 1..n
      /\ top = r.stack[n] /\ top \in Frame
      /\ top.src \in Seq(Names) /\ top.dst \in Seq(Names) /\ top.seen \in SUBSET Names
  BY <1>0, TopIs
<1> DEFINE at == [[r.at EXCEPT !.src = Append(top.src, y)] EXCEPT !.dst = Append(top.dst, y)]
           frame == [top EXCEPT !.seen = @ \cup {y}]
           stack == [r.stack EXCEPT ![n] = frame]
<1> HIDE DEF top
<1>3. /\ x.pc = "visit" /\ x.cmd = r.cmd /\ x.start = r.start /\ x.others = r.others
      /\ x.res = r.res /\ x.in = r.in /\ x.pos = r.pos /\ x.failed = r.failed
      /\ x.at = at /\ x.stack = stack
  BY <1>0, <1>2 DEF Keys
<1> HIDE DEF x
<1>4. Append(top.src, y) \in Seq(Names) /\ Append(top.src, y) # <<>>
      /\ Front(Append(top.src, y)) = top.src
  <2>1. \A t \in Seq(Names) : Append(t, y) \in Seq(Names) /\ Append(t, y) # <<>>
                              /\ Front(Append(t, y)) = t
    BY AppendIs
  <2> QED BY <1>2, <2>1
<1>5. at.src = Append(top.src, y) /\ at.dst = Append(top.dst, y)
  BY <1>0 DEF Typed, Place
<1>6. /\ frame \in Frame /\ frame.src = top.src /\ frame.dst = top.dst /\ frame.first = top.first
      /\ frame.seen = top.seen \cup {y}
  BY <1>2 DEF Frame
<1> HIDE DEF at, frame
<1>7. /\ stack \in Seq(Frame) /\ Len(stack) = n
      /\ \A i \in 1..n : stack[i] = IF i = n THEN frame ELSE r.stack[i]
  BY <1>2, <1>6, ExceptSeq
<1>8. \A i \in 1..n : /\ stack[i].src = r.stack[i].src /\ stack[i].dst = r.stack[i].dst
                      /\ stack[i].first = r.stack[i].first
                      /\ i # n => stack[i].seen = r.stack[i].seen
  BY <1>2, <1>6, <1>7
<1>9. stack[n].seen = top.seen \cup {y} /\ stack[n].src = top.src
  BY <1>2, <1>6, <1>7
<1> HIDE DEF stack
<1>10. stack # <<>> /\ Last(stack).src = top.src
  BY <1>2, <1>7, <1>9 DEF Last
<1>11. IoTyped(x)
  <2>1. r.pos = 0 /\ r.res # "error"
    BY <1>0 DEF IoTyped
  <2> QED BY <1>0, <1>3, <2>1 DEF IoTyped
<1>12. ASSUME Copying(x) PROVE CpInv(x, fs, data)
  <2>1. Copying(r)
    BY <1>0, <1>3, <1>12, CopyingBefore
  <2>2. CpInv(r, fs, data) /\ Grown(r, fs, data)
    BY <1>0, <2>1 DEF CpInv
  <2>3. /\ Src(x) = Src(r) /\ (\A q : Copied(x, fs, data, q) <=> Copied(r, fs, data, q))
        /\ (Grown(x, fs, data) <=> Grown(r, fs, data)) /\ (\A q : At(x, q) = At(r, q))
        /\ (\A fr : Scanned(x, fs, data, fr) <=> Scanned(r, fs, data, fr))
    BY <1>3, SameCopy
  <2>4. \A i \in 1..n : Scanned(r, fs, data, r.stack[i])
    BY <2>2 DEF CpInv
  <2>5. \A i \in 1..n : Scanned(r, fs, data, stack[i])
    BY <1>8, <2>4 DEF Scanned
  <2>6. Placed(x)
    <3>1. IsPrefix(r.cmd.src, top.src) /\ top.dst = At(r, top.src)
      BY <1>2, <2>4 DEF Scanned
    <3>2. IsPrefix(r.cmd.src, Append(top.src, y)) /\ At(r, Append(top.src, y)) = Append(top.dst, y)
      BY <1>0, <1>2, <3>1, AtIs
    <3> QED BY <1>3, <1>4, <1>5, <1>10, <2>3, <3>2 DEF Placed
  <2>7. Knows(x, fs, data)
    BY <1>3, <2>6 DEF Knows
  <2>8. ASSUME NEW q \in Src(r) PROVE Copied(r, fs, data, q) \/ Todo(x, q)
    <3>1. Copied(r, fs, data, q) \/ Todo(r, q)
      BY <2>2 DEF CpInv
    <3>2. ASSUME NEW i \in 1..n, NEW z \in Names \ r.stack[i].seen,
                 IsPrefix(Append(r.stack[i].src, z), q)
          PROVE  Todo(x, q)
      <4>1. CASE i = n /\ z = y
        <5>1. IsPrefix(x.at.src, q)
          BY <1>2, <1>3, <1>5, <3>2, <4>1
        <5> QED BY <1>3, <5>1 DEF Todo
      <4>2. CASE ~(i = n /\ z = y)
        <5>1. z \in Names \ stack[i].seen
          BY <1>2, <1>8, <1>9, <3>2, <4>2
        <5>2. IsPrefix(Append(stack[i].src, z), q)
          BY <1>8, <3>2
        <5> QED BY <1>3, <1>7, <5>1, <5>2 DEF Todo
      <4> QED BY <4>1, <4>2
    <3> QED BY <1>0, <3>1, <3>2 DEF Todo
  <2> QED BY <1>3, <1>7, <2>2, <2>3, <2>5, <2>7, <2>8 DEF CpInv
<1> QED
  BY <1>1, <1>11, <1>12, CpGo

LEMMA CpCloseDir ==
    ASSUME Inv, CpAll, NEW s \in Sessions, CloseDir(s)
    PROVE  CpAll'
<1> DEFINE r == st[s]
           n == Len(r.stack)
           top == Top(s)
           z == [r EXCEPT !.stack = Front(@), !.at.src = top.src, !.at.dst = top.dst]
           x == [z EXCEPT !.pc = "rmdir"]
<1>0. /\ Typed(r) /\ DOMAIN r = Keys /\ IoTyped(r) /\ (Copying(r) => CpInv(r, fs, data))
      /\ r.pc = "scan" /\ IsTree(fs)
      /\ top.first \cap Entries(There(top.src)) \subseteq top.seen
  BY DEF Inv, Good, Typed, CpAll, CloseDir
<1>1. Go(s, IF z.cmd.op = "rm -r" THEN x ELSE Ok(z))
  BY DEF CloseDir
<1>2. /\ r.stack \in Seq(Frame) /\ n \in Nat /\ n >= 1 /\ n \in 1..n
      /\ top = r.stack[n] /\ top \in Frame
      /\ top.src \in Seq(Names) /\ top.dst \in Seq(Names)
  BY <1>0, TopIs
<1> HIDE DEF top
<1>3. /\ DOMAIN z = Keys /\ z.pc = "scan" /\ z.cmd = r.cmd /\ z.start = r.start
      /\ z.others = r.others /\ z.res = r.res /\ z.in = r.in /\ z.pos = r.pos
      /\ z.failed = r.failed /\ z.stack = Front(r.stack)
  BY <1>0 DEF Keys
<1> HIDE DEF z
<1>4. r.pos = 0 /\ r.res # "error"
  BY <1>0 DEF IoTyped
<1>5. IoTyped(z)
  BY <1>0, <1>3, <1>4 DEF IoTyped
<1>6. /\ Len(Front(r.stack)) = n - 1 /\ \A i \in 1..(n - 1) : Front(r.stack)[i] = r.stack[i]
  BY <1>0, <1>2, FrontIs DEF Typed
<1>7. CASE r.cmd.op = "rm -r"
  <2>1. Go(s, x)
    BY <1>1, <1>3, <1>7
  <2>2. /\ x.pc = "rmdir" /\ x.cmd = r.cmd /\ x.start = r.start /\ x.in = r.in /\ x.pos = r.pos
        /\ x.res = r.res
    BY <1>3 DEF Keys
  <2> HIDE DEF x
  <2>3. IoTyped(x) /\ ~Copying(x)
    BY <1>0, <1>4, <1>7, <2>2 DEF IoTyped, Copying
  <2> QED BY <2>1, <2>3, CpGo
<1>8. CASE r.cmd.op # "rm -r"
  <2> DEFINE o == Ok(z)
  <2>1. Go(s, o) /\ IoTyped(o)
    BY <1>1, <1>3, <1>5, <1>8, OkIo
  <2>2. /\ o.cmd = r.cmd /\ o.start = r.start /\ o.others = r.others /\ o.failed = r.failed
        /\ o.stack = Front(r.stack) /\ o.pc = (IF o.stack = <<>> THEN "done" ELSE "scan")
    BY <1>3, OkIs
  <2> HIDE DEF o
  <2>3. ASSUME Copying(o) PROVE CpInv(o, fs, data)
    <3>1. Copying(r)
      BY <1>0, <2>2, <2>3, CopyingBefore
    <3>2. CpInv(r, fs, data) /\ Grown(r, fs, data) /\ Plain(r)
      BY <1>0, <3>1 DEF CpInv, Copying
    <3>3. /\ Src(o) = Src(r) /\ (\A q : Copied(o, fs, data, q) <=> Copied(r, fs, data, q))
          /\ (Grown(o, fs, data) <=> Grown(r, fs, data))
          /\ (\A fr : Scanned(o, fs, data, fr) <=> Scanned(r, fs, data, fr))
      BY <2>2, SameCopy
    <3>4. Knows(o, fs, data)
      BY <2>2 DEF Knows
    <3>5. \A i \in 1..(n - 1) : i \in 1..n
      BY <1>2
    <3>6. \A i \in 1..n : Scanned(r, fs, data, r.stack[i])
      BY <3>2 DEF CpInv
    <3>7. \A i \in 1..Len(o.stack) : Scanned(o, fs, data, o.stack[i])
      BY <1>6, <2>2, <3>3, <3>5, <3>6
    <3>8. There(top.src) = top.src /\ IsPrefix(r.cmd.src, top.src)
      <4>1. IsPrefix(r.cmd.src, top.src)
        BY <1>2, <3>6 DEF Scanned
      <4> QED BY <1>0, <1>2, <3>2, <4>1, CopyWalk DEF There
    <3>9. ASSUME NEW q \in Src(r), NEW y \in Names \ top.seen, IsPrefix(Append(top.src, y), q)
          PROVE  FALSE
      <4>1. Append(top.src, y) \in Seq(Names) /\ IsPrefix(r.cmd.src, Append(top.src, y))
        BY <1>0, <1>2, <3>8, AppendIs, AtIs
      <4>2. Append(top.src, y) \in Src(r)
        BY <1>0, <3>9, <4>1, WayWasThere
      <4>3. Append(top.src, y) \in DOMAIN r.start.fs
        BY <4>2 DEF Src, Below
      <4>4. y \in top.first
        BY <1>2, <3>6, <4>3 DEF Scanned
      <4>5. y \in Entries(top.src)
        BY <3>2, <4>3 DEF Entries, Grown
      <4> QED BY <1>0, <3>8, <3>9, <4>4, <4>5
    <3>10. ASSUME NEW q \in Src(r) PROVE Copied(r, fs, data, q) \/ Todo(o, q)
      <4>1. Copied(r, fs, data, q) \/ Todo(r, q)
        BY <3>2 DEF CpInv
      <4>2. ASSUME NEW i \in 1..n, NEW y \in Names \ r.stack[i].seen,
                   IsPrefix(Append(r.stack[i].src, y), q)
            PROVE  Todo(o, q)
        <5>1. i # n
          BY <1>2, <3>9, <4>2
        <5>2. i \in 1..(n - 1)
          BY <1>2, <5>1
        <5>3. o.stack[i] = r.stack[i] /\ i \in 1..Len(o.stack)
          BY <1>6, <2>2, <5>2
        <5> QED BY <4>2, <5>3 DEF Todo
      <4> QED BY <1>0, <4>1, <4>2 DEF Todo
    <3> QED BY <3>2, <3>3, <3>4, <3>7, <3>10 DEF CpInv
  <2> QED BY <2>1, <2>3, CpGo
<1> QED
  BY <1>7, <1>8

LEMMA CpOpenIn ==
    ASSUME Inv, CpAll, NEW s \in Sessions, OpenIn(s)
    PROVE  CpAll'
<1> DEFINE r == st[s]
           p == There(r.at.src)
           i == [r EXCEPT !.pc = "create", !.in = fs[p].ino]
           o == [r EXCEPT !.pc = "create"]
<1>0. /\ Typed(r) /\ DOMAIN r = Keys /\ IoTyped(r) /\ (Copying(r) => CpInv(r, fs, data))
      /\ r.pc = "open" /\ IsTree(fs)
  BY DEF Inv, Good, Typed, CpAll, OpenIn
<1>1. Go(s, Err(r)) \/ (Kind(p) = "file" /\ Go(s, i)) \/ Go(s, o)
  <2>1. Go(s, CASE Kind(p) = "file" -> i [] Kind(p) = "dir" -> o [] OTHER -> Err(r))
    BY DEF OpenIn
  <2>2. CASE Kind(p) = "file"
    BY <2>1, <2>2
  <2>3. CASE Kind(p) = "dir"
    BY <2>1, <2>3
  <2>4. CASE Kind(p) \notin {"file", "dir"}
    BY <2>1, <2>4
  <2> QED BY <2>2, <2>3, <2>4
<1>2. IoTyped(Err(r)) /\ ~Copying(Err(r))
  BY <1>0, ErrIo
<1>3. /\ i.cmd = r.cmd /\ i.start = r.start /\ i.others = r.others /\ i.at = r.at
      /\ i.stack = r.stack /\ i.pos = r.pos /\ i.res = r.res /\ i.failed = r.failed
      /\ i.pc = "create" /\ i.in = fs[p].ino
  BY <1>0 DEF Keys
<1>4. /\ o.start = r.start /\ o.pos = r.pos /\ o.res = r.res /\ o.pc = "create" /\ o.in = r.in
  BY <1>0 DEF Keys
<1> HIDE DEF i, o
<1>5. r.pos = 0 /\ r.res # "error" /\ r.in = None
  BY <1>0 DEF IoTyped
<1>6. IoTyped(o) /\ ~Copying(o)
  BY <1>0, <1>4, <1>5 DEF IoTyped, Copying
<1>7. Kind(p) = "file" => IoTyped(i)
  <2>1. Kind(p) = "file" => fs[p].ino \in Inodes
    BY <1>0, FileNode DEF Kind
  <2> QED BY <1>0, <1>3, <1>5, <2>1 DEF IoTyped
<1>8. ASSUME Kind(p) = "file", Copying(i) PROVE CpInv(i, fs, data)
  <2>1. Copying(r)
    BY <1>0, <1>3, <1>8, CopyingBefore
  <2>2. CpInv(r, fs, data) /\ Grown(r, fs, data) /\ Plain(r) /\ Apart(r) /\ Placed(r)
    BY <1>0, <2>1 DEF CpInv, Copying, Knows
  <2>3. r.at.src \in Seq(Names) /\ IsPrefix(r.cmd.src, r.at.src)
    BY <1>0, <2>2, TypedPaths DEF Placed
  <2>4. p = r.at.src
    BY <1>0, <2>2, <2>3, CopyWalk DEF There
  <2>5. r.at.src \in Src(r) /\ Was(r, r.at.src) = "file" /\ fs[p] = r.start.fs[r.at.src]
    BY <1>0, <1>8, <2>2, <2>3, <2>4, FileWasThere DEF Kind
  <2>6. Src(i) = Src(r) /\ Was(i, r.at.src) = Was(r, r.at.src) /\ Placed(i)
    BY <1>3, <2>2, SameCopy, SamePlace
  <2>7. Knows(i, fs, data)
    BY <1>3, <2>5, <2>6 DEF Knows
  <2> QED BY <1>0, <1>3, <2>2, <2>7, CpOnward
<1> HIDE DEF p
<1> QED
  BY <1>1, <1>2, <1>6, <1>7, <1>8, CpGo

\* What copy_file() writes: in file i, the one at the destination.
Wrote(r, f, d, g, e, i) ==
    /\ \A q \in DOMAIN f : q \in DOMAIN g /\ g[q] = f[q]
    /\ \A q : q # r.at.dst => KindIn(g, q) = KindIn(f, q)
    /\ KindIn(g, r.at.dst) = "file" /\ g[r.at.dst].ino = i
    /\ \A q \in DOMAIN f : KindIn(f, q) = "file" /\ f[q].ino = i => q = r.at.dst
    /\ \A j \in Inodes : j # i => e[j] = d[j]

LEMMA GrownWrote ==
    ASSUME NEW r, NEW f, NEW d, Ready(r, f, d), r.pc \in {"create", "copy"},
           NEW g, NEW e, NEW i, IsTree(g), Wrote(r, f, d, g, e, i)
    PROVE  Grown(r, g, e)
<1> DEFINE t == r.at.dst
<1>0. /\ Typed(r) /\ r.pc # "idle" /\ IsTree(r.start.fs) /\ IsTree(f) /\ Apart(r)
      /\ Grown(r, f, d) /\ Placed(r) /\ r.at.src \in Src(r) /\ Was(r, r.at.src) = "file"
  BY DEF Ready, Copying, CpInv, Knows
<1>1. t = At(r, r.at.src) /\ IsPrefix(r.cmd.dst, t)
  BY <1>0, SrcIs, AtIs DEF Placed
<1>2. ASSUME NEW q \in DOMAIN g, q # t
      PROVE  q \in DOMAIN f /\ KindIn(g, q) = KindIn(f, q) /\ g[q] = f[q]
  <2>1. KindIn(g, q) = KindIn(f, q) /\ KindIn(g, q) # "none"
    BY <1>2, TreeIs DEF Wrote
  <2>2. q \in DOMAIN f
    BY <2>1 DEF KindIn
  <2> QED BY <2>1, <2>2 DEF Wrote
<1>3. \A q \in DOMAIN r.start.fs : q \in DOMAIN g /\ g[q] = r.start.fs[q]
  BY <1>0 DEF Grown, Wrote
<1>4. ASSUME NEW q \in DOMAIN g
      PROVE  \/ q \in DOMAIN r.start.fs \/ KindIn(g, q) = "dir"
             \/ KindIn(g, q) = "file" /\ \E y \in Src(r) : Was(r, y) = "file" /\ q = At(r, y)
  <2>1. CASE q = t
    BY <1>0, <1>1, <2>1 DEF Wrote
  <2>2. CASE q # t
    BY <1>0, <1>2, <2>2 DEF Grown
  <2> QED BY <2>1, <2>2
<1>5. ASSUME NEW q \in DOMAIN g, NEW y \in DOMAIN g, KindIn(g, q) = "file", KindIn(g, y) = "file",
             g[q].ino = g[y].ino
      PROVE  q = y
  <2>1. ASSUME NEW u \in DOMAIN g, u # t, KindIn(g, u) = "file" PROVE g[u].ino # i
    BY <1>2, <2>1 DEF Wrote
  <2>2. g[t].ino = i
    BY DEF Wrote
  <2>3. CASE q = t \/ y = t
    BY <1>5, <2>1, <2>2, <2>3
  <2>4. CASE q # t /\ y # t
    <3>1. /\ q \in DOMAIN f /\ KindIn(f, q) = "file" /\ f[q] = g[q]
          /\ y \in DOMAIN f /\ KindIn(f, y) = "file" /\ f[y] = g[y]
      BY <1>2, <1>5, <2>4
    <3> QED BY <1>0, <1>5, <3>1 DEF Grown
  <2> QED BY <2>3, <2>4
<1>6. ASSUME NEW q \in Src(r), Was(r, q) = "file"
      PROVE  e[r.start.fs[q].ino] = r.start.data[r.start.fs[q].ino]
  <2>1. q \in DOMAIN r.start.fs /\ q \in Seq(Names) /\ IsPrefix(r.cmd.src, q)
    BY <1>0, SrcIs
  <2>2. q # t
    BY <1>0, <1>1, <2>1, TreesApart
  <2>3. q \in DOMAIN f /\ KindIn(f, q) = "file" /\ f[q] = r.start.fs[q]
    BY <1>0, <1>6, <2>1, KindStays DEF Grown
  <2>4. f[q].ino # i
    BY <2>2, <2>3 DEF Wrote
  <2>5. f[q].ino \in Inodes
    BY <1>0, <2>3, FileNode
  <2>6. e[f[q].ino] = d[f[q].ino]
    BY <2>4, <2>5 DEF Wrote
  <2>7. d[r.start.fs[q].ino] = r.start.data[r.start.fs[q].ino]
    BY <1>0, <1>6 DEF Grown
  <2> QED BY <2>3, <2>6, <2>7
<1> QED
  BY <1>3, <1>4, <1>5, <1>6 DEF Grown

LEMMA CopiedWrote ==
    ASSUME NEW r, NEW f, NEW d, Ready(r, f, d), r.pc \in {"create", "copy"},
           NEW g, NEW e, NEW i, Wrote(r, f, d, g, e, i), NEW q \in Src(r), q # r.at.src,
           Copied(r, f, d, q)
    PROVE  Copied(r, g, e, q)
<1> DEFINE t == r.at.dst
           u == At(r, q)
<1>0. /\ Typed(r) /\ r.pc # "idle" /\ IsTree(f) /\ Placed(r) /\ r.at.src \in Src(r)
  BY DEF Ready, Copying, CpInv, Knows
<1>1. u # t
  <2>1. /\ q \in Seq(Names) /\ IsPrefix(r.cmd.src, q)
        /\ r.at.src \in Seq(Names) /\ IsPrefix(r.cmd.src, r.at.src)
    BY <1>0, SrcIs
  <2>2. t = At(r, r.at.src)
    BY <1>0 DEF Placed
  <2> QED BY <1>0, <2>1, <2>2, AtIs
<1>2. KindIn(g, u) = KindIn(f, u)
  BY <1>1 DEF Wrote
<1>3. ASSUME KindIn(f, u) = "file" PROVE e[g[u].ino] = d[f[u].ino]
  <2>1. u \in DOMAIN f /\ f[u].ino \in Inodes
    BY <1>0, <1>3, FileNode
  <2>2. g[u] = f[u] /\ f[u].ino # i
    BY <1>1, <1>3, <2>1 DEF Wrote
  <2> QED BY <2>1, <2>2 DEF Wrote
<1> QED
  BY <1>2, <1>3 DEF Copied

LEMMA CpWrites ==
    ASSUME NEW r, NEW f, NEW d, Ready(r, f, d), r.pc \in {"create", "copy"},
           NEW g, NEW e, NEW i, IsTree(g), Wrote(r, f, d, g, e, i),
           NEW x, x.cmd = r.cmd, x.start = r.start, x.at = r.at, x.stack = r.stack, x.in = r.in,
           x.pc = "copy", x.out = i, Begun(r.start.data[r.in], e[i], x.pos)
    PROVE  CpInv(x, g, e)
<1>0. /\ Typed(r) /\ r.pc # "idle" /\ CpInv(r, f, d) /\ Placed(r) /\ r.at.src \in Src(r)
      /\ Was(r, r.at.src) = "file" /\ r.in = r.start.fs[r.at.src].ino
  BY DEF Ready, Copying, CpInv, Knows
<1>1. Grown(r, g, e)
  BY GrownWrote
<1>2. \A q \in Src(r) : q # r.at.src /\ Copied(r, f, d, q) => Copied(r, g, e, q)
  BY CopiedWrote
<1>3. /\ Src(x) = Src(r) /\ (\A q : Copied(x, g, e, q) <=> Copied(r, g, e, q))
      /\ (\A q : Was(x, q) = Was(r, q)) /\ (Grown(x, g, e) <=> Grown(r, g, e))
      /\ (\A fr : Scanned(x, g, e, fr) <=> Scanned(r, g, e, fr))
  BY SameCopy
<1>4. Knows(x, g, e)
  <2>1. Placed(x)
    BY <1>0, SamePlace
  <2>2. KindIn(g, x.at.dst) = "file" /\ g[x.at.dst].ino = x.out
    BY DEF Wrote
  <2>3. x.at.src \in Src(x) /\ Was(x, x.at.src) = "file" /\ x.in = x.start.fs[x.at.src].ino
    BY <1>0, <1>3
  <2>4. Begun(x.start.data[x.in], e[x.out], x.pos)
    OBVIOUS
  <2> QED BY <2>1, <2>2, <2>3, <2>4 DEF Knows
<1>5. ASSUME NEW k \in 1..Len(x.stack) PROVE Scanned(x, g, e, x.stack[k])
  <2>1. Scanned(r, f, d, r.stack[k])
    BY <1>0, <1>5 DEF CpInv
  <2>2. r.stack[k].src \in Src(r) => r.stack[k].src # r.at.src
    BY <1>0, <2>1 DEF Scanned
  <2>3. Scanned(r, g, e, r.stack[k])
    BY <1>2, <2>1, <2>2 DEF Scanned
  <2> QED BY <1>3, <2>3
<1>6. ASSUME NEW q \in Src(r) PROVE Copied(r, g, e, q) \/ Todo(x, q)
  <2>1. \A p : Todo(r, p) => Todo(x, p)
    BY DEF Todo
  <2>2. Copied(r, f, d, q) \/ Todo(r, q)
    BY <1>0 DEF CpInv
  <2>3. CASE q = r.at.src
    <3>1. IsPrefix(r.at.src, q)
      BY <1>0, <2>3, SrcIs, PrefixProperties
    <3> QED BY <3>1 DEF Todo
  <2> QED BY <1>2, <2>1, <2>2, <2>3
<1> QED
  BY <1>1, <1>3, <1>4, <1>5, <1>6 DEF CpInv

LEMMA CpCreate ==
    ASSUME Inv, CpAll, NEW s \in Sessions, Create(s)
    PROVE  CpAll'
<1> DEFINE r == st[s]
           p == There(r.at.dst)
           Opened(i) == [r EXCEPT !.pc = "copy", !.out = i]
           n == CHOOSE j \in Inodes : j \notin InUse
<1>0. /\ Typed(r) /\ DOMAIN r = Keys /\ IoTyped(r) /\ (Copying(r) => CpInv(r, fs, data))
      /\ r.pc = "create" /\ IsTree(fs) /\ data \in Data
  BY DEF Inv, Good, Typed, CpAll, Create
<1>1. \/ /\ Kind(p) = "file"
         /\ Change(s, fs, [data EXCEPT ![fs[p].ino] = <<>>], "anything", Opened(fs[p].ino))
      \/ /\ HasRoom(p) /\ Inodes \ InUse # {}
         /\ Change(s, Extended(p, File(n)), [data EXCEPT ![n] = <<>>], "anything", Opened(n))
      \/ Go(s, Err(r))
  BY DEF Create
<1>2. \A i : LET x == Opened(i)
             IN /\ x.cmd = r.cmd /\ x.start = r.start /\ x.others = r.others /\ x.at = r.at
                /\ x.stack = r.stack /\ x.pos = r.pos /\ x.res = r.res /\ x.failed = r.failed
                /\ x.in = r.in /\ x.pc = "copy" /\ x.out = i
  BY <1>0 DEF Keys
<1> HIDE DEF Opened
<1>3. r.pos = 0 /\ r.res # "error"
  BY <1>0 DEF IoTyped
<1>4. ASSUME NEW i \in Inodes PROVE IoTyped(Opened(i)) /\ [data EXCEPT ![i] = <<>>] \in Data
  <2>1. IoTyped(Opened(i))
    BY <1>0, <1>2, <1>3 DEF IoTyped
  <2>2. <<>> \in Seq(Blocks \cup {"hole"})
    OBVIOUS
  <2> QED BY <1>0, <2>1, <2>2 DEF Data
<1>5. p \in Seq(Names)
  BY <1>0, TypedPaths, HereTyped
<1>6. ASSUME NEW i \in Inodes, NEW g, IsTree(g), Copying(Opened(i)),
             \A q \in DOMAIN fs : q \in DOMAIN g /\ g[q] = fs[q],
             \A q : q # p => KindIn(g, q) = KindIn(fs, q),
             KindIn(g, p) = "file", g[p].ino = i,
             Kind(p) = "file" => g = fs,
             Kind(p) # "file" => \A q \in DOMAIN fs : KindIn(fs, q) = "file" => fs[q].ino # i
      PROVE  CpInv(Opened(i), g, [data EXCEPT ![i] = <<>>])
  <2> DEFINE x == Opened(i)
             e == [data EXCEPT ![i] = <<>>]
  <2>1. x.in # None /\ r.in # None
    BY <1>2, <1>6 DEF Copying
  <2>2. Copying(r)
    BY <1>0, <1>2, <1>6, <2>1, CopyingBefore
  <2>3. Ready(r, fs, data)
    BY <1>0, <2>2 DEF Ready, Typed
  <2>4. /\ Placed(r) /\ Grown(r, fs, data) /\ Plain(r) /\ r.at.src \in Src(r)
        /\ r.in = r.start.fs[r.at.src].ino
    BY <1>0, <2>3 DEF Ready, CpInv, Knows, Copying
  <2>5. \A q \in Src(r) : Walk(fs, At(r, q), TRUE) = At(r, q)
    BY <1>0, <2>4, CopyWalk
  <2>6. p = r.at.dst
    BY <2>4, <2>5 DEF Placed, There
  <2>7. ASSUME NEW q \in DOMAIN fs, KindIn(fs, q) = "file", fs[q].ino = i PROVE q = p
    <3>1. Kind(p) = "file" /\ g = fs
      BY <1>6, <2>7
    <3>2. p \in DOMAIN fs
      BY <3>1 DEF Kind, KindIn
    <3> QED BY <1>6, <2>4, <2>7, <3>1, <3>2 DEF Grown, Kind
  <2>8. e[i] = <<>> /\ \A j \in Inodes : j # i => e[j] = data[j]
    BY <1>0 DEF Data
  <2> HIDE DEF e
  <2>9. Wrote(r, fs, data, g, e, i)
    BY <1>6, <2>6, <2>7, <2>8 DEF Wrote
  <2>10. Begun(r.start.data[r.in], e[i], x.pos)
    <3>1. r.start.data \in Data /\ r.in \in Inodes
      BY <1>0, <2>1 DEF IoTyped
    <3>2. r.start.data[r.in] \in Seq(Blocks \cup {"hole"})
      BY <3>1 DEF Data
    <3>3. 0 <= Len(r.start.data[r.in]) /\ Len(<<>>) = 0 /\ \A m \in 1..0 : FALSE
      <4>1. \A b \in Seq(Blocks \cup {"hole"}) : 0 <= Len(b)
        OBVIOUS
      <4>2. Len(<<>>) = 0 /\ \A m \in 1..0 : FALSE
        OBVIOUS
      <4> QED BY <3>2, <4>1, <4>2
    <3>4. x.pos = 0
      BY <1>2, <1>3
    <3> QED BY <2>8, <3>3, <3>4 DEF Begun
  <2>11. /\ x.cmd = r.cmd /\ x.start = r.start /\ x.at = r.at
         /\ x.stack = r.stack /\ x.in = r.in /\ x.pc = "copy" /\ x.out = i
    BY <1>2
  <2> HIDE DEF x
  <2>12. CpInv(x, g, e)
    BY <1>0, <1>6, <2>3, <2>9, <2>10, <2>11, CpWrites
  <2> QED BY <2>12 DEF x, e
<1>7. CASE /\ Kind(p) = "file"
           /\ Change(s, fs, [data EXCEPT ![fs[p].ino] = <<>>], "anything", Opened(fs[p].ino))
  <2> DEFINE i == fs[p].ino
  <2>1. i \in Inodes
    BY <1>0, <1>7, FileNode DEF Kind
  <2>2. Change(s, fs, [data EXCEPT ![i] = <<>>], "anything", Opened(i)) /\ KindIn(fs, p) = "file"
    BY <1>7 DEF Kind
  <2>3. Copying(Opened(i)) => CpInv(Opened(i), fs, [data EXCEPT ![i] = <<>>])
    BY <1>0, <1>6, <1>7, <2>1, <2>2
  <2> HIDE DEF i
  <2> QED BY <1>0, <1>4, <2>1, <2>2, <2>3, CpChange
<1>8. CASE /\ HasRoom(p) /\ Inodes \ InUse # {}
           /\ Change(s, Extended(p, File(n)), [data EXCEPT ![n] = <<>>], "anything", Opened(n))
  <2> DEFINE g == Extended(p, File(n))
  <2>1. \E j \in Inodes : j \notin InUse
    BY <1>8
  <2>2. n \in Inodes /\ n \notin InUse
    BY <2>1
  <2> HIDE DEF n
  <2>3. File(n) \in Node /\ File(n).kind = "file" /\ File(n).ino = n
    BY <2>2 DEF Node, File
  <2>4. /\ IsTree(g) /\ KindIn(g, p) = "file"
        /\ \A q \in DOMAIN fs : q \in DOMAIN g /\ g[q] = fs[q]
        /\ \A q : q # p => KindIn(g, q) = KindIn(fs, q)
    BY <1>0, <1>5, <1>8, <2>3, TreeExtended
  <2>5. g[p].ino = n
    BY <2>3 DEF Extended
  <2>6. \A q \in DOMAIN fs : KindIn(fs, q) = "file" => fs[q].ino # n
    BY <2>2 DEF InUse, KindIn
  <2>7. Kind(p) # "file"
    BY <1>8 DEF HasRoom
  <2> HIDE DEF g
  <2>8. Copying(Opened(n)) => CpInv(Opened(n), g, [data EXCEPT ![n] = <<>>])
    BY <1>6, <2>2, <2>4, <2>5, <2>6, <2>7
  <2>9. Change(s, g, [data EXCEPT ![n] = <<>>], "anything", Opened(n))
    BY <1>8 DEF g
  <2> QED BY <1>4, <2>2, <2>4, <2>8, <2>9, CpChange
<1>9. CASE Go(s, Err(r))
  BY <1>0, <1>9, ErrIo, CpGo
<1> QED
  BY <1>1, <1>7, <1>8, <1>9

\* What is left of a file when its block pos has been written.
Appends(S, b, pos, v) ==
    /\ Written(b, pos, v) \in Seq(S)
    /\ Len(b) = pos => /\ Len(Written(b, pos, v)) = pos + 1
                       /\ Written(b, pos, v)[pos + 1] = v
                       /\ \A m \in 1..pos : Written(b, pos, v)[m] = b[m]

LEMMA WrittenIs ==
    ASSUME NEW S, "hole" \in S, NEW b \in Seq(S), NEW pos \in Nat, NEW v \in S
    PROVE  Appends(S, b, pos, v)
<1> DEFINE n == IF Len(b) <= pos THEN pos + 1 ELSE Len(b)
           w == [m \in 1..n |-> IF m = pos + 1 THEN v ELSE IF m <= Len(b) THEN b[m] ELSE "hole"]
<1>0. Len(b) \in Nat /\ n \in Nat
  OBVIOUS
<1>1. Written(b, pos, v) = w
  BY DEF Written
<1>2. ASSUME NEW m \in 1..n PROVE w[m] \in S
  <2>1. m <= Len(b) => m \in 1..Len(b)
    BY <1>0
  <2>2. m <= Len(b) => b[m] \in S
    BY <2>1, ElementOfSeq
  <2> QED BY <2>2
<1>3. w \in [1..n -> S]
  BY <1>2
<1>4. w \in Seq(S) /\ Len(w) = n
  BY <1>0, <1>3, SeqDef, LenProperties
<1>5. Len(b) = pos => /\ n = pos + 1 /\ w[pos + 1] = v /\ \A m \in 1..pos : w[m] = b[m]
  BY <1>0
<1> HIDE DEF w, n
<1> QED
  BY <1>1, <1>4, <1>5 DEF Appends

LEMMA CpCopyBlock ==
    ASSUME Inv, CpAll, NEW s \in Sessions, CopyBlock(s)
    PROVE  CpAll'
<1> DEFINE r == st[s]
           B == Blocks \cup {"hole"}
           v == data[r.in][r.pos + 1]
           w == Written(data[r.out], r.pos, v)
           e == [data EXCEPT ![r.out] = w]
           x == [r EXCEPT !.pos = @ + 1]
<1>0. /\ Typed(r) /\ DOMAIN r = Keys /\ IoTyped(r) /\ (Copying(r) => CpInv(r, fs, data))
      /\ r.pc = "copy" /\ IsTree(fs) /\ data \in Data /\ r.in # None /\ r.pos < Len(data[r.in])
  BY DEF Inv, Good, Typed, CpAll, CopyBlock
<1>1. Change(s, fs, e, "anything", x)
  BY <1>0 DEF CopyBlock, Data, IoTyped
<1>2. r.in \in Inodes /\ r.out \in Inodes /\ r.pos \in Nat /\ r.res # "error"
      /\ r.start.data \in Data
  BY <1>0 DEF IoTyped
<1>3. data[r.in] \in Seq(B) /\ data[r.out] \in Seq(B)
  BY <1>0, <1>2 DEF Data
<1>4. v \in B
  <2>1. Len(data[r.in]) \in Nat
    BY <1>3
  <2>2. r.pos + 1 \in 1..Len(data[r.in])
    BY <1>0, <1>2, <2>1
  <2> QED BY <1>3, <2>2, ElementOfSeq
<1>5. /\ w \in Seq(B)
      /\ Len(data[r.out]) = r.pos => /\ Len(w) = r.pos + 1 /\ w[r.pos + 1] = v
                                     /\ \A m \in 1..r.pos : w[m] = data[r.out][m]
  <2>1. "hole" \in B
    OBVIOUS
  <2> DEFINE b == data[r.out]
             k == r.pos
  <2>2. b \in Seq(B) /\ k \in Nat /\ v \in B
    BY <1>2, <1>3, <1>4
  <2> HIDE DEF B, v, b, k
  <2>3. Appends(B, b, k, v)
    BY <2>1, <2>2, WrittenIs
  <2> QED BY <2>3 DEF b, k, Appends
<1> HIDE DEF w
<1>6. e \in Data /\ e[r.out] = w /\ \A j \in Inodes : j # r.out => e[j] = data[j]
  BY <1>0, <1>2, <1>5 DEF Data
<1> HIDE DEF e
<1>7. /\ x.cmd = r.cmd /\ x.start = r.start /\ x.others = r.others /\ x.at = r.at
      /\ x.stack = r.stack /\ x.pos = r.pos + 1 /\ x.res = r.res /\ x.failed = r.failed
      /\ x.in = r.in /\ x.pc = "copy" /\ x.out = r.out
  BY <1>0 DEF Keys
<1> HIDE DEF x
<1>8. IoTyped(x)
  <2>1. x.pos \in Nat
    BY <1>2, <1>7
  <2> QED BY <1>2, <1>7, <2>1 DEF IoTyped
<1>9. ASSUME Copying(x) PROVE CpInv(x, fs, e)
  <2>1. Copying(r)
    BY <1>0, <1>7, <1>9, CopyingBefore
  <2>2. Ready(r, fs, data)
    BY <1>0, <2>1 DEF Ready, Typed
  <2>3. /\ Grown(r, fs, data) /\ r.at.src \in Src(r) /\ Was(r, r.at.src) = "file"
        /\ r.in = r.start.fs[r.at.src].ino
        /\ KindIn(fs, r.at.dst) = "file" /\ fs[r.at.dst].ino = r.out
        /\ Begun(r.start.data[r.in], data[r.out], r.pos)
    BY <1>0, <2>2 DEF Ready, CpInv, Knows
  <2>4. data[r.in] = r.start.data[r.in]
    <3> DEFINE j == r.start.fs[r.at.src].ino
    <3>1. data[j] = r.start.data[j]
      BY <2>3 DEF Grown
    <3>2. r.in = j
      BY <2>3
    <3> HIDE DEF j
    <3> QED BY <3>1, <3>2
  <2>5. Wrote(r, fs, data, fs, e, r.out)
    <3>1. r.at.dst \in DOMAIN fs
      BY <2>3 DEF KindIn
    <3>2. \A q \in DOMAIN fs : KindIn(fs, q) = "file" /\ fs[q].ino = r.out => q = r.at.dst
      BY <2>3, <3>1 DEF Grown
    <3> QED BY <1>6, <2>3, <3>2 DEF Wrote
  <2>6. Begun(r.start.data[r.in], e[r.out], x.pos)
    <3> DEFINE b == r.start.data[r.in]
    <3>1. b \in Seq(B) /\ Len(b) \in Nat /\ r.pos < Len(b) /\ v = b[r.pos + 1]
      BY <1>0, <1>3, <2>4
    <3>2. Len(data[r.out]) = r.pos /\ \A m \in 1..r.pos : data[r.out][m] = b[m]
      BY <2>3 DEF Begun
    <3>3. Len(w) = r.pos + 1 /\ w[r.pos + 1] = b[r.pos + 1] /\ \A m \in 1..r.pos : w[m] = b[m]
      BY <1>5, <3>1, <3>2
    <3> HIDE DEF b
    <3>4. r.pos + 1 <= Len(b)
      BY <1>2, <3>1
    <3>5. \A m \in 1..(r.pos + 1) : m \in 1..r.pos \/ m = r.pos + 1
      BY <1>2
    <3>6. \A m \in 1..(r.pos + 1) : w[m] = b[m]
      BY <3>3, <3>5
    <3>7. Begun(b, w, r.pos + 1)
      BY <3>3, <3>4, <3>6 DEF Begun
    <3> QED BY <1>6, <1>7, <3>7 DEF b
  <2> QED BY <1>0, <1>7, <2>2, <2>5, <2>6, CpWrites
<1> QED
  BY <1>0, <1>1, <1>6, <1>8, <1>9, CpChange

LEMMA CpCopyEnds ==
    ASSUME Inv, CpAll, NEW s \in Sessions, CopyEnds(s)
    PROVE  CpAll'
<1> DEFINE r == st[s]
           x == Ok(r)
<1>0. /\ Typed(r) /\ DOMAIN r = Keys /\ IoTyped(r) /\ (Copying(r) => CpInv(r, fs, data))
      /\ r.pc = "copy" /\ IsTree(fs) /\ data \in Data
  BY DEF Inv, Good, Typed, CpAll, CopyEnds
<1>1. Go(s, Err(r)) \/ (r.in # None /\ Len(data[r.in]) <= r.pos /\ Go(s, x))
  BY DEF CopyEnds
<1>2. IoTyped(Err(r)) /\ ~Copying(Err(r)) /\ IoTyped(x)
  BY <1>0, ErrIo, OkIo
<1>3. /\ x.cmd = r.cmd /\ x.start = r.start /\ x.others = r.others /\ x.failed = r.failed
      /\ x.stack = r.stack /\ x.pc = (IF r.stack = <<>> THEN "done" ELSE "scan")
  BY <1>0, OkIs
<1> HIDE DEF x
<1>4. ASSUME r.in # None, Len(data[r.in]) <= r.pos, Copying(x) PROVE CpInv(x, fs, data)
  <2>1. Copying(r)
    BY <1>0, <1>3, <1>4, CopyingBefore
  <2>2. CpInv(r, fs, data)
    BY <1>0, <2>1
  <2>3. /\ Grown(r, fs, data) /\ r.at.src \in Src(r) /\ Was(r, r.at.src) = "file"
        /\ r.in = r.start.fs[r.at.src].ino /\ Placed(r)
        /\ KindIn(fs, r.at.dst) = "file" /\ fs[r.at.dst].ino = r.out
        /\ Begun(r.start.data[r.in], data[r.out], r.pos)
    BY <1>0, <2>2 DEF CpInv, Knows
  <2>4. data[r.in] = r.start.data[r.in]
    <3> DEFINE j == r.start.fs[r.at.src].ino
    <3>1. data[j] = r.start.data[j]
      BY <2>3 DEF Grown
    <3>2. r.in = j
      BY <2>3
    <3> HIDE DEF j
    <3> QED BY <3>1, <3>2
  <2>5. data[r.out] = data[r.in]
    <3>1. r.in \in Inodes /\ r.out \in Inodes /\ r.pos \in Nat
      BY <1>0, <1>4 DEF IoTyped
    <3>2. data[r.in] \in Seq(Blocks \cup {"hole"}) /\ data[r.out] \in Seq(Blocks \cup {"hole"})
      BY <1>0, <3>1 DEF Data
    <3>3. /\ r.pos <= Len(data[r.in]) /\ Len(data[r.out]) = r.pos
          /\ \A m \in 1..r.pos : data[r.out][m] = data[r.in][m]
      BY <2>3, <2>4 DEF Begun
    <3>4. Len(data[r.in]) = r.pos
      <4>1. Len(data[r.in]) \in Nat
        BY <3>2
      <4> QED BY <1>4, <3>1, <3>3, <4>1
    <3> QED BY <3>2, <3>3, <3>4, SeqEqual
  <2>6. Copied(r, fs, data, r.at.src)
    <3>1. r.at.dst = At(r, r.at.src)
      BY <2>3 DEF Placed
    <3> QED BY <2>3, <2>4, <2>5, <3>1 DEF Copied
  <2>7. /\ Src(x) = Src(r) /\ (\A q : Copied(x, fs, data, q) <=> Copied(r, fs, data, q))
        /\ (Grown(x, fs, data) <=> Grown(r, fs, data))
        /\ (\A fr : Scanned(x, fs, data, fr) <=> Scanned(r, fs, data, fr))
    BY <1>3, SameCopy
  <2>8. Knows(x, fs, data)
    BY <1>3 DEF Knows
  <2>9. ASSUME NEW q \in Src(r) PROVE Copied(r, fs, data, q) \/ Todo(x, q)
    <3>1. Copied(r, fs, data, q) \/ Todo(r, q)
      BY <2>2 DEF CpInv
    <3>2. CASE IsPrefix(r.at.src, q)
      <4>1. r.at.src \in Seq(Names) /\ IsPrefix(r.cmd.src, r.at.src)
        BY <1>0, <2>3, SrcIs
      <4>2. r.at.src = q
        BY <1>0, <2>3, <3>2, <4>1, WayWasThere
      <4> QED BY <2>6, <4>2
    <3>3. CASE ~IsPrefix(r.at.src, q)
      BY <1>3, <3>1, <3>3 DEF Todo
    <3> QED BY <3>2, <3>3
  <2> QED BY <1>3, <2>2, <2>7, <2>8, <2>9 DEF CpInv
<1> QED
  BY <1>1, <1>2, <1>4, CpGo

LEMMA CpBegin ==
    ASSUME Inv, CpAll, NEW s \in Sessions, NEW c \in Commands, Begin(s, c)
    PROVE  CpAll'
<1> DEFINE x == [Idle EXCEPT !.cmd = c, !.at = c, !.start = [fs |-> fs, data |-> data],
                   !.pc = CASE c.op \in {"rm -r", "cp -r"} -> "visit"
                            [] c.op = "cp" -> "open"
                            [] c.op = "mkdir -p" -> "stat"
                            [] OTHER -> "call",
                   !.k = IF c.op = "mkdir -p" THEN 1 ELSE 0]
<1>0. IsTree(fs) /\ data \in Data
  BY DEF Inv, CpAll
<1>1. fs' = fs /\ data' = data /\ st' = [st EXCEPT ![s] = x]
  BY DEF Begin
<1>2. /\ x.cmd = c /\ x.at = c /\ x.start = [fs |-> fs, data |-> data]
      /\ x.stack = <<>> /\ x.res = "none" /\ x.in = None /\ x.pos = 0
  BY DEF Idle
<1>3. x.start.fs = fs /\ x.start.data = data
  <2> HIDE DEF x
  <2> QED BY <1>2
<1>4. /\ x.pc \in {"visit", "open", "stat", "call"}
      /\ c.op \in {"cp", "cp -r"} => x.pc \in {"visit", "open"}
  <2>1. x.pc = (CASE c.op \in {"rm -r", "cp -r"} -> "visit" [] c.op = "cp" -> "open"
                  [] c.op = "mkdir -p" -> "stat" [] OTHER -> "call")
    BY DEF Idle
  <2> HIDE DEF x
  <2>2. CASE c.op \in {"rm -r", "cp -r"}
    BY <2>1, <2>2
  <2>3. CASE c.op = "cp"
    BY <2>1, <2>3
  <2>4. CASE c.op = "mkdir -p"
    BY <2>1, <2>4
  <2>5. CASE c.op \notin {"rm -r", "cp -r", "cp", "mkdir -p"}
    <3>1. x.pc = "call"
      BY <2>1, <2>5
    <3> QED BY <2>5, <3>1
  <2> QED BY <2>2, <2>3, <2>4, <2>5
<1> HIDE DEF x
<1>5. IoTyped(x)
  <2>1. 0 \in Nat
    OBVIOUS
  <2> QED BY <1>0, <1>2, <1>3, <1>4, <2>1 DEF IoTyped
<1>6. st'[s] = x /\ DOMAIN st' = Sessions /\ \A y \in Sessions : y # s => st'[y] = st[y]
  BY <1>1 DEF Inv
<1>7. Typed(x)
  BY <1>6, BeginKeeps DEF Inv, Good
<1>8. ASSUME Copying(x) PROVE CpInv(x, fs, data)
  <2>0. x.pc \in {"visit", "open"} /\ x.pc # "idle"
    BY <1>2, <1>4, <1>8 DEF Copying
  <2>1. c.src \in Seq(Names) /\ c.dst \in Seq(Names) /\ IsPrefix(c.src, c.src)
    BY <1>2, <1>7, TypedPaths, PrefixProperties
  <2>2. Placed(x)
    <3>1. At(x, c.src) = c.dst
      BY <1>2, <1>7, <2>1, AtIs
    <3> QED BY <1>2, <2>1, <3>1 DEF Placed
  <2>3. Knows(x, fs, data)
    BY <2>0, <2>2 DEF Knows
  <2>4. \A i \in 1..Len(x.stack) : FALSE
    <3>1. Len(x.stack) = 0 /\ 1..0 = {}
      BY <1>2
    <3> QED BY <3>1
  <2>5. \A q \in Src(x) : Todo(x, q)
    <3>1. \A q \in Src(x) : IsPrefix(x.at.src, q)
      BY <1>2 DEF Src, Below
    <3> QED BY <2>0, <3>1 DEF Todo
  <2>6. Grown(x, fs, data)
    <3>1. ASSUME NEW p \in DOMAIN fs, NEW q \in DOMAIN fs, KindIn(fs, p) = "file",
                 KindIn(fs, q) = "file", fs[p].ino = fs[q].ino
          PROVE  p = q
      <4>1. fs[p] = File(fs[p].ino) /\ fs[q] = File(fs[q].ino)
        BY <1>0, <3>1, FileNode
      <4>2. fs[p] = fs[q]
        BY <3>1, <4>1
      <4>3. Was(x, p) = "file" /\ Single(x)
        BY <1>3, <1>8, <3>1 DEF Was, Copying
      <4> QED BY <1>3, <3>1, <4>2, <4>3 DEF Single
    <3> QED BY <1>3, <3>1 DEF Grown
  <2> QED BY <2>3, <2>4, <2>5, <2>6 DEF CpInv
<1>9. ASSUME NEW y \in Sessions
      PROVE  IoTyped(st'[y]) /\ (Copying(st'[y]) => CpInv(st'[y], fs', data'))
  <2>1. CASE y = s
    BY <1>1, <1>5, <1>6, <1>8, <2>1
  <2>2. CASE y # s
    <3>1. st'[y] = st[y]
      BY <1>6, <2>2
    <3> QED BY <1>1, <3>1 DEF CpAll
  <2> QED BY <2>1, <2>2
<1>10. data' \in Data
  BY <1>0, <1>1
<1> QED
  BY <1>9, <1>10 DEF CpAll

LEMMA CpInit ==
    ASSUME Init
    PROVE  CpAll
<1>1. data \in Data
  BY DisksAssumption DEF Init
<1>2. IoTyped(Idle)
  BY DEF IoTyped, Idle
<1>3. ~Copying(Idle)
  BY IdleTyped DEF Copying
<1> QED
  BY <1>1, <1>2, <1>3 DEF Init, CpAll

LEMMA CpNext ==
    ASSUME Inv, CpAll, [Next]_vars
    PROVE  CpAll'
<1>1. CASE Next
  <2>1. PICK s \in Sessions : Step(s) \/ \E c \in Commands : Begin(s, c)
    BY <1>1 DEF Next
  <2>2. CASE \E c \in Commands : Begin(s, c)
    BY <2>2, CpBegin
  <2>3. CASE End(s) \/ Call(s) \/ CallFails(s)
    BY <2>3, CpEnd, CpCall, CpFails
  <2>4. CASE Stat(s) \/ StatFails(s) \/ Make(s) \/ MakeFails(s)
    BY <2>4, CpMkdirP
  <2>5. CASE VisitRm(s) \/ VisitCp(s) \/ MakeDst(s) \/ OpenDir(s)
    BY <2>5, CpVisitRm, CpVisitCp, CpMakeDst, CpOpenDir
  <2>6. CASE (\E x \in Names : ReadDir(s, x)) \/ CloseDir(s) \/ RemoveNode(s)
    BY <2>6, CpReadDir, CpCloseDir, CpRemoveNode
  <2>7. CASE OpenIn(s) \/ Create(s) \/ CopyBlock(s) \/ CopyEnds(s)
    BY <2>7, CpOpenIn, CpCreate, CpCopyBlock, CpCopyEnds
  <2> QED BY <2>1, <2>2, <2>3, <2>4, <2>5, <2>6, <2>7 DEF Step
<1>2. CASE UNCHANGED vars
  <2>1. fs' = fs /\ data' = data /\ st' = st
    BY <1>2 DEF vars
  <2>2. data' \in Data
        /\ \A s \in Sessions : IoTyped(st'[s]) /\ (Copying(st'[s]) => CpInv(st'[s], fs', data'))
    BY <2>1 DEF CpAll
  <2> QED BY <2>2 DEF CpAll
<1> QED
  BY <1>1, <1>2

LEMMA CpAlways == Spec => []CpAll
<1>1. Init => CpAll
  BY CpInit
<1>2. Inv /\ CpAll /\ [Next]_vars => CpAll'
  BY CpNext
<1> QED
  BY <1>1, <1>2, InvAlways, PTL DEF Spec

LEMMA NoIndex == \A i \in 1..0 : FALSE
OBVIOUS

\* When cp or cp -r reports no error, every file of the source has been copied
\* block by block, every directory made if all can be, and the source is as it
\* was, whatever directories others make meanwhile (copy_file(), recurse_cp()).
THEOREM CopiesTheTree == Spec => []CopiesAsFound
<1>1. Inv /\ CpAll => CopiesAsFound
  <2> SUFFICES ASSUME Inv, CpAll, NEW s \in Sessions, st[s].cmd.op \in {"cp", "cp -r"},
                      st[s].pc = "done", st[s].res = "ok", ~st[s].failed,
                      Calm(st[s]), Apart(st[s]), Plain(st[s]), Single(st[s]), NEW p \in Src(st[s])
               PROVE  /\ p \in DOMAIN fs /\ fs[p] = st[s].start.fs[p]
                      /\ Was(st[s], p) = "file" =>
                           /\ data[fs[p].ino] = st[s].start.data[fs[p].ino]
                           /\ Kind(At(st[s], p)) = "file"
                           /\ data[fs[At(st[s], p)].ino] = data[fs[p].ino]
                      /\ Was(st[s], p) = "dir" /\ Fits(st[s]) => Kind(At(st[s], p)) = "dir"
    BY DEF CopiesAsFound
  <2> DEFINE r == st[s]
  <2>1. Copying(r)
    BY DEF Copying
  <2>2. CpInv(r, fs, data)
    BY <2>1 DEF CpAll
  <2>3. r.stack = <<>>
    BY <2>2 DEF CpInv, Knows
  <2>4. ~Todo(r, p)
    <3>1. Len(<<>>) = 0
      OBVIOUS
    <3>2. \A i \in 1..0 : FALSE
      BY NoIndex
    <3>3. r.pc = "done"
      OBVIOUS
    <3> HIDE DEF r
    <3>4. Len(r.stack) = 0
      BY <2>3, <3>1, Zenon
    <3>5. \A i \in 1..Len(r.stack) : FALSE
      BY <3>2, <3>4, Zenon
    <3> QED BY <3>3, <3>5, Zenon DEF Todo
  <2>5. Copied(r, fs, data, p) /\ Grown(r, fs, data)
    BY <2>2, <2>4 DEF CpInv
  <2>6. p \in DOMAIN fs /\ fs[p] = r.start.fs[p]
    BY <2>5 DEF Grown, Src, Below
  <2>7. Was(r, p) = "file" => data[r.start.fs[p].ino] = r.start.data[r.start.fs[p].ino]
    BY <2>5 DEF Grown
  <2> HIDE DEF r
  <2>8. Was(r, p) = "file" => /\ Kind(At(r, p)) = "file"
                              /\ data[fs[At(r, p)].ino] = r.start.data[r.start.fs[p].ino]
    BY <2>5 DEF Copied, Kind
  <2>9. Was(r, p) = "dir" /\ Fits(r) => Kind(At(r, p)) = "dir"
    BY <2>5 DEF Copied, Kind
  <2>10. Was(r, p) = "file" => data[fs[At(r, p)].ino] = data[fs[p].ino]
                               /\ data[fs[p].ino] = r.start.data[fs[p].ino]
    BY <2>6, <2>7, <2>8
  <2> QED BY <2>6, <2>8, <2>9, <2>10 DEF r
<1> QED
  BY <1>1, InvAlways, CpAlways, PTL
=============================================================================
