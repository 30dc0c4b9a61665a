--------------------------- MODULE ElfMemoryProofs ---------------------------
(***************************************************************************)
(* Theorems about ElfMemory, for any page size, word size, environment and *)
(* program headers.                                                        *)
(***************************************************************************)
EXTENDS ElfMemory, Integers, SequenceTheorems, TLAPS

-----------------------------------------------------------------------------
(* Arithmetic: remainders, and the macros TRUNC_PG and ROUND_PG. *)

LEMMA DivMod ==
    ASSUME NEW x \in Nat, NEW w \in Nat \ {0}
    PROVE  /\ x \div w \in Nat /\ x % w \in 0..(w - 1)
           /\ x = w * (x \div w) + (x % w)
<1>1. x % w \in 0..(w - 1)
  BY SMT
<1>2. x = w * (x \div w) + (x % w)
  BY SMT
<1> DEFINE q == x \div w
           r == x % w
<1>3. q \in Int /\ r \in 0..(w - 1) /\ x = w * q + r
  BY <1>1, <1>2, SMT
<1> HIDE DEF q, r
<1>4. ~(q <= -1)
  <2> SUFFICES ASSUME q <= -1 PROVE FALSE
    OBVIOUS
  <2>1. w * q <= w * (-1)
    BY <1>3
  <2> QED BY <1>3, <2>1
<1>5. q \in Nat
  BY <1>3, <1>4
<1> QED
  BY <1>1, <1>2, <1>5 DEF q

LEMMA UniqueMod ==
    ASSUME NEW w \in Nat \ {0}, NEW q \in Nat, NEW r \in 0..(w - 1)
    PROVE  (w * q + r) % w = r /\ (w * q + r) \div w = q
BY SMT

LEMMA SmallMod ==
    ASSUME NEW w \in Nat \ {0}, NEW r \in 0..(w - 1)
    PROVE  r % w = r
BY SMT

LEMMA MultipleMod ==
    ASSUME NEW w \in Nat \ {0}, NEW q \in Nat
    PROVE  w * q \in Nat /\ (w * q) % w = 0
BY SMT

LEMMA MultipleIs ==
    ASSUME NEW w \in Nat \ {0}, NEW x \in Nat, x % w = 0
    PROVE  \E q \in Nat : x = w * q
<1> DEFINE q == x \div w
<1>1. q \in Nat /\ x = w * q + 0
  BY DivMod
<1> HIDE DEF q
<1>2. x = w * q
  BY <1>1
<1> QED
  BY <1>1, <1>2

\* A product is not larger than another with the same factor.
LEMMA Cancel ==
    ASSUME NEW w \in Nat \ {0}, NEW a \in Int, NEW b \in Int, NEW r \in Int, r < w,
           w * a <= w * b + r
    PROVE  a <= b
BY SMT

LEMMA TruncIs ==
    ASSUME NEW x \in Nat
    PROVE  /\ Trunc(x) \in Nat /\ Trunc(x) <= x /\ x < Trunc(x) + PageSize
           /\ Trunc(x) % PageSize = 0
<1> DEFINE q == x \div PageSize
           r == x % PageSize
<1>0. PageSize \in Nat \ {0}
  BY ConstantsAssumption
<1>1. q \in Nat /\ r \in 0..(PageSize - 1) /\ x = PageSize * q + r
  BY <1>0, DivMod
<1>2. Trunc(x) = x - r
  BY DEF Trunc
<1> HIDE DEF q, r
<1>3. Trunc(x) = PageSize * q /\ PageSize * q \in Nat
  BY <1>0, <1>1, <1>2
<1>4. Trunc(x) % PageSize = 0
  BY <1>0, <1>1, <1>3, MultipleMod
<1> QED
  BY <1>0, <1>1, <1>2, <1>3, <1>4

LEMMA RoundIs ==
    ASSUME NEW x \in Nat, x + PageSize <= Word
    PROVE  /\ Round(x) \in Nat /\ x <= Round(x) /\ Round(x) < x + PageSize
           /\ Round(x) % PageSize = 0
<1> DEFINE y == x + PageSize - 1
<1>0. PageSize \in Nat \ {0} /\ Word \in Nat \ {0}
  BY ConstantsAssumption
<1>1. y \in Nat /\ y \in 0..(Word - 1)
  BY <1>0
<1>2. Round(x) = Trunc(y)
  BY <1>0, <1>1, SmallMod DEF Round
<1>3. y = x + PageSize - 1
  OBVIOUS
<1> HIDE DEF y
<1>4. /\ Trunc(y) \in Nat /\ Trunc(y) <= y /\ y < Trunc(y) + PageSize
      /\ Trunc(y) % PageSize = 0
  BY <1>1, TruncIs
<1>5. x <= Trunc(y) /\ Trunc(y) < x + PageSize
  BY <1>0, <1>3, <1>4
<1> QED
  BY <1>2, <1>4, <1>5

LEMMA PageMonotone ==
    ASSUME NEW x \in Nat, NEW y \in Nat, x <= y
    PROVE  Page(x) \in Nat /\ Page(y) \in Nat /\ Page(x) <= Page(y)
<1>0. PageSize \in Nat \ {0}
  BY ConstantsAssumption
<1> DEFINE a == x \div PageSize
           b == y \div PageSize
           r == x % PageSize
           s == y % PageSize
<1>1. /\ a \in Nat /\ r \in 0..(PageSize - 1) /\ x = PageSize * a + r
      /\ b \in Nat /\ s \in 0..(PageSize - 1) /\ y = PageSize * b + s
  BY <1>0, DivMod
<1>2. Page(x) = a /\ Page(y) = b
  BY DEF Page
<1> HIDE DEF a, b, r, s
<1>3. PageSize * a <= PageSize * b + s /\ s < PageSize
  BY <1>0, <1>1
<1>4. a <= b
  BY <1>0, <1>1, <1>3, Cancel
<1> QED
  BY <1>1, <1>2, <1>4

\* max - min in a word, as elfldr_load() has it.
LEMMA Difference ==
    ASSUME NEW a \in 0..(Word - 1), NEW b \in 0..(Word - 1),
           a % PageSize = 0, b % PageSize = 0
    PROVE  LET d == (a + Word - b) % Word
           IN /\ d \in 0..(Word - 1) /\ d % PageSize = 0
              /\ b = 0 => d = a
<1>0. PageSize \in Nat \ {0} /\ Word \in Nat \ {0} /\ Word % PageSize = 0
  BY ConstantsAssumption
<1>n. a \in Nat /\ b \in Nat
  BY <1>0
<1>1. PICK p \in Nat : a = PageSize * p
  BY <1>0, <1>n, MultipleIs
<1>2. PICK q \in Nat : b = PageSize * q
  BY <1>0, MultipleIs
<1>3. PICK w \in Nat : Word = PageSize * w
  BY <1>0, MultipleIs
<1>4. CASE b <= a
  <2>1. (a + Word - b) % Word = a - b
    <3>1. a - b \in 0..(Word - 1) /\ a + Word - b = Word * 1 + (a - b)
      BY <1>0, <1>4
    <3>2. (Word * 1 + (a - b)) % Word = a - b
      BY <1>0, <3>1, UniqueMod
    <3> QED BY <3>1, <3>2
  <2>2. a - b = PageSize * (p - q) /\ p - q \in Nat
    <3>1. PageSize * q <= PageSize * p + 0
      BY <1>1, <1>2, <1>4
    <3>2. q <= p
      BY <1>0, <3>1, Cancel
    <3> QED BY <1>0, <1>1, <1>2, <3>2
  <2>3. (a - b) % PageSize = 0
    BY <1>0, <2>2, MultipleMod
  <2>4. a - b \in 0..(Word - 1)
    BY <1>0, <1>4
  <2>5. b = 0 => a - b = a
    BY <1>n
  <2> QED BY <2>1, <2>3, <2>4, <2>5
<1>5. CASE ~(b <= a)
  <2> DEFINE d == a + Word - b
  <2>1. d \in 0..(Word - 1)
    BY <1>0, <1>5
  <2>2. d % Word = d
    BY <1>0, <2>1, SmallMod
  <2>3. d = PageSize * (p + w - q) /\ p + w - q \in Nat
    <3>1. PageSize * q <= PageSize * w + 0
      BY <1>0, <1>2, <1>3
    <3>2. q <= w
      BY <1>0, <3>1, Cancel
    <3> QED BY <1>0, <1>1, <1>2, <1>3, <3>2
  <2>4. d % PageSize = 0
    <3> HIDE DEF d
    <3> QED BY <1>0, <2>3, MultipleMod
  <2> QED BY <1>5, <2>1, <2>2, <2>4
<1> QED
  BY <1>4, <1>5

-----------------------------------------------------------------------------
(* Sequences of bounded length. *)

LEMMA SameInterval ==
    ASSUME NEW a \in Nat, NEW b \in Nat, 1..a = 1..b
    PROVE  a = b
<1>1. ASSUME a < b PROVE FALSE
  <2>1. b \in 1..b /\ b \notin 1..a
    BY <1>1
  <2> QED BY <2>1
<1>2. ASSUME b < a PROVE FALSE
  <2>1. a \in 1..a /\ a \notin 1..b
    BY <1>2
  <2> QED BY <2>1
<1> QED
  BY <1>1, <1>2

LEMMA BoundedSeq ==
    ASSUME NEW S, NEW b \in Nat, NEW e \in UNION {[1..m -> S] : m \in 0..b}
    PROVE  e \in Seq(S) /\ Len(e) \in 0..b
<1>1. PICK m \in 0..b : e \in [1..m -> S]
  OBVIOUS
<1>2. m \in Nat
  BY <1>1
<1>3. e \in Seq(S)
  BY <1>1, <1>2, SeqDef
<1>4. Len(e) \in Nat /\ DOMAIN e = 1..Len(e) /\ DOMAIN e = 1..m
  BY <1>1, <1>3, LenProperties
<1>5. Len(e) = m
  BY <1>2, <1>4, SameInterval
<1> QED
  BY <1>1, <1>3, <1>5

LEMMA EmptyBounded ==
    ASSUME NEW S, NEW b \in Nat
    PROVE  <<>> \in UNION {[1..m -> S] : m \in 0..b} /\ Len(<<>>) = 0
<1>1. <<>> \in [1..0 -> S]
  OBVIOUS
<1>2. 0 \in 0..b
  OBVIOUS
<1> QED
  BY <1>1, <1>2

-----------------------------------------------------------------------------
(* The mappings. *)

Early == {"start", "count", "strings", "loaded env", "bounds"}

StageInv ==
    /\ pc \in Early \cup {"mirror", "segments", "protect", "sync", "done", "failed"}
    /\ eblock \in {"none", "mapped", "used", "unmapped"}
    /\ mirror \in {"none", "mapped", "unmapped"}
    /\ region \in {"none", "mapped", "unmapped"}
    /\ error \in BOOLEAN
    /\ pc \in {"start", "count"} => eblock = "none"
    /\ pc \notin {"start", "count", "strings"} => eblock # "mapped"
    /\ pc \in Early => mirror = "none" /\ region = "none"
    /\ pc \in {"mirror", "segments", "protect", "sync", "done"} => region = "mapped"
    /\ pc \in {"mirror", "done", "failed"} => mirror # "mapped"
    /\ pc = "failed" => region # "mapped"
    /\ pc \in Early \cup {"mirror", "segments"} => error = FALSE

LEMMA StageInitial == Init => StageInv
BY DEF Init, StageInv, Early

LEMMA StageInductive == StageInv /\ [Next]_vars => StageInv'
<1> SUFFICES ASSUME StageInv, [Next]_vars PROVE StageInv'
  OBVIOUS
<1> USE DEF StageInv, Early
<1>1. CASE (\E e \in Envs : Environ(e)) \/ NoEnviron \/ CountVar \/ MapEnviron
           \/ CopyVar \/ PointEnviron \/ MapEnvironFails \/ CopyFails
  BY <1>1 DEF Environ, NoEnviron, CountVar, MapEnviron, CopyVar, PointEnviron,
              MapEnvironFails, CopyFails, EnvironReturns, loadvars
<1>2. CASE BeginLoad \/ NotAnElf \/ ScanHeader \/ Reserve \/ ReserveFails
  BY <1>2 DEF BeginLoad, NotAnElf, ScanHeader, Reserve, ReserveFails, envvars, loadvars
<1>3. CASE MapMirror \/ MapMirrorFails \/ LoadSegment \/ EndProtect
  BY <1>3 DEF MapMirror, MapMirrorFails, LoadSegment, EndProtect, envvars, loadvars
<1>4. CASE \E x \in RelocSites(phdr) : Relocate(x)
  BY <1>4 DEF Relocate, envvars
<1>5. ASSUME NEW e \in BOOLEAN, CopyImage(e) PROVE StageInv'
  BY <1>5 DEF CopyImage, envvars
<1>6. ASSUME NEW e \in BOOLEAN, Protect(e) PROVE StageInv'
  BY <1>6 DEF Protect, envvars
<1>7. ASSUME NEW e \in BOOLEAN, Sync(e) PROVE StageInv'
  BY <1>7 DEF Sync, envvars
<1>8. CASE UNCHANGED vars
  BY <1>8 DEF vars
<1> QED BY <1>1, <1>2, <1>3, <1>4, <1>5, <1>6, <1>7, <1>8 DEF Next

\* However elfldr_set_environ() and elfldr_load() end: what was mapped is in
\* use or unmapped.
THEOREM NothingLeftMapped == Spec => []NothingLeft
<1>1. StageInv => NothingLeft
  BY DEF StageInv, NothingLeft, Early
<1> QED
  BY <1>1, StageInitial, StageInductive, PTL DEF Spec

-----------------------------------------------------------------------------
(* The environment. What was counted and what is laid out agree through the *)
(* room the first i strings take, for each i.                               *)

\* f[i] is that room for the strings e; it grows with i.
Sums(e, f, m) ==
    /\ f \in [0..m -> Nat] /\ f[0] = 0
    /\ \A i \in 1..m : f[i] = f[i - 1] + (e[i] + 1)
    /\ \A i, j \in 0..m : i <= j => f[i] <= f[j]

\* What a word holds besides a pointer and the rounding to a page, and that
\* with m of at most MaxVars strings it is not exceeded.
Room == Word - Ptr - PageSize
Bounded(m, sum) == MaxVars * (m * Ptr + sum) <= m * Room

EnvironInv ==
    /\ env \in Envs /\ n \in 0..Len(env) /\ epos \in Nat /\ esize \in 0..(Word - 1)
    /\ pc = "count" => /\ env # <<>>
                       /\ \E f : /\ Sums(env, f, n) /\ Bounded(n, f[n])
                                 /\ esize = Ptr + (n * Ptr + f[n])
    /\ pc = "strings" => \E f : LET a == Len(env)
                               IN /\ Sums(env, f, a)
                                  /\ epos = (a + 1) * Ptr + f[n]
                                  /\ Ptr + (a * Ptr + f[a]) + PageSize <= Word
                                  /\ esize = Round(Ptr + (a * Ptr + f[a]))
    /\ pc \notin {"count", "strings"} => env = <<>> /\ n = 0 /\ esize = 0 /\ epos = 0

\* One more string.
LEMMA SumsExtended ==
    ASSUME NEW e, NEW m \in Nat, NEW f, Sums(e, f, m), e[m + 1] \in Nat
    PROVE  \E g : Sums(e, g, m + 1) /\ g[m + 1] = f[m] + (e[m + 1] + 1)
<1> DEFINE c == e[m + 1] + 1
           g == [i \in 0..(m + 1) |-> IF i = m + 1 THEN f[m] + c ELSE f[i]]
<1>0. c \in Nat /\ f[m] \in Nat /\ f[m] + c \in Nat /\ f \in [0..m -> Nat]
  BY DEF Sums
<1>i. \A i \in 0..(m + 1) : i = m + 1 \/ i \in 0..m
  OBVIOUS
<1>d. m + 1 \in 0..(m + 1) /\ \A i \in 0..m : i \in 0..(m + 1) /\ i # m + 1
  OBVIOUS
<1>h. c = e[m + 1] + 1
  OBVIOUS
<1> HIDE DEF c
<1>1. g[m + 1] = f[m] + c /\ \A i \in 0..m : g[i] = f[i]
  BY <1>d
<1>2. g \in [0..(m + 1) -> Nat]
  BY <1>0, <1>i
<1> HIDE DEF g
<1>3. g[0] = 0
  BY <1>1 DEF Sums
<1>4. ASSUME NEW i \in 1..(m + 1) PROVE g[i] = g[i - 1] + (e[i] + 1)
  <2>1. CASE i = m + 1
    <3>1. i - 1 = m /\ m \in 0..m
      BY <2>1
    <3> QED BY <2>1, <3>1, <1>1, <1>h
  <2>2. CASE i # m + 1
    <3>1. i \in 1..m /\ i \in 0..m /\ i - 1 \in 0..m
      BY <2>2
    <3> QED BY <3>1, <1>1 DEF Sums
  <2> QED BY <2>1, <2>2
<1>5. ASSUME NEW i \in 0..(m + 1), NEW j \in 0..(m + 1), i <= j PROVE g[i] <= g[j]
  <2>1. CASE j = m + 1 /\ i = m + 1
    BY <2>1, <1>0, <1>1
  <2>2. CASE j = m + 1 /\ i # m + 1
    <3>1. i \in 0..m /\ m \in 0..m /\ i <= m
      BY <2>2
    <3>2. f[i] <= f[m] /\ f[i] \in Nat
      BY <3>1, <1>0 DEF Sums
    <3> QED BY <2>2, <3>1, <3>2, <1>0, <1>1
  <2>3. CASE j # m + 1
    <3>1. i \in 0..m /\ j \in 0..m
      BY <1>5, <2>3
    <3> QED BY <1>5, <3>1, <1>1 DEF Sums
  <2> QED BY <2>1, <2>2, <2>3
<1> QED
  BY <1>1, <1>2, <1>3, <1>4, <1>5, <1>h DEF Sums

LEMMA BoundedExtended ==
    ASSUME NEW m \in 0..(MaxVars - 1), NEW sum \in Nat, Bounded(m, sum), NEW l \in Lengths
    PROVE  Bounded(m + 1, sum + (l + 1))
<1>0. /\ MaxVars \in Nat /\ Ptr \in Nat /\ Word \in Nat /\ PageSize \in Nat /\ l \in Nat
      /\ m \in Nat
      /\ MaxVars * (Ptr + l + 1) + Ptr + PageSize < Word
  BY ConstantsAssumption
<1> DEFINE s == m * Ptr + sum
           c == Ptr + (l + 1)
<1>1. Room \in Int /\ s \in Nat /\ c \in Nat
  BY <1>0 DEF Room
<1>2. MaxVars * c <= Room
  <2>1. c = Ptr + l + 1
    BY <1>0
  <2>2. MaxVars * c \in Nat
    BY <1>0, <1>1
  <2> HIDE DEF c
  <2> QED BY <1>0, <2>1, <2>2 DEF Room
<1>3. MaxVars * s <= m * Room
  BY DEF Bounded
<1>4. (m + 1) * Ptr + (sum + (l + 1)) = s + c
  BY <1>0
<1> HIDE DEF s, c
<1>5. MaxVars * (s + c) = MaxVars * s + MaxVars * c /\ (m + 1) * Room = m * Room + Room
  BY <1>0, <1>1
<1>6. MaxVars * s \in Int /\ MaxVars * c \in Int /\ m * Room \in Int
  BY <1>0, <1>1
<1>7. MaxVars * (s + c) <= (m + 1) * Room
  BY <1>1, <1>2, <1>3, <1>5, <1>6
<1> QED
  BY <1>4, <1>7 DEF Bounded

\* So nothing wraps.
LEMMA BoundedFits ==
    ASSUME NEW m \in 0..MaxVars, m # 0, NEW sum \in Nat, Bounded(m, sum)
    PROVE  Ptr + (m * Ptr + sum) + PageSize <= Word
<1>0. MaxVars \in Nat \ {0} /\ Ptr \in Nat /\ Word \in Nat /\ PageSize \in Nat /\ m \in Nat \ {0}
  BY ConstantsAssumption
<1> DEFINE s == m * Ptr + sum
<1>1. Room \in Int /\ s \in Nat
  BY <1>0 DEF Room
<1>2. MaxVars * s <= m * Room
  BY DEF Bounded
<1> HIDE DEF s
<1>3. m * Room <= MaxVars * Room
  <2>1. Room >= 0
    <3> SUFFICES ASSUME Room <= -1 PROVE FALSE
      BY <1>1
    <3>1. m * Room <= m * (-1)
      BY <1>0, <1>1
    <3>2. MaxVars * s >= 0
      BY <1>0, <1>1
    <3> QED BY <1>0, <1>1, <1>2, <3>1, <3>2
  <2>2. Room \in Nat /\ m <= MaxVars
    BY <1>0, <1>1, <2>1
  <2> QED BY <1>0, <2>2
<1>4. MaxVars * s <= MaxVars * Room + 0
  BY <1>0, <1>1, <1>2, <1>3
<1>5. s <= Room
  BY <1>0, <1>1, <1>4, Cancel
<1> QED
  BY <1>0, <1>1, <1>5 DEF Room, s

LEMMA EnvIs ==
    \A e \in Envs : /\ e \in Seq(Lengths) /\ Len(e) \in 0..MaxVars
                    /\ \A i \in 1..Len(e) : e[i] \in Lengths /\ e[i] \in Nat
<1> SUFFICES ASSUME NEW e \in Envs
             PROVE  /\ e \in Seq(Lengths) /\ Len(e) \in 0..MaxVars
                    /\ \A i \in 1..Len(e) : e[i] \in Lengths /\ e[i] \in Nat
  OBVIOUS
<1>1. e \in Seq(Lengths) /\ Len(e) \in 0..MaxVars
  BY ConstantsAssumption, BoundedSeq DEF Envs
<1>2. \A i \in 1..Len(e) : e[i] \in Lengths
  BY <1>1, ElementOfSeq
<1> QED
  BY <1>1, <1>2, ConstantsAssumption

LEMMA EnvironInitial == Init => EnvironInv
<1>1. <<>> \in Envs /\ Len(<<>>) = 0
  BY ConstantsAssumption, EmptyBounded DEF Envs
<1>2. 0 \in 0..(Word - 1)
  BY ConstantsAssumption
<1> QED
  BY <1>1, <1>2 DEF Init, EnvironInv

\* elfldr_set_environ() has returned, or elfldr_load() runs.
LEMMA EnvironReturned ==
    ASSUME NEW b, EnvironReturns(b)
    PROVE  EnvironInv'
<1>1. <<>> \in Envs /\ Len(<<>>) = 0
  BY ConstantsAssumption, EmptyBounded DEF Envs
<1>2. 0 \in 0..(Word - 1)
  BY ConstantsAssumption
<1>3. /\ env' = <<>> /\ n' = 0 /\ esize' = 0 /\ epos' = 0
      /\ pc' \notin {"count", "strings"}
  BY DEF EnvironReturns
<1> QED
  BY <1>1, <1>2, <1>3 DEF EnvironInv

LEMMA EnvironKept ==
    ASSUME EnvironInv, UNCHANGED envvars, pc \notin {"count", "strings"},
           pc' \notin {"count", "strings"}
    PROVE  EnvironInv'
<1>1. UNCHANGED <<env, n, esize, epos>>
  BY DEF envvars
<1> QED
  BY <1>1 DEF EnvironInv

LEMMA EnvironBegins ==
    ASSUME EnvironInv, NEW e \in Envs, Environ(e)
    PROVE  EnvironInv'
<1>0. /\ MaxVars \in Nat /\ Ptr \in Nat /\ Word \in Nat /\ PageSize \in Nat
      /\ \A l \in Lengths : MaxVars * (Ptr + l + 1) + Ptr + PageSize < Word
      /\ Lengths \subseteq Nat
  BY ConstantsAssumption
<1>1. /\ e # <<>> /\ env' = e /\ esize' = Ptr /\ pc' = "count" /\ n' = 0 /\ epos' = 0
  BY DEF Environ, EnvironInv
<1>2. /\ e \in Seq(Lengths) /\ Len(e) \in Nat /\ Len(e) # 0 /\ 1 \in 1..Len(e)
      /\ e[1] \in Lengths
  BY <1>1, EnvIs
<1>3. Ptr \in 0..(Word - 1)
  <2> DEFINE l == e[1]
             c == MaxVars * (Ptr + l + 1)
  <2>1. c + Ptr + PageSize < Word /\ l \in Nat
    BY <1>0, <1>2
  <2>2. c \in Nat
    <3> HIDE DEF l
    <3> QED BY <1>0, <2>1
  <2> HIDE DEF c
  <2> QED BY <1>0, <2>1, <2>2
<1> DEFINE f == [i \in 0..0 |-> 0]
<1>4. f \in [0..0 -> Nat] /\ f[0] = 0
  OBVIOUS
<1>5. Sums(e, f, 0)
  <2>1. \A i \in 1..0 : FALSE
    OBVIOUS
  <2>2. \A i, j \in 0..0 : f[i] <= f[j]
    BY <1>4
  <2> HIDE DEF f
  <2> QED BY <1>4, <2>1, <2>2 DEF Sums
<1>6. Bounded(0, 0) /\ Ptr = Ptr + (0 * Ptr + 0)
  BY <1>0 DEF Bounded, Room
<1> HIDE DEF f
<1>7. 0 \in 0..Len(e)
  BY <1>2
<1> QED
  BY <1>1, <1>3, <1>4, <1>5, <1>6, <1>7 DEF EnvironInv, Bounded, Room

LEMMA EnvironCounts ==
    ASSUME EnvironInv, CountVar
    PROVE  EnvironInv'
<1>0. MaxVars \in Nat /\ Ptr \in Nat /\ Word \in Nat \ {0} /\ PageSize \in Nat \ {0}
  BY ConstantsAssumption
<1>1. /\ env \in Envs /\ n \in 0..Len(env) /\ n < Len(env) /\ epos \in Nat
      /\ pc = "count" /\ pc' = "count" /\ n' = n + 1 /\ UNCHANGED <<env, epos>>
      /\ esize' = (esize + Ptr + env[n + 1] + 1) % Word
  BY DEF EnvironInv, CountVar
<1>2. Len(env) \in Nat /\ Len(env) <= MaxVars
  BY <1>0, <1>1, EnvIs
<1>3. /\ n \in Nat /\ n \in 0..(MaxVars - 1) /\ n + 1 \in 1..Len(env)
      /\ n + 1 \in 0..MaxVars /\ n + 1 # 0 /\ n + 1 \in 0..Len(env)
  BY <1>0, <1>1, <1>2
<1>4. env[n + 1] \in Lengths /\ env[n + 1] \in Nat
  BY <1>1, <1>3, EnvIs
<1>5. PICK f : Sums(env, f, n) /\ Bounded(n, f[n]) /\ esize = Ptr + (n * Ptr + f[n])
  BY <1>1 DEF EnvironInv
<1>6. PICK g : Sums(env, g, n + 1) /\ g[n + 1] = f[n] + (env[n + 1] + 1)
  BY <1>3, <1>4, <1>5, SumsExtended
<1>7. f[n] \in Nat /\ g[n + 1] \in Nat
  BY <1>3, <1>4, <1>5, <1>6 DEF Sums
<1>8. Bounded(n + 1, g[n + 1])
  BY <1>3, <1>4, <1>5, <1>6, <1>7, BoundedExtended
<1>9. Ptr + ((n + 1) * Ptr + g[n + 1]) + PageSize <= Word
  BY <1>3, <1>7, <1>8, BoundedFits
<1>10. esize' = Ptr + ((n + 1) * Ptr + g[n + 1]) /\ esize' \in 0..(Word - 1)
  <2> DEFINE v == Ptr + ((n + 1) * Ptr + g[n + 1])
             a == n * Ptr
             c == env[n + 1]
  <2>1. a \in Nat /\ (n + 1) * Ptr = a + Ptr /\ c \in Nat
    BY <1>0, <1>3, <1>4
  <2>2. esize = Ptr + (a + f[n]) /\ g[n + 1] = f[n] + (c + 1) /\ esize' = (esize + Ptr + c + 1) % Word
    BY <1>1, <1>5, <1>6
  <2> HIDE DEF a, c
  <2>0. v = Ptr + ((a + Ptr) + (f[n] + (c + 1)))
    BY <2>1, <2>2
  <2>3. v = esize + Ptr + c + 1 /\ v \in Nat
    <3> HIDE DEF v
    <3> QED BY <1>0, <1>7, <2>0, <2>1, <2>2
  <2>4. v + PageSize <= Word
    BY <1>9
  <2>5. v \in 0..(Word - 1)
    <3> HIDE DEF v
    <3> QED BY <1>0, <2>3, <2>4
  <2>6. esize' = v % Word
    <3> HIDE DEF v
    <3> QED BY <2>2, <2>3
  <2>7. esize' = v
    <3> HIDE DEF v
    <3> QED BY <1>0, <2>5, <2>6, SmallMod
  <2> QED BY <2>5, <2>7
<1>12. env # <<>>
  BY <1>1 DEF EnvironInv
<1>13. /\ Sums(env', g, n') /\ Bounded(n', g[n'])
       /\ esize' = Ptr + (n' * Ptr + g[n'])
  BY <1>1, <1>6, <1>8, <1>10
<1> QED
  BY <1>1, <1>3, <1>10, <1>12, <1>13 DEF EnvironInv, Bounded, Room

LEMMA EnvironMaps ==
    ASSUME EnvironInv, MapEnviron
    PROVE  EnvironInv'
<1>0. MaxVars \in Nat /\ Ptr \in Nat /\ Word \in Nat \ {0} /\ PageSize \in Nat \ {0}
  BY ConstantsAssumption
<1> DEFINE a == Len(env)
<1>1. /\ env \in Envs /\ pc = "count" /\ n = a /\ env # <<>>
      /\ esize' = Round(esize) /\ epos' = (a + 1) * Ptr
      /\ n' = 0 /\ pc' = "strings" /\ env' = env
  BY DEF EnvironInv, MapEnviron
<1>2. a \in 0..MaxVars /\ a \in Nat /\ a # 0
  BY <1>0, <1>1, EnvIs
<1>3. PICK f : Sums(env, f, n) /\ Bounded(n, f[n]) /\ esize = Ptr + (n * Ptr + f[n])
  BY <1>1 DEF EnvironInv
<1> HIDE DEF a
<1>4. f[a] \in Nat /\ f[0] = 0
  BY <1>1, <1>2, <1>3 DEF Sums
<1>5. esize = Ptr + (a * Ptr + f[a]) /\ esize + PageSize <= Word
  BY <1>1, <1>2, <1>3, <1>4, BoundedFits
<1>6. esize \in Nat
  BY <1>0 DEF EnvironInv
<1>7. esize' \in 0..(Word - 1)
  <2>1. Round(esize) \in Nat /\ Round(esize) < esize + PageSize
    BY <1>5, <1>6, RoundIs
  <2> QED BY <1>0, <1>1, <1>5, <1>6, <2>1
<1>8. (a + 1) * Ptr \in Nat /\ epos' = (a + 1) * Ptr + f[0] /\ 0 \in 0..a
  BY <1>0, <1>1, <1>2, <1>4
<1>10. LET b == Len(env')
       IN /\ Sums(env', f, b) /\ epos' = (b + 1) * Ptr + f[n']
          /\ Ptr + (b * Ptr + f[b]) + PageSize <= Word
          /\ esize' = Round(Ptr + (b * Ptr + f[b]))
  BY <1>1, <1>3, <1>5, <1>8 DEF a
<1>11. env' \in Envs /\ n' \in 0..Len(env') /\ epos' \in Nat
  BY <1>1, <1>8 DEF a
<1> QED
  BY <1>1, <1>7, <1>10, <1>11 DEF EnvironInv, Round, Trunc

LEMMA EnvironCopies ==
    ASSUME EnvironInv, CopyVar
    PROVE  EnvironInv'
<1>0. MaxVars \in Nat /\ Ptr \in Nat /\ Word \in Nat \ {0} /\ PageSize \in Nat \ {0}
  BY ConstantsAssumption
<1> DEFINE a == Len(env)
<1>1. /\ env \in Envs /\ pc = "strings" /\ n \in 0..a /\ n < a /\ epos \in Nat
      /\ esize \in 0..(Word - 1)
      /\ pc' = "strings" /\ n' = n + 1 /\ UNCHANGED <<env, esize>>
      /\ epos' = epos + env[n + 1] + 1
  BY DEF EnvironInv, CopyVar
<1>2. a \in Nat
  BY <1>1, EnvIs
<1>3. PICK f : /\ Sums(env, f, a)
               /\ epos = (a + 1) * Ptr + f[n]
               /\ Ptr + (a * Ptr + f[a]) + PageSize <= Word
               /\ esize = Round(Ptr + (a * Ptr + f[a]))
  BY <1>1 DEF EnvironInv, Round, Trunc
<1>h. a = Len(env)
  OBVIOUS
<1> HIDE DEF a
<1>4. n \in Nat /\ n + 1 \in 1..a /\ n + 1 \in 0..a /\ (n + 1) - 1 = n
  BY <1>1, <1>2
<1>5. env[n + 1] \in Nat
  BY <1>1, <1>4, <1>h, EnvIs
<1>6. f[n + 1] = f[n] + (env[n + 1] + 1) /\ f[n] \in Nat
  BY <1>1, <1>3, <1>4 DEF Sums
<1>7. (a + 1) * Ptr \in Nat
  BY <1>0, <1>2
<1>8. epos' = (a + 1) * Ptr + f[n + 1] /\ epos' \in Nat
  <2> DEFINE c == env[n + 1]
             b == (a + 1) * Ptr
  <2>1. c \in Nat /\ b \in Nat /\ epos = b + f[n] /\ epos' = epos + c + 1
        /\ f[n + 1] = f[n] + (c + 1)
    BY <1>1, <1>3, <1>5, <1>6, <1>7
  <2> HIDE DEF b, c
  <2>2. epos' = b + f[n + 1] /\ epos' \in Nat
    BY <1>6, <2>1
  <2> QED BY <2>2 DEF b
<1>9. LET b == Len(env')
      IN /\ Sums(env', f, b) /\ epos' = (b + 1) * Ptr + f[n']
         /\ Ptr + (b * Ptr + f[b]) + PageSize <= Word
         /\ esize' = Round(Ptr + (b * Ptr + f[b]))
  BY <1>1, <1>3, <1>8, <1>h
<1>10. n' \in 0..Len(env') /\ env' \in Envs /\ esize' \in 0..(Word - 1)
  BY <1>1, <1>4, <1>h
<1> QED
  BY <1>1, <1>8, <1>9, <1>10 DEF EnvironInv, Round, Trunc

LEMMA EnvironInductive == EnvironInv /\ [Next]_vars => EnvironInv'
<1> SUFFICES ASSUME EnvironInv, [Next]_vars PROVE EnvironInv'
  OBVIOUS
<1>1. ASSUME NEW e \in Envs, Environ(e) PROVE EnvironInv'
  BY <1>1, EnvironBegins
<1>2. CASE NoEnviron \/ PointEnviron \/ MapEnvironFails \/ CopyFails
  <2>1. PICK b : EnvironReturns(b)
    BY <1>2 DEF NoEnviron, PointEnviron, MapEnvironFails, CopyFails
  <2> QED BY <2>1, EnvironReturned
<1>3. CASE CountVar
  BY <1>3, EnvironCounts
<1>4. CASE MapEnviron
  BY <1>4, EnvironMaps
<1>5. CASE CopyVar
  BY <1>5, EnvironCopies
<1> DEFINE Apart == /\ UNCHANGED envvars /\ pc \notin {"count", "strings"}
                    /\ pc' \notin {"count", "strings"}
<1>6. CASE BeginLoad \/ NotAnElf \/ ScanHeader \/ Reserve \/ ReserveFails
  <2>1. Apart
    BY <1>6 DEF BeginLoad, NotAnElf, ScanHeader, Reserve, ReserveFails
  <2> QED BY <2>1, EnvironKept
<1>7. CASE MapMirror \/ MapMirrorFails \/ LoadSegment \/ EndProtect
  <2>1. Apart
    BY <1>7 DEF MapMirror, MapMirrorFails, LoadSegment, EndProtect
  <2> QED BY <2>1, EnvironKept
<1>8. CASE \E x \in RelocSites(phdr) : Relocate(x)
  <2>1. Apart
    BY <1>8 DEF Relocate
  <2> QED BY <2>1, EnvironKept
<1>9. ASSUME NEW e \in BOOLEAN, CopyImage(e) \/ Protect(e) \/ Sync(e) PROVE EnvironInv'
  <2>1. Apart
    BY <1>9 DEF CopyImage, Protect, Sync
  <2> QED BY <2>1, EnvironKept
<1>10. CASE UNCHANGED vars
  <2>1. UNCHANGED <<pc, env, n, esize, epos>>
    BY <1>10 DEF vars
  <2> QED BY <2>1 DEF EnvironInv
<1> QED
  BY <1>1, <1>2, <1>3, <1>4, <1>5, <1>6, <1>7, <1>8, <1>9, <1>10 DEF Next

\* The block, from the prefix sums: what is laid out before string n + 1 never
\* exceeds what was counted, and the block is that, rounded to a page.
LEMMA EnvironFitsFollows == EnvironInv => EnvironFits
<1> SUFFICES ASSUME EnvironInv, pc = "strings"
             PROVE  /\ (Len(env) + 1) * Ptr <= epos /\ epos <= esize
                    /\ n = Len(env) => esize < epos + PageSize
  BY DEF EnvironFits
<1>0. Ptr \in Nat /\ Word \in Nat \ {0} /\ PageSize \in Nat \ {0}
  BY ConstantsAssumption
<1> DEFINE a == Len(env)
<1>1. env \in Envs /\ n \in 0..a /\ epos \in Nat
  BY DEF EnvironInv
<1>2. a \in Nat
  BY <1>1, EnvIs
<1>3. PICK f : /\ Sums(env, f, a)
               /\ epos = (a + 1) * Ptr + f[n]
               /\ Ptr + (a * Ptr + f[a]) + PageSize <= Word
               /\ esize = Round(Ptr + (a * Ptr + f[a]))
  BY DEF EnvironInv, Round, Trunc
<1>h. a = Len(env)
  OBVIOUS
<1> HIDE DEF a
<1>4. f[n] \in Nat /\ f[a] \in Nat /\ f[n] <= f[a]
  <2>1. n <= a /\ a \in 0..a
    BY <1>1, <1>2
  <2> QED BY <1>1, <1>3, <2>1 DEF Sums
<1> DEFINE t == a * Ptr
           s == Ptr + (a * Ptr + f[a])
<1>5. t \in Nat /\ (a + 1) * Ptr = t + Ptr /\ s = Ptr + (t + f[a])
  BY <1>0, <1>2
<1>e. epos = (t + Ptr) + f[n] /\ s + PageSize <= Word /\ esize = Round(s)
  BY <1>3, <1>5
<1> HIDE DEF t, s
<1>6. s \in Nat
  BY <1>0, <1>4, <1>5
<1>7. s <= esize /\ esize < s + PageSize /\ esize \in Nat
  BY <1>e, <1>6, RoundIs
<1>8. t + Ptr <= epos /\ epos <= s /\ (n = a => epos = s)
  BY <1>0, <1>4, <1>5, <1>6, <1>e
<1> QED
  BY <1>0, <1>5, <1>6, <1>7, <1>8, <1>1, <1>h

\* For any environment within the bounds: the block of elfldr_set_environ()
\* holds the table of pointers, its NULL and the strings, in this order.
THEOREM EnvironmentFits == Spec => []EnvironFits
BY EnvironInitial, EnvironInductive, EnvironFitsFollows, PTL DEF Spec

-----------------------------------------------------------------------------
(* The bounds of the image. *)

Reserved == {"mirror", "segments", "protect", "sync", "done"}

BoundsInv ==
    /\ phdr \in Seq(Hdr) /\ Len(phdr) <= MaxHdrs /\ k \in 0..Len(phdr)
    /\ min \in 0..(Word - 1) /\ max \in 0..(Word - 1) /\ size \in 0..(Word - 1)
    /\ hi \in Nat
    /\ pc \in Early => hi = 0 /\ size = 0
    /\ pc \in Early \ {"bounds"} => k = 0 /\ phdr = <<>> /\ max = 0
    /\ pc = "bounds" => /\ max + PageSize <= Word
                        /\ \A m \in 1..k : min <= phdr[m].vaddr /\ End(phdr[m]) <= max
    /\ pc \in Reserved => /\ size % PageSize = 0
                          /\ AtZero => \A m \in 1..Len(phdr) : End(phdr[m]) <= size
    /\ AtZero => hi <= size

LEMMA HdrIs ==
    ASSUME NEW h \in Hdr
    PROVE  /\ h.vaddr \in Nat /\ h.memsz \in Nat /\ h.filesz \in Nat
           /\ h.filesz <= h.memsz
           /\ End(h) = h.vaddr + h.memsz /\ End(h) \in Nat
           /\ End(h) + PageSize < Word
<1>1. /\ h.vaddr \in Vaddrs /\ h.memsz \in Sizes /\ h.filesz \in Sizes
      /\ h.filesz <= h.memsz
  BY DEF Hdr
<1>2. h.vaddr \in Nat /\ h.memsz \in Nat /\ h.filesz \in Nat
  BY <1>1, ConstantsAssumption
<1>3. h.vaddr + h.memsz + PageSize < Word
  BY <1>1, ConstantsAssumption
<1>4. End(h) = h.vaddr + h.memsz
  BY DEF End
<1> QED
  BY <1>1, <1>2, <1>3, <1>4

LEMMA HeadersIs ==
    ASSUME NEW hs \in Headers
    PROVE  hs \in Seq(Hdr) /\ Len(hs) \in Nat /\ Len(hs) <= MaxHdrs
<1>1. hs \in UNION {[1..m -> Hdr] : m \in 0..MaxHdrs} /\ MaxHdrs \in Nat
  BY ConstantsAssumption DEF Headers
<1>2. hs \in Seq(Hdr) /\ Len(hs) \in 0..MaxHdrs
  BY <1>1, BoundedSeq
<1> QED
  BY <1>1, <1>2

LEMMA BoundsInitial == Init => BoundsInv
<1>1. <<>> \in Seq(Hdr) /\ Len(<<>>) = 0
  OBVIOUS
<1>2. 0 \in 0..(Word - 1) /\ Word - 1 \in 0..(Word - 1) /\ 0 <= MaxHdrs /\ 0 \in 0..0
  BY ConstantsAssumption
<1> QED
  BY <1>1, <1>2 DEF Init, BoundsInv, Early, Reserved

\* The steps that leave the bounds alone.
LEMMA BoundsKept ==
    ASSUME BoundsInv, UNCHANGED <<phdr, min, max, size, hi>>,
           k' = k \/ (pc \notin Early /\ k' \in 0..Len(phdr)),
           \/ pc' = pc
           \/ pc \in Reserved /\ pc' \in Reserved
           \/ pc' = "failed"
           \/ pc \in Early \ {"bounds"} /\ pc' \in Early \ {"bounds"}
    PROVE  BoundsInv'
<1>1. CASE pc' = pc /\ k' = k
  BY <1>1 DEF BoundsInv, AtZero
<1>2. CASE pc \in Early \ {"bounds"} /\ pc' \in Early \ {"bounds"} /\ k' = k
  BY <1>2 DEF BoundsInv, AtZero, Early, Reserved
<1>3. CASE pc \notin Early /\ pc' = pc
  BY <1>3 DEF BoundsInv, AtZero, Early
<1>4. CASE pc \in Reserved /\ pc' \in Reserved
  BY <1>4 DEF BoundsInv, AtZero, Early, Reserved
<1>5. CASE pc' = "failed"
  BY <1>5 DEF BoundsInv, AtZero, Early, Reserved
<1> QED
  BY <1>1, <1>2, <1>3, <1>4, <1>5 DEF Early, Reserved

LEMMA BoundsBegin ==
    ASSUME BoundsInv, BeginLoad
    PROVE  BoundsInv'
<1>1. /\ phdr' \in Headers /\ pc = "loaded env" /\ pc' = "bounds"
      /\ UNCHANGED <<k, min, max, size, hi>>
  BY DEF BeginLoad
<1>2. k = 0 /\ max = 0 /\ hi = 0 /\ size = 0 /\ min \in 0..(Word - 1)
  BY <1>1 DEF BoundsInv, Early
<1>3. phdr' \in Seq(Hdr) /\ Len(phdr') \in Nat /\ Len(phdr') <= MaxHdrs
  BY <1>1, HeadersIs
<1>4. /\ 0 \in 0..Len(phdr') /\ 0 \in 0..(Word - 1) /\ 0 + PageSize <= Word
      /\ \A m \in 1..0 : FALSE
  BY <1>3, ConstantsAssumption
<1>5. k' = 0 /\ max' = 0 /\ hi' = 0 /\ size' = 0 /\ min' \in 0..(Word - 1)
  BY <1>1, <1>2
<1>6. hi' \in Nat /\ hi' <= size' /\ max' + PageSize <= Word
      /\ size' \in 0..(Word - 1) /\ max' \in 0..(Word - 1) /\ k' \in 0..Len(phdr')
  BY <1>4, <1>5
<1>7. \A m \in 1..k' : min' <= phdr'[m].vaddr /\ End(phdr'[m]) <= max'
  BY <1>4, <1>5
<1> QED
  BY <1>1, <1>3, <1>5, <1>6, <1>7 DEF BoundsInv, Early, Reserved

LEMMA BoundsScan ==
    ASSUME BoundsInv, ScanHeader
    PROVE  BoundsInv'
<1> DEFINE h == phdr[k + 1]
<1>0. Word \in Nat \ {0} /\ PageSize \in Nat
  BY ConstantsAssumption
<1>1. /\ pc = "bounds" /\ pc' = "bounds" /\ k < Len(phdr) /\ k' = k + 1
      /\ min' = IF h.vaddr < min THEN h.vaddr ELSE min
      /\ max' = IF max < End(h) % Word THEN End(h) % Word ELSE max
      /\ UNCHANGED <<phdr, size, hi>>
  BY DEF ScanHeader
<1>2. /\ phdr \in Seq(Hdr) /\ k \in 0..Len(phdr) /\ hi = 0 /\ size = 0
      /\ min \in 0..(Word - 1) /\ max \in 0..(Word - 1) /\ max + PageSize <= Word
      /\ \A m \in 1..k : min <= phdr[m].vaddr /\ End(phdr[m]) <= max
      /\ Len(phdr) <= MaxHdrs
  BY <1>1 DEF BoundsInv, Early
<1>3. Len(phdr) \in Nat /\ k + 1 \in 1..Len(phdr) /\ k \in Nat /\ k + 1 \in 0..Len(phdr)
  BY <1>1, <1>2
<1>4. h \in Hdr
  BY <1>2, <1>3, ElementOfSeq
<1>5. h.vaddr \in Nat /\ End(h) \in Nat /\ End(h) + PageSize < Word /\ h.vaddr <= End(h)
  BY <1>4, HdrIs
<1>h. h = phdr[k + 1]
  OBVIOUS
<1> HIDE DEF h
<1>6. End(h) % Word = End(h)
  <2>1. End(h) \in 0..(Word - 1)
    BY <1>0, <1>5
  <2> QED BY <1>0, <2>1, SmallMod
<1>7. /\ min' \in 0..(Word - 1) /\ max' \in 0..(Word - 1) /\ max' + PageSize <= Word
      /\ min' <= min /\ min' <= h.vaddr /\ max <= max' /\ End(h) <= max'
  <2> DEFINE v == h.vaddr
             w == End(h)
  <2>1. /\ v \in Nat /\ w \in Nat /\ w + PageSize < Word /\ v <= w
        /\ min' = IF v < min THEN v ELSE min
        /\ max' = IF max < w THEN w ELSE max
    BY <1>1, <1>5, <1>6
  <2>2. min \in 0..(Word - 1) /\ max \in 0..(Word - 1) /\ max + PageSize <= Word
    BY <1>2
  <2> HIDE DEF v, w
  <2>3. /\ min' \in 0..(Word - 1) /\ max' \in 0..(Word - 1) /\ max' + PageSize <= Word
        /\ min' <= min /\ min' <= v /\ max <= max' /\ w <= max'
    BY <1>0, <2>1, <2>2
  <2> QED BY <2>3 DEF v, w
<1>8. ASSUME NEW m \in 1..k' PROVE min' <= phdr'[m].vaddr /\ End(phdr'[m]) <= max'
  <2>1. CASE m = k + 1
    BY <2>1, <1>1, <1>7, <1>h
  <2>2. CASE m # k + 1
    <3>1. m \in 1..k /\ m \in 1..Len(phdr)
      BY <2>2, <1>1, <1>2, <1>3
    <3>2. phdr[m] \in Hdr
      BY <1>2, <3>1, ElementOfSeq
    <3>3. phdr[m].vaddr \in Nat /\ End(phdr[m]) \in Nat
      BY <3>2, HdrIs
    <3>4. min <= phdr[m].vaddr /\ End(phdr[m]) <= max
      BY <1>2, <3>1
    <3> DEFINE v == phdr[m].vaddr
               w == End(phdr[m])
    <3>5. v \in Nat /\ w \in Nat /\ min <= v /\ w <= max
      BY <3>3, <3>4
    <3> HIDE DEF v, w
    <3>6. min' <= v /\ w <= max'
      BY <1>0, <1>2, <1>7, <3>5
    <3> QED BY <3>6, <1>1 DEF v, w
  <2> QED BY <2>1, <2>2
<1>9. hi' \in Nat /\ size' \in 0..(Word - 1) /\ hi' <= size' /\ hi' = 0 /\ size' = 0
  BY <1>0, <1>1, <1>2
<1> QED
  BY <1>1, <1>2, <1>3, <1>7, <1>8, <1>9 DEF BoundsInv, Early, Reserved

\* An image linked at address 0 is reserved up to its end.
LEMMA BoundsReserve ==
    ASSUME BoundsInv, Reserve
    PROVE  BoundsInv'
<1>0. Word \in Nat \ {0} /\ PageSize \in Nat \ {0}
  BY ConstantsAssumption
<1>1. /\ pc = "bounds" /\ pc' = "mirror" /\ k = Len(phdr) /\ k' = 0
      /\ min' = Trunc(min) /\ max' = Round(max) /\ size' = (max' + Word - min') % Word
      /\ UNCHANGED <<phdr, hi>>
  BY DEF Reserve
<1>2. /\ phdr \in Seq(Hdr) /\ hi = 0 /\ Len(phdr) <= MaxHdrs
      /\ min \in 0..(Word - 1) /\ max \in 0..(Word - 1) /\ max + PageSize <= Word
      /\ \A m \in 1..k : min <= phdr[m].vaddr /\ End(phdr[m]) <= max
  BY <1>1 DEF BoundsInv, Early
<1>3. min \in Nat /\ max \in Nat /\ Len(phdr) \in Nat
  BY <1>0, <1>2
<1>4. /\ min' \in Nat /\ min' <= min /\ min' % PageSize = 0
  BY <1>1, <1>3, TruncIs
<1>5. /\ max' \in Nat /\ max <= max' /\ max' < max + PageSize /\ max' % PageSize = 0
  BY <1>1, <1>2, <1>3, RoundIs
<1>6. min' \in 0..(Word - 1) /\ max' \in 0..(Word - 1)
  BY <1>0, <1>2, <1>3, <1>4, <1>5
<1>7. /\ size' \in 0..(Word - 1) /\ size' % PageSize = 0
      /\ min' = 0 => size' = max'
  BY <1>1, <1>4, <1>5, <1>6, Difference
<1>8. ASSUME AtZero, NEW m \in 1..Len(phdr) PROVE End(phdr[m]) <= size'
  <2>1. PICK z \in 1..Len(phdr) : phdr[z].vaddr < PageSize
    BY <1>8 DEF AtZero
  <2>2. phdr[z] \in Hdr /\ phdr[m] \in Hdr
    BY <1>2, ElementOfSeq
  <2>3. phdr[z].vaddr \in Nat /\ End(phdr[m]) \in Nat
    BY <2>2, HdrIs
  <2>4. min <= phdr[z].vaddr /\ End(phdr[m]) <= max
    BY <1>1, <1>2
  <2> DEFINE v == phdr[z].vaddr
             w == End(phdr[m])
  <2>5. v \in Nat /\ v < PageSize /\ min <= v /\ w \in Nat /\ w <= max
    BY <2>1, <2>3, <2>4
  <2> HIDE DEF v, w
  <2>6. min' \in 0..(PageSize - 1)
    BY <1>0, <1>3, <1>4, <2>5
  <2>7. min' = 0
    BY <1>0, <1>4, <2>6, SmallMod
  <2>8. size' = max'
    BY <1>7, <2>7
  <2>9. w <= size'
    BY <1>3, <1>5, <2>5, <2>8
  <2> QED BY <2>9 DEF w
<1>9. AtZero' <=> AtZero
  BY <1>1 DEF AtZero
<1>10. hi' \in Nat /\ hi' <= size' /\ k' \in 0..Len(phdr')
  BY <1>0, <1>1, <1>2, <1>3, <1>7
<1>11. AtZero' => \A m \in 1..Len(phdr') : End(phdr'[m]) <= size'
  BY <1>1, <1>8, <1>9
<1>12. pc' \notin Early
  BY <1>1 DEF Early
<1> QED
  BY <1>1, <1>2, <1>6, <1>7, <1>10, <1>11, <1>12 DEF BoundsInv, Early

\* What is written ends where its segment ends, at the latest.
LEMMA BoundsWritten ==
    ASSUME BoundsInv, pc = "segments", pc' = "segments", k' \in 0..Len(phdr),
           UNCHANGED <<phdr, min, max, size>>,
           NEW m \in 1..Len(phdr), NEW x \in Nat, NEW l \in Nat, x + l <= End(phdr[m]),
           hi' \in {hi, Written(x, l)}
    PROVE  BoundsInv'
<1>1. phdr \in Seq(Hdr) /\ hi \in Nat /\ size \in 0..(Word - 1)
  BY DEF BoundsInv
<1>2. phdr[m] \in Hdr
  BY <1>1, ElementOfSeq
<1>3. End(phdr[m]) \in Nat
  BY <1>2, HdrIs
<1>4. hi' \in Nat /\ (hi' = hi \/ hi' = x + l)
  BY <1>1 DEF Written
<1>5. AtZero => hi' <= size
  <2> SUFFICES ASSUME AtZero PROVE hi' <= size
    OBVIOUS
  <2>1. hi <= size /\ End(phdr[m]) <= size
    BY DEF BoundsInv, Reserved
  <2> DEFINE w == End(phdr[m])
  <2>2. w \in Nat /\ w <= size /\ x + l <= w
    BY <1>3, <2>1
  <2> HIDE DEF w
  <2>w. Word \in Nat
    BY ConstantsAssumption
  <2> QED BY <2>w, <1>1, <1>4, <2>1, <2>2
<1>6. pc \notin Early /\ pc' \notin Early
  BY DEF Early
<1>7. AtZero' <=> AtZero
  BY DEF AtZero
<1> QED
  BY <1>4, <1>5, <1>6, <1>7 DEF BoundsInv, Early, Reserved

LEMMA BoundsSegment ==
    ASSUME BoundsInv, LoadSegment
    PROVE  BoundsInv'
<1> DEFINE h == phdr[k + 1]
<1>1. /\ pc = "segments" /\ pc' = "segments" /\ k < Len(phdr) /\ k' = k + 1
      /\ hi' = IF h.load /\ h.memsz > 0 /\ h.filesz > 0
               THEN Written(h.vaddr, h.filesz) ELSE hi
      /\ UNCHANGED <<phdr, min, max, size>>
  BY DEF LoadSegment
<1>2. phdr \in Seq(Hdr) /\ k \in 0..Len(phdr)
  BY DEF BoundsInv
<1>3. Len(phdr) \in Nat /\ k + 1 \in 1..Len(phdr) /\ k' \in 0..Len(phdr)
  BY <1>1, <1>2
<1>4. h \in Hdr
  BY <1>2, <1>3, ElementOfSeq
<1>5. h.vaddr \in Nat /\ h.filesz \in Nat /\ h.vaddr + h.filesz <= End(h)
  <2>1. /\ h.vaddr \in Nat /\ h.memsz \in Nat /\ h.filesz \in Nat /\ h.filesz <= h.memsz
        /\ End(h) = h.vaddr + h.memsz
    BY <1>4, HdrIs
  <2> HIDE DEF h
  <2> QED BY <2>1
<1>6. hi' \in {hi, Written(h.vaddr, h.filesz)}
  BY <1>1
<1> QED
  BY <1>1, <1>3, <1>5, <1>6, BoundsWritten

LEMMA BoundsRelocate ==
    ASSUME BoundsInv, NEW x \in RelocSites(phdr), Relocate(x)
    PROVE  BoundsInv'
<1>1. /\ pc = "segments" /\ pc' = "segments" /\ hi' = Written(x, Ptr)
      /\ UNCHANGED <<k, phdr, min, max, size>>
  BY DEF Relocate
<1>2. phdr \in Seq(Hdr) /\ k \in 0..Len(phdr)
  BY DEF BoundsInv
<1>3. PICK m \in 1..Len(phdr) : x \in phdr[m].vaddr..End(phdr[m]) /\ x + Ptr <= End(phdr[m])
  BY DEF RelocSites
<1>4. phdr[m] \in Hdr
  BY <1>2, ElementOfSeq
<1>5. x \in Nat
  <2>1. phdr[m].vaddr \in Nat /\ End(phdr[m]) \in Nat
    BY <1>4, HdrIs
  <2> QED BY <1>3, <2>1
<1>6. Ptr \in Nat /\ k' \in 0..Len(phdr)
  BY <1>1, <1>2, ConstantsAssumption
<1> QED
  BY <1>1, <1>3, <1>5, <1>6, BoundsWritten

LEMMA BoundsInductive == BoundsInv /\ [Next]_vars => BoundsInv'
<1> SUFFICES ASSUME BoundsInv, [Next]_vars PROVE BoundsInv'
  OBVIOUS
<1>p. phdr \in Seq(Hdr) /\ k \in 0..Len(phdr) /\ Len(phdr) \in Nat
  BY DEF BoundsInv
<1> DEFINE Same == UNCHANGED <<phdr, min, max, size, hi>>
           Move == \/ pc' = pc
                   \/ pc \in Reserved /\ pc' \in Reserved
                   \/ pc' = "failed"
                   \/ pc \in Early \ {"bounds"} /\ pc' \in Early \ {"bounds"}
<1>1. CASE (\E e \in Envs : Environ(e)) \/ NoEnviron \/ CountVar \/ MapEnviron
           \/ CopyVar \/ PointEnviron \/ MapEnvironFails \/ CopyFails
  <2>1. Same /\ Move /\ k' = k
    BY <1>1 DEF Environ, NoEnviron, CountVar, MapEnviron, CopyVar, PointEnviron,
                MapEnvironFails, CopyFails, EnvironReturns, loadvars, Early, Reserved
  <2> QED BY <2>1, BoundsKept
<1>2. CASE BeginLoad
  BY <1>2, BoundsBegin
<1>3. CASE ScanHeader
  BY <1>3, BoundsScan
<1>4. CASE Reserve
  BY <1>4, BoundsReserve
<1>5. CASE NotAnElf \/ ReserveFails \/ MapMirror \/ MapMirrorFails \/ EndProtect
  <2>1. Same /\ Move /\ k' = k
    BY <1>5 DEF NotAnElf, ReserveFails, MapMirror, MapMirrorFails, EndProtect,
                loadvars, Reserved
  <2> QED BY <2>1, BoundsKept
<1>6. CASE LoadSegment
  BY <1>6, BoundsSegment
<1>7. ASSUME NEW x \in RelocSites(phdr), Relocate(x) PROVE BoundsInv'
  BY <1>7, BoundsRelocate
<1>8. ASSUME NEW e \in BOOLEAN, CopyImage(e) \/ Protect(e) \/ Sync(e) PROVE BoundsInv'
  <2>1. Same /\ Move /\ pc \notin Early
    BY <1>8 DEF CopyImage, Protect, Sync, Early, Reserved
  <2>2. k' \in 0..Len(phdr)
    <3>1. k' = k \/ k' = 0 \/ (k' = k + 1 /\ k < Len(phdr))
      BY <1>8 DEF CopyImage, Protect, Sync
    <3> QED BY <1>p, <3>1
  <2> QED BY <2>1, <2>2, BoundsKept
<1>9. CASE UNCHANGED vars
  <2>1. Same /\ Move /\ k' = k
    BY <1>9 DEF vars
  <2> QED BY <2>1, BoundsKept
<1> QED
  BY <1>1, <1>2, <1>3, <1>4, <1>5, <1>6, <1>7, <1>8, <1>9 DEF Next

\* For any headers linked at address 0: what pt_load() and r_relative() write
\* to the mirror lies within what was reserved in the process.
THEOREM ImageWithinReserve == Spec => []WithinReserve
<1>1. BoundsInv => WithinReserve
  BY DEF BoundsInv, WithinReserve
<1> QED
  BY <1>1, BoundsInitial, BoundsInductive, PTL DEF Spec

-----------------------------------------------------------------------------
(* The flags of pages. *)

Loaded(h) == h.load /\ h.memsz > 0

\* The pages of the first c headers have the flags of the last segment among
\* these that lies there.
Flagged(hs, flags, c) ==
    \A m \in 1..c : Loaded(hs[m]) =>
        \A p \in Page(hs[m].vaddr)..Page(End(hs[m]) - 1) :
            (\A j \in (m + 1)..c : Loaded(hs[j]) => Page(hs[j].vaddr) > p)
            => flags[p] = m

FlagInv ==
    /\ prot \in [Pages -> 0..MaxHdrs]
    /\ error \in BOOLEAN
    /\ pc = "protect" /\ ~error => Flagged(phdr, prot, k)
    /\ pc = "sync" /\ ~error => Flagged(phdr, prot, Len(phdr))
    /\ pc = "done" => Flagged(phdr, prot, Len(phdr))

\* The pages of a segment are among those given its flags.
LEMMA CoversSegment ==
    ASSUME NEW h \in Hdr, Loaded(h), NEW p \in Page(h.vaddr)..Page(End(h) - 1)
    PROVE  p \in Pages /\ p \in Covered(h)
<1>0. PageSize \in Nat \ {0} /\ Word \in Nat
  BY ConstantsAssumption
<1>1. /\ h.vaddr \in Nat /\ h.memsz \in Nat /\ End(h) = h.vaddr + h.memsz
      /\ End(h) + PageSize < Word
  BY HdrIs
<1> DEFINE v == h.vaddr
           s == h.memsz
<1>2. v \in Nat /\ s \in Nat /\ s > 0 /\ End(h) = v + s /\ v + s + PageSize < Word
  BY <1>1 DEF Loaded
<1>c. /\ p \in Page(v)..Page(End(h) - 1)
      /\ Covered(h) = Page(v)..Page(v + Round(s) - 1)
  BY DEF Covered
<1> HIDE DEF v, s
<1>3. Round(s) \in Nat /\ s <= Round(s)
  <2>1. s + PageSize <= Word
    BY <1>0, <1>2
  <2> QED BY <1>2, <2>1, RoundIs
<1>4. /\ v + s - 1 \in Nat /\ v + Round(s) - 1 \in Nat
      /\ v + s - 1 <= v + Round(s) - 1 /\ v + s - 1 <= Word
  BY <1>0, <1>2, <1>3
<1>5. /\ Page(v + s - 1) \in Nat /\ Page(v + Round(s) - 1) \in Nat /\ Page(Word) \in Nat
      /\ Page(v + s - 1) <= Page(v + Round(s) - 1) /\ Page(v + s - 1) <= Page(Word)
  BY <1>0, <1>4, PageMonotone
<1>6. Page(v) \in Nat
  BY <1>2, PageMonotone
<1> DEFINE a == Page(v)
           b == Page(v + s - 1)
           c == Page(v + Round(s) - 1)
           d == Page(Word)
<1>7. a \in Nat /\ b \in Nat /\ c \in Nat /\ d \in Nat /\ b <= c /\ b <= d /\ p \in a..b
  BY <1>2, <1>5, <1>6, <1>c
<1>8. Covered(h) = a..c /\ Pages = 0..d
  BY <1>c DEF Pages
<1> HIDE DEF a, b, c, d
<1>9. p \in a..c /\ p \in 0..d
  BY <1>7
<1> QED
  BY <1>8, <1>9

LEMMA FlagsProtect ==
    ASSUME BoundsInv, FlagInv, NEW e \in BOOLEAN, Protect(e)
    PROVE  FlagInv'
<1> DEFINE h == phdr[k + 1]
           new == [p \in Pages |-> IF p \in Covered(h) THEN k + 1 ELSE prot[p]]
<1>0. MaxHdrs \in Nat
  BY ConstantsAssumption
<1>1. /\ pc = "protect" /\ pc' = "protect" /\ k < Len(phdr) /\ ~error
      /\ error' = e /\ k' = k + 1 /\ phdr' = phdr
      /\ ~Loaded(h) \/ e => prot' = prot
      /\ Loaded(h) /\ ~e => prot' = new
  <2>1. phdr \in Seq(Hdr) /\ k \in 0..Len(phdr) /\ k < Len(phdr)
    BY DEF BoundsInv, Protect
  <2>2. Len(phdr) \in Nat /\ k + 1 \in 1..Len(phdr)
    BY <2>1
  <2>3. h \in Hdr
    BY <2>1, <2>2, ElementOfSeq
  <2>4. h.memsz \in Nat
    BY <2>3, HdrIs
  <2> DEFINE skipped == ~h.load \/ h.memsz = 0
  <2>5. skipped <=> ~Loaded(h)
    BY <2>4 DEF Loaded
  <2>6. /\ pc = "protect" /\ pc' = "protect" /\ k < Len(phdr) /\ ~error
        /\ error' = e /\ k' = k + 1 /\ phdr' = phdr
        /\ prot' = IF skipped \/ e THEN prot ELSE new
    BY DEF Protect
  <2> HIDE DEF skipped, new
  <2> QED BY <2>5, <2>6
<1>2. /\ phdr \in Seq(Hdr) /\ k \in 0..Len(phdr) /\ Len(phdr) <= MaxHdrs
      /\ prot \in [Pages -> 0..MaxHdrs] /\ Flagged(phdr, prot, k)
  BY <1>1 DEF BoundsInv, FlagInv
<1>3. /\ Len(phdr) \in Nat /\ k \in Nat /\ k + 1 \in 1..Len(phdr) /\ k + 1 \in 0..MaxHdrs
      /\ \A m \in 1..(k + 1) : m \in 1..k \/ m = k + 1
  BY <1>0, <1>1, <1>2
<1>4. h \in Hdr
  BY <1>2, <1>3, ElementOfSeq
<1>5. new \in [Pages -> 0..MaxHdrs]
  <2> HIDE DEF h
  <2> QED BY <1>2, <1>3
<1>6. prot' \in [Pages -> 0..MaxHdrs]
  <2> HIDE DEF new
  <2> QED BY <1>1, <1>2, <1>5
<1>h. h = phdr[k + 1]
  OBVIOUS
<1> HIDE DEF h
<1>7. ASSUME ~e, NEW m \in 1..(k + 1), Loaded(phdr[m]),
             NEW p \in Page(phdr[m].vaddr)..Page(End(phdr[m]) - 1),
             \A j \in (m + 1)..(k + 1) : Loaded(phdr[j]) => Page(phdr[j].vaddr) > p
      PROVE  prot'[p] = m
  <2>1. CASE m = k + 1
    <3>1. p \in Pages /\ p \in Covered(h) /\ Loaded(h)
      BY <2>1, <1>4, <1>7, <1>h, CoversSegment
    <3> QED BY <2>1, <3>1, <1>1, <1>7
  <2>2. CASE m # k + 1
    <3>1. m \in 1..k /\ m \in 1..Len(phdr) /\ k + 1 \in (m + 1)..(k + 1)
          /\ \A j \in (m + 1)..k : j \in (m + 1)..(k + 1)
      BY <2>2, <1>2, <1>3
    <3>2. prot[p] = m
      BY <3>1, <1>2, <1>7 DEF Flagged
    <3>3. phdr[m] \in Hdr
      BY <1>2, <3>1, ElementOfSeq
    <3>4. p \in Pages
      BY <1>7, <3>3, CoversSegment
    <3>5. CASE Loaded(h)
      <4>1. Page(h.vaddr) > p
        BY <3>1, <3>5, <1>7, <1>h
      <4>2. Page(h.vaddr) \in Nat /\ p \in Nat
        <5>1. h.vaddr \in Nat /\ phdr[m].vaddr \in Nat
          BY <1>4, <3>3, HdrIs
        <5>2. Page(h.vaddr) \in Nat /\ Page(phdr[m].vaddr) \in Nat
          BY <5>1, PageMonotone
        <5>3. Page(Word) \in Nat
          BY PageMonotone, ConstantsAssumption
        <5>4. p \in 0..Page(Word)
          BY <3>4 DEF Pages
        <5> QED BY <5>2, <5>3, <5>4
      <4>3. p \notin Covered(h)
        <5> DEFINE a == Page(h.vaddr)
                   b == Page(h.vaddr + Round(h.memsz) - 1)
        <5>1. Covered(h) = a..b /\ a > p /\ a \in Nat
          BY <4>1, <4>2 DEF Covered
        <5> HIDE DEF a, b
        <5> QED BY <5>1, <4>2
      <4> QED BY <3>2, <3>4, <3>5, <4>3, <1>1, <1>7
    <3>6. CASE ~Loaded(h)
      BY <3>2, <3>6, <1>1
    <3> QED BY <3>5, <3>6
  <2> QED BY <2>1, <2>2
<1>8. ~e => Flagged(phdr, prot', k + 1)
  BY <1>7 DEF Flagged
<1>9. ~error' => Flagged(phdr', prot', k')
  BY <1>1, <1>8
<1> QED
  BY <1>1, <1>6, <1>9 DEF FlagInv

LEMMA FlagsInductive == BoundsInv /\ FlagInv /\ [Next]_vars => FlagInv'
<1> SUFFICES ASSUME BoundsInv, FlagInv, [Next]_vars PROVE FlagInv'
  OBVIOUS
<1> DEFINE Else == /\ UNCHANGED <<prot, error>>
                   /\ pc' \notin {"protect", "sync", "done"}
<1>0. Else => FlagInv'
  BY DEF FlagInv
<1>1. CASE (\E e \in Envs : Environ(e)) \/ NoEnviron \/ CountVar \/ MapEnviron
           \/ CopyVar \/ PointEnviron \/ MapEnvironFails \/ CopyFails
  <2>1. Else
    BY <1>1 DEF Environ, NoEnviron, CountVar, MapEnviron, CopyVar, PointEnviron,
                MapEnvironFails, CopyFails, EnvironReturns, loadvars
  <2> QED BY <2>1, <1>0
<1>2. CASE BeginLoad \/ NotAnElf \/ ScanHeader \/ Reserve \/ ReserveFails
           \/ MapMirror \/ MapMirrorFails \/ LoadSegment
  <2>1. Else
    BY <1>2 DEF BeginLoad, NotAnElf, ScanHeader, Reserve, ReserveFails, MapMirror,
                MapMirrorFails, LoadSegment, loadvars
  <2> QED BY <2>1, <1>0
<1>3. CASE \E x \in RelocSites(phdr) : Relocate(x)
  <2>1. Else
    BY <1>3 DEF Relocate
  <2> QED BY <2>1, <1>0
<1>4. CASE EndProtect
  <2>1. /\ pc = "protect" /\ pc' = "sync" /\ (k = Len(phdr) \/ error)
        /\ UNCHANGED <<prot, error, phdr>>
    BY <1>4 DEF EndProtect, loadvars
  <2> QED BY <2>1 DEF FlagInv
<1>5. ASSUME NEW e \in BOOLEAN, CopyImage(e) PROVE FlagInv'
  <2>1. /\ error' = e /\ k' = 0 /\ pc' = (IF e THEN "sync" ELSE "protect")
        /\ prot' = prot
    BY <1>5 DEF CopyImage
  <2>2. Flagged(phdr', prot', 0)
    BY DEF Flagged
  <2> QED BY <2>1, <2>2 DEF FlagInv
<1>6. ASSUME NEW e \in BOOLEAN, Protect(e) PROVE FlagInv'
  BY <1>6, FlagsProtect
<1>7. ASSUME NEW e \in BOOLEAN, Sync(e) PROVE FlagInv'
  <2>1. /\ pc = "sync" /\ error' = (error \/ e) /\ UNCHANGED <<prot, phdr>>
        /\ pc' = IF error' THEN "failed" ELSE "done"
    BY <1>7 DEF Sync
  <2>2. CASE error \/ e
    BY <2>1, <2>2 DEF FlagInv
  <2>3. CASE ~error /\ ~e
    BY <2>1, <2>3 DEF FlagInv
  <2> QED BY <2>2, <2>3
<1>8. CASE UNCHANGED vars
  <2>1. UNCHANGED <<prot, phdr, k, error, pc>>
    BY <1>8 DEF vars
  <2> QED BY <2>1 DEF FlagInv
<1> QED
  BY <1>1, <1>2, <1>3, <1>4, <1>5, <1>6, <1>7, <1>8 DEF Next

LEMMA FlagsInitial == Init => FlagInv
<1>1. MaxHdrs \in Nat /\ 0 \in 0..MaxHdrs
  BY ConstantsAssumption
<1> QED
  BY <1>1 DEF Init, FlagInv

\* For any headers: a process whose image was loaded has on every page of a
\* segment the flags of the last segment there.
THEOREM FlagsAsLoaded == Spec => []FlagsOfSegment
<1>1. BoundsInv /\ FlagInv => FlagsOfSegment
  BY DEF FlagInv, FlagsOfSegment, Flagged, Loaded
<1> QED
  BY <1>1, BoundsInitial, BoundsInductive, FlagsInitial, FlagsInductive, PTL DEF Spec

-----------------------------------------------------------------------------
(* Types. *)

Typed == EnvironInv /\ BoundsInv /\ FlagInv /\ StageInv

TypeInv == type \in {"none", "ET_DYN", "ET_EXEC", "other"}

LEMMA TypeFollows == Typed /\ TypeInv => TypeOK
<1> SUFFICES ASSUME Typed, TypeInv PROVE TypeOK
  OBVIOUS
<1>1. ASSUME pc \in {"strings", "mirror", "segments", "protect", "sync"}
      PROVE  esize % PageSize = 0 /\ size % PageSize = 0
  <2>0. 0 % PageSize = 0
    <3>1. PageSize \in Nat \ {0} /\ 0 \in 0..(PageSize - 1)
      BY ConstantsAssumption
    <3> QED BY <3>1, SmallMod
  <2>1. CASE pc = "strings"
    <3>1. size = 0
      BY <2>1 DEF Typed, BoundsInv, Early
    <3>2. PICK f : LET a == Len(env)
                   IN /\ Sums(env, f, a)
                      /\ Ptr + (a * Ptr + f[a]) + PageSize <= Word
                      /\ esize = Round(Ptr + (a * Ptr + f[a]))
      BY <2>1 DEF Typed, EnvironInv, Round, Trunc
    <3> DEFINE a == Len(env)
               s == Ptr + (a * Ptr + f[a])
    <3>3. a \in Nat /\ Ptr \in Nat
      BY EnvIs, ConstantsAssumption DEF Typed, EnvironInv
    <3>4. f[a] \in Nat
      BY <3>2, <3>3 DEF Sums
    <3>5. s \in Nat
      <4>1. a * Ptr \in Nat
        BY <3>3
      <4> QED BY <3>3, <3>4, <4>1
    <3>6. s + PageSize <= Word /\ esize = Round(s)
      BY <3>2
    <3> HIDE DEF s
    <3> QED BY <2>0, <3>1, <3>5, <3>6, RoundIs
  <2>2. CASE pc # "strings"
    <3>1. esize = 0
      BY <1>1, <2>2 DEF Typed, EnvironInv
    <3>2. size % PageSize = 0
      BY <1>1, <2>2 DEF Typed, BoundsInv, Reserved
    <3> QED BY <2>0, <3>1, <3>2
  <2> QED BY <2>1, <2>2
<1>2. \A m \in 1..Len(phdr) : phdr[m] \in Hdr
  BY ElementOfSeq DEF Typed, BoundsInv
<1>3. /\ env \in Envs /\ n \in 0..Len(env) /\ esize \in 0..(Word - 1) /\ epos \in Nat
  BY DEF Typed, EnvironInv
<1>4. /\ Len(phdr) <= MaxHdrs /\ k \in 0..Len(phdr) /\ hi \in Nat
      /\ min \in 0..(Word - 1) /\ max \in 0..(Word - 1) /\ size \in 0..(Word - 1)
  BY DEF Typed, BoundsInv
<1>5. prot \in [Pages -> 0..MaxHdrs] /\ error \in BOOLEAN
  BY DEF Typed, FlagInv
<1>6. /\ pc \in {"start", "count", "strings", "loaded env", "bounds", "mirror",
                 "segments", "protect", "sync", "done", "failed"}
      /\ eblock \in {"none", "mapped", "used", "unmapped"}
      /\ mirror \in {"none", "mapped", "unmapped"}
      /\ region \in {"none", "mapped", "unmapped"}
  <2>1. StageInv
    BY DEF Typed
  <2> QED BY <2>1 DEF StageInv, Early
<1> QED
  BY <1>1, <1>2, <1>3, <1>4, <1>5, <1>6 DEF TypeOK, TypeInv

\* Types of ElfMemory; in particular, sizes given to mmap() are in whole pages
\* and in a word.
THEOREM ElfMemoryTypes == Spec => []TypeOK
<1>1. Init => TypeInv
  BY DEF Init, TypeInv
<1>2. TypeInv /\ [Next]_vars => TypeInv'
  <2> SUFFICES ASSUME TypeInv, [Next]_vars PROVE TypeInv'
    OBVIOUS
  <2>1. \/ type' = type
        \/ type' \in {"ET_DYN", "ET_EXEC", "other"}
    BY DEF Next, Environ, NoEnviron, CountVar, MapEnviron, CopyVar, PointEnviron,
           MapEnvironFails, CopyFails, EnvironReturns, BeginLoad, NotAnElf, ScanHeader,
           Reserve, ReserveFails, MapMirror, MapMirrorFails, LoadSegment, Relocate,
           EndProtect, CopyImage, Protect, Sync, loadvars, vars
  <2> QED BY <2>1 DEF TypeInv
<1>3. Spec => []StageInv
  BY StageInitial, StageInductive, PTL DEF Spec
<1>4. EnvironInv /\ BoundsInv /\ FlagInv /\ StageInv => Typed
  BY DEF Typed
<1> QED
  BY <1>1, <1>2, <1>3, <1>4, TypeFollows, EnvironInitial, EnvironInductive, BoundsInitial,
     BoundsInductive, FlagsInitial, FlagsInductive, PTL DEF Spec
=============================================================================
