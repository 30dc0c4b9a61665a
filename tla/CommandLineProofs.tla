------------------------- MODULE CommandLineProofs -------------------------
(***************************************************************************)
(* Theorems about CommandLine, for lines of any length and any limits on   *)
(* tokens and commands.                                                    *)
(***************************************************************************)
EXTENDS CommandLine, Integers, SequenceTheorems, FiniteSetTheorems,
        WellFoundedInduction, TLAPS

-----------------------------------------------------------------------------
(* Numbers, and pieces of sequences. *)

LEMMA LeastNatural ==
    ASSUME NEW T \in SUBSET Nat, T # {}
    PROVE  \E x \in T : \A y \in T : x <= y
<1> DEFINE R == OpToRel(<, Nat)
<1>1. IsWellFoundedOn(R, Nat)
  BY NatLessThanWellFounded
<1>2. \A x, y \in Nat : x < y => <<x, y>> \in R
  BY DEF OpToRel
<1> HIDE DEF R
<1>3. PICK x \in T : \A y \in T : ~ (<<y, x>> \in R)
  BY <1>1, WFMin
<1>4. \A y \in T : ~(y < x)
  BY <1>2, <1>3
<1> QED
  BY <1>4

LEMMA GreatestNatural ==
    ASSUME NEW b \in Nat, NEW T \in SUBSET (1..b), T # {}
    PROVE  \E x \in T : \A y \in T : x >= y
<1> DEFINE U == {u \in Nat : \E t \in T : u = b - t}
<1>1. U \in SUBSET Nat /\ U # {}
  <2>1. PICK t \in T : TRUE
    OBVIOUS
  <2>2. b - t \in Nat
    OBVIOUS
  <2>3. b - t \in U
    BY <2>2
  <2> QED BY <2>3
<1>2. PICK u \in U : \A v \in U : u <= v
  BY <1>1, LeastNatural
<1>3. PICK t \in T : u = b - t
  OBVIOUS
<1>4. ASSUME NEW y \in T PROVE t >= y
  <2>1. b - y \in U
    OBVIOUS
  <2>2. b - t <= b - y
    BY <1>2, <1>3, <2>1
  <2> QED BY <2>2
<1> QED
  BY <1>4

LEMMA PieceIs ==
    ASSUME NEW S, NEW s \in Seq(S), NEW a \in Nat \ {0}, NEW b \in Nat, b <= Len(s)
    PROVE  /\ SubSeq(s, a, b) \in Seq(S)
           /\ Len(SubSeq(s, a, b)) = IF a <= b THEN b - a + 1 ELSE 0
           /\ Len(SubSeq(s, a, b)) <= b
           /\ \A m \in 1..(b - a + 1) : SubSeq(s, a, b)[m] = s[a + m - 1]
<1>1. \A m \in a..b : s[m] \in S
  <2>1. \A m \in a..b : m \in 1..Len(s)
    OBVIOUS
  <2> QED BY <2>1, ElementOfSeq
<1>2. a \in Int /\ b \in Int
  OBVIOUS
<1>3. /\ SubSeq(s, a, b) \in Seq(S)
      /\ Len(SubSeq(s, a, b)) = IF a <= b THEN b - a + 1 ELSE 0
      /\ \A m \in 1..(b - a + 1) : SubSeq(s, a, b)[m] = s[a + m - 1]
  BY <1>1, <1>2, SubSeqProperties
<1> QED
  BY <1>3

LEMMA TrimIs ==
    ASSUME NEW s \in Seq(Chars)
    PROVE  Trim(s) \in Seq(Chars) /\ Len(Trim(s)) <= Len(s)
<1>1. CASE Inner(s) = {}
  <2>1. Trim(s) = <<>>
    BY <1>1 DEF Trim
  <2>2. <<>> \in Seq(Chars) /\ Len(<<>>) = 0 /\ Len(s) \in Nat
    OBVIOUS
  <2> QED BY <2>1, <2>2
<1>2. CASE Inner(s) # {}
  <2> DEFINE a == CHOOSE k \in Inner(s) : \A m \in Inner(s) : k <= m
             b == CHOOSE k \in Inner(s) : \A m \in Inner(s) : k >= m
  <2>1. Len(s) \in Nat /\ Inner(s) \in SUBSET (1..Len(s)) /\ Inner(s) \in SUBSET Nat
    <3>1. Len(s) \in Nat
      OBVIOUS
    <3>2. Inner(s) \subseteq 1..Len(s)
      BY DEF Inner
    <3>3. \A x \in 1..Len(s) : x \in Nat
      BY <3>1
    <3> QED BY <3>1, <3>2, <3>3
  <2>2. a \in Inner(s)
    BY <1>2, <2>1, LeastNatural
  <2>3. b \in Inner(s)
    BY <1>2, <2>1, GreatestNatural
  <2>4. Trim(s) = SubSeq(s, a, b)
    BY <1>2 DEF Trim
  <2> HIDE DEF a, b
  <2>5. a \in Nat \ {0} /\ b \in Nat /\ b <= Len(s)
    BY <2>1, <2>2, <2>3
  <2>6. SubSeq(s, a, b) \in Seq(Chars) /\ Len(SubSeq(s, a, b)) <= b
    BY <2>5, PieceIs
  <2>7. Len(SubSeq(s, a, b)) \in Nat
    BY <2>6
  <2> QED BY <2>1, <2>4, <2>5, <2>6, <2>7
<1> QED
  BY <1>1, <1>2

LEMMA UnquoteIs ==
    ASSUME NEW t \in Seq(Chars)
    PROVE  Unquote(t) \in Seq(Chars)
<1>1. Len(t) \in Nat
  OBVIOUS
<1>2. ASSUME Len(t) >= 2 PROVE SubSeq(t, 2, Len(t) - 1) \in Seq(Chars)
  <2>1. 2 \in Nat \ {0} /\ Len(t) - 1 \in Nat /\ Len(t) - 1 <= Len(t)
    BY <1>1, <1>2
  <2> QED BY <2>1, PieceIs
<1> QED
  BY <1>2 DEF Unquote

-----------------------------------------------------------------------------
(* Types. *)

\* The arrays and the places in them.
TypeInv ==
    /\ pc \in {"read", "scan", "word", "build", "command", "closed"}
    /\ line \in Seq(Chars) /\ Len(line) < MaxLine
    /\ pos \in Nat \ {0} /\ start \in Nat \ {0} /\ start <= pos
    /\ pos <= Len(line) + 1 /\ inq \in BOOLEAN
    /\ toks \in Seq(Seq(Chars)) /\ Len(toks) <= MaxToks
    /\ i \in 0..Len(toks)
    /\ argv \in Seq(Seq(Chars)) /\ Len(argv) <= i
    /\ cmds \in Seq(Seq(Seq(Chars))) /\ Len(cmds) <= MaxPipe
    /\ redir \in Seq(Chars) \cup {NoFile} /\ append \in BOOLEAN
    /\ over \subseteq {"toks", "argv"}
    /\ pc = "command" => Len(cmds) < MaxPipe
    /\ pc \in {"read", "scan", "word"} => i = 0 /\ argv = <<>> /\ cmds = <<>>
    /\ pc = "read" => pos = 1 /\ start = 1 /\ toks = <<>>

LEMMA EmptyIs ==
    /\ <<>> \in Seq(Chars) /\ <<>> \in Seq(Seq(Chars)) /\ <<>> \in Seq(Seq(Seq(Chars)))
    /\ Len(<<>>) = 0 /\ 0 \in 0..0
    /\ Len(<<>>) < MaxLine /\ Len(<<>>) <= MaxToks /\ Len(<<>>) <= MaxPipe /\ Len(<<>>) <= 0
    /\ 1 \in Nat \ {0} /\ 1 <= 1 /\ 1 <= Len(<<>>) + 1 /\ 0 \in 0..Len(<<>>)
<1>1. MaxLine \in Nat \ {0} /\ MaxToks \in Nat \ {0} /\ MaxPipe \in Nat \ {0}
  BY ConstantsAssumption
<1> QED
  BY <1>1

LEMMA TypeInitial == Init => TypeInv
BY EmptyIs DEF Init, TypeInv

LEMMA TypeBack ==
    ASSUME NEW label \in {"read", "closed"}, NEW freed, Back(label, freed)
    PROVE  TypeInv'
BY EmptyIs DEF Back, TypeInv

LEMMA TypeRead ==
    ASSUME TypeInv, (\E c \in Chars : ReadChar(c)) \/ EndLine \/ Hangup
    PROVE  TypeInv'
<1>0. MaxLine \in Nat \ {0} /\ line \in Seq(Chars) /\ Len(line) \in Nat
  BY ConstantsAssumption DEF TypeInv
<1>1. ASSUME NEW c \in Chars, ReadChar(c) PROVE TypeInv'
  <2>1. /\ line' = Append(line, c) /\ Len(line) + 1 < MaxLine /\ pc = "read"
        /\ UNCHANGED <<pc, pos, start, inq, toks, i, argv, cmds, redir, append, over>>
    BY <1>1 DEF ReadChar, building
  <2>2. line' \in Seq(Chars) /\ Len(line') = Len(line) + 1
    BY <2>1, <1>0, AppendProperties
  <2>3. Len(line') < MaxLine /\ pos <= Len(line') + 1
    <3>1. pos = 1
      BY <2>1 DEF TypeInv
    <3> QED BY <3>1, <2>1, <2>2, <1>0
  <2> QED BY <2>1, <2>2, <2>3 DEF TypeInv
<1>2. CASE EndLine
  <2>1. /\ line' = Trim(line) /\ pc' \in {"read", "scan"} /\ pc = "read"
        /\ UNCHANGED <<pos, start, inq, toks, i, argv, cmds, redir, append, over>>
    BY <1>2 DEF EndLine, building
  <2>2. line' \in Seq(Chars) /\ Len(line') <= Len(line)
    BY <2>1, <1>0, TrimIs
  <2>3. Len(line') \in Nat
    BY <2>2
  <2>4. Len(line') < MaxLine /\ pos <= Len(line') + 1
    <3>1. pos = 1 /\ Len(line) < MaxLine
      BY <2>1 DEF TypeInv
    <3> QED BY <3>1, <2>2, <2>3, <1>0
  <2> QED BY <2>1, <2>2, <2>4 DEF TypeInv
<1>3. CASE Hangup
  BY <1>3 DEF Hangup, scanning, building, TypeInv
<1> QED
  BY <1>1, <1>2, <1>3

LEMMA TypeTokenize ==
    ASSUME TypeInv, Tokenize
    PROVE  TypeInv'
<1>0. /\ MaxToks \in Nat \ {0} /\ line \in Seq(Chars) /\ Len(line) \in Nat
      /\ toks \in Seq(Seq(Chars)) /\ Len(toks) \in Nat /\ Len(toks) <= MaxToks
      /\ pos \in Nat \ {0} /\ start \in Nat \ {0} /\ start <= pos /\ pos <= Len(line) + 1
  BY ConstantsAssumption DEF TypeInv
<1>t. \A k \in Nat : At(k) # "end" => k <= Len(line)
  BY <1>0 DEF At
<1>1. CASE EndScan
  BY <1>1 DEF EndScan, Terminate, scanning, building, TypeInv
<1>2. CASE SkipSpace
  <2>1. /\ pos' = pos + 1 /\ At(pos) # "end" /\ pc = "scan"
        /\ UNCHANGED <<pc, line, start, inq, toks, i, argv, cmds, redir, append, over>>
    BY <1>2 DEF SkipSpace, building
  <2>2. pos' \in Nat \ {0} /\ start <= pos' /\ pos' <= Len(line) + 1
    BY <1>0, <1>t, <2>1
  <2> QED BY <2>1, <2>2 DEF TypeInv
<1>3. CASE ScanSign
  <2>0. pc = "scan" /\ UNCHANGED <<line, start, inq, i, argv, cmds, redir, append>>
    BY <1>3 DEF ScanSign, building
  <2>1. CASE Len(toks) < MaxToks
    <3>1. PICK w \in {1, 2} : Operator(w) /\ (w = 2 => At(pos + 1) # "end")
      BY <1>3, <2>1 DEF ScanSign
    <3>2. pos <= Len(line) /\ pos + w <= Len(line) + 1
      <4>1. At(pos) # "end"
        BY <1>3 DEF ScanSign, Signs
      <4>2. pos <= Len(line) /\ (w = 2 => pos + 1 <= Len(line))
        <5>1. pos \in Nat /\ pos + 1 \in Nat
          BY <1>0
        <5> QED BY <1>t, <3>1, <4>1, <5>1
      <4> QED BY <1>0, <4>2
    <3> DEFINE t == SubSeq(line, pos, pos + w - 1)
    <3>3. t \in Seq(Chars)
      <4>1. pos + w - 1 \in Nat /\ pos + w - 1 <= Len(line)
        BY <1>0, <3>2
      <4> QED BY <1>0, <4>1, PieceIs
    <3>4. toks' = Append(toks, t) /\ pos' = pos + w /\ UNCHANGED <<pc, over>>
      BY <3>1 DEF Operator
    <3> HIDE DEF t
    <3>5. toks' \in Seq(Seq(Chars)) /\ Len(toks') = Len(toks) + 1
      BY <1>0, <3>3, <3>4, AppendProperties
    <3>6. /\ Len(toks') <= MaxToks /\ 0 \in 0..Len(toks')
          /\ pos' \in Nat \ {0} /\ start <= pos' /\ pos' <= Len(line) + 1
      BY <1>0, <2>1, <3>2, <3>4, <3>5
    <3> QED BY <2>0, <3>4, <3>5, <3>6 DEF TypeInv
  <2>2. CASE ~(Len(toks) < MaxToks)
    <3>1. Terminate /\ UNCHANGED <<toks, pos>>
      BY <1>3, <2>2 DEF ScanSign
    <3> QED BY <2>0, <3>1 DEF Terminate, TypeInv
  <2> QED BY <2>1, <2>2
<1>4. CASE BeginWord
  <2>1. /\ pc = "scan" /\ pc' = "word" /\ start' = pos /\ inq' = FALSE
        /\ UNCHANGED <<line, pos, toks, i, argv, cmds, redir, append, over>>
    BY <1>4 DEF BeginWord, building
  <2>2. start' <= pos
    BY <1>0, <2>1
  <2> QED BY <2>1, <2>2 DEF TypeInv
<1>5. CASE WordChar
  <2>1. /\ pc = "word" /\ pos' = pos + 1 /\ inq' \in BOOLEAN /\ At(pos) # "end"
        /\ UNCHANGED <<pc, line, start, toks, i, argv, cmds, redir, append, over>>
    BY <1>5 DEF WordChar, InWord, building
  <2>2. pos' \in Nat \ {0} /\ start <= pos' /\ pos' <= Len(line) + 1
    BY <1>0, <1>t, <2>1
  <2> QED BY <2>1, <2>2 DEF TypeInv
<1>6. CASE EndWord
  <2> DEFINE t == Unquote(SubSeq(line, start, pos - 1))
  <2>1. /\ pc = "word" /\ pc' = "scan"
        /\ toks' = IF Len(toks) < MaxToks THEN Append(toks, t) ELSE toks
        /\ UNCHANGED <<line, pos, start, inq, i, argv, cmds, redir, append, over>>
    BY <1>6 DEF EndWord, building
  <2>2. t \in Seq(Chars)
    <3>1. pos - 1 \in Nat /\ pos - 1 <= Len(line)
      BY <1>0
    <3> QED BY <1>0, <3>1, PieceIs, UnquoteIs
  <2> HIDE DEF t
  <2>3. toks' \in Seq(Seq(Chars)) /\ Len(toks') <= MaxToks /\ Len(toks') \in Nat
    <3>1. Append(toks, t) \in Seq(Seq(Chars)) /\ Len(Append(toks, t)) = Len(toks) + 1
      BY <1>0, <2>2, AppendProperties
    <3> QED BY <1>0, <2>1, <3>1
  <2>4. 0 \in 0..Len(toks')
    BY <2>3
  <2> QED BY <2>1, <2>3, <2>4 DEF TypeInv
<1> QED
  BY <1>1, <1>2, <1>3, <1>4, <1>5, <1>6 DEF Tokenize

\* The words of a command become the next element of cmds[].
LEMMA CommandClosed ==
    ASSUME TypeInv, pc = "command", CloseCommand
    PROVE  /\ pc' = "build" /\ over' \subseteq {"toks", "argv"}
           /\ cmds' \in Seq(Seq(Seq(Chars))) /\ Len(cmds') <= MaxPipe
<1>1. /\ cmds \in Seq(Seq(Seq(Chars))) /\ argv \in Seq(Seq(Chars)) /\ Len(cmds) < MaxPipe
      /\ Len(cmds) \in Nat /\ MaxPipe \in Nat /\ over \subseteq {"toks", "argv"}
  BY ConstantsAssumption DEF TypeInv
<1>2. /\ Append(cmds, argv) \in Seq(Seq(Seq(Chars)))
      /\ Len(Append(cmds, argv)) = Len(cmds) + 1
  BY <1>1, AppendProperties
<1>3. Len(Append(cmds, argv)) <= MaxPipe /\ Len(cmds) <= MaxPipe
  BY <1>1, <1>2
<1> QED
  BY <1>1, <1>2, <1>3 DEF CloseCommand

LEMMA TypeBuild ==
    ASSUME TypeInv, Build
    PROVE  TypeInv'
<1>0. /\ toks \in Seq(Seq(Chars)) /\ Len(toks) \in Nat /\ i \in 0..Len(toks) /\ i \in Nat
      /\ argv \in Seq(Seq(Chars)) /\ Len(argv) \in Nat /\ Len(argv) <= i
      /\ Len(cmds) \in Nat /\ MaxPipe \in Nat
  BY ConstantsAssumption DEF TypeInv
<1>1. CASE NewCommand
  <2>1. CASE Len(cmds) >= MaxPipe
    BY <1>1, <2>1, TypeBack DEF NewCommand, ParseError
  <2>2. CASE ~(Len(cmds) >= MaxPipe)
    <3>1. /\ pc' = "command" /\ argv' = <<>>
          /\ UNCHANGED <<line, pos, start, inq, toks, i, cmds, redir, append, over>>
      BY <1>1, <2>2 DEF NewCommand, scanning
    <3>2. Len(cmds) < MaxPipe /\ Len(<<>>) <= i /\ <<>> \in Seq(Seq(Chars))
      BY <1>0, <2>2
    <3> QED BY <3>1, <3>2 DEF TypeInv
  <2> QED BY <2>1, <2>2
<1>2. CASE TakeWord
  <2> DEFINE t == toks[i + 1]
  <2>1. /\ pc = "command" /\ i < Len(toks) /\ argv' = Append(argv, t) /\ i' = i + 1
        /\ UNCHANGED <<pc, line, pos, start, inq, toks, cmds, redir, append, over>>
    BY <1>2 DEF TakeWord, scanning
  <2>2. t \in Seq(Chars)
    <3>1. i + 1 \in 1..Len(toks)
      BY <1>0, <2>1
    <3> QED BY <1>0, <3>1, ElementOfSeq
  <2> HIDE DEF t
  <2>3. argv' \in Seq(Seq(Chars)) /\ Len(argv') = Len(argv) + 1
    BY <1>0, <2>1, <2>2, AppendProperties
  <2>4. Len(argv') <= i' /\ i' \in 0..Len(toks)
    BY <1>0, <2>1, <2>3
  <2> QED BY <2>1, <2>3, <2>4 DEF TypeInv
<1>3. CASE TakeBar
  <2>1. /\ pc = "command" /\ i < Len(toks) /\ i' = i + 1 /\ CloseCommand
        /\ UNCHANGED <<line, pos, start, inq, toks, argv, redir, append>>
    BY <1>3 DEF TakeBar, scanning
  <2>2. Len(argv) <= i' /\ i' \in 0..Len(toks)
    BY <1>0, <2>1
  <2> QED BY <2>1, <2>2, CommandClosed DEF TypeInv
<1>4. CASE TakeRedirection
  <2>0. pc = "command" /\ i < Len(toks)
    BY <1>4 DEF TakeRedirection
  <2>1. CASE i + 1 >= Len(toks)
    BY <1>4, <2>1, TypeBack DEF TakeRedirection, ParseError
  <2>2. CASE ~(i + 1 >= Len(toks))
    <3>1. /\ redir' = toks[i + 2] /\ append' \in BOOLEAN /\ i' = i + 2 /\ CloseCommand
          /\ UNCHANGED <<line, pos, start, inq, toks, argv>>
      BY <1>4, <2>2 DEF TakeRedirection, scanning
    <3>2. Len(argv) <= i' /\ i' \in 0..Len(toks) /\ i + 2 \in 1..Len(toks)
      BY <1>0, <2>2, <3>1
    <3>3. redir' \in Seq(Chars)
      BY <1>0, <3>1, <3>2, ElementOfSeq
    <3> QED BY <2>0, <3>1, <3>2, <3>3, CommandClosed DEF TypeInv
  <2> QED BY <2>1, <2>2
<1>5. CASE TokensEnd
  <2>1. /\ pc = "command" /\ CloseCommand
        /\ UNCHANGED <<line, pos, start, inq, toks, i, argv, redir, append>>
    BY <1>5 DEF TokensEnd, scanning
  <2> QED BY <2>1, CommandClosed DEF TypeInv
<1>6. CASE Execute
  BY <1>6, TypeBack DEF Execute
<1> QED
  BY <1>1, <1>2, <1>3, <1>4, <1>5, <1>6 DEF Build

LEMMA TypeInductive == TypeInv /\ [Next]_vars => TypeInv'
<1> SUFFICES ASSUME TypeInv, [Next]_vars PROVE TypeInv'
  OBVIOUS
<1>1. CASE UNCHANGED vars
  BY <1>1 DEF vars, TypeInv
<1> QED
  BY <1>1, TypeRead, TypeTokenize, TypeBuild DEF Next

\* Types of CommandLine: lines, tokens and commands within their limits.
THEOREM CommandLineTypes == Spec => []TypeOK
<1>1. TypeInv => TypeOK
  BY DEF TypeInv, TypeOK
<1> QED
  BY <1>1, TypeInitial, TypeInductive, PTL DEF Spec

-----------------------------------------------------------------------------
(* The grammar of a line, one character further. *)

LEMMA SameGrammar ==
    ASSUME line' = line
    PROVE  /\ Starts' = Starts
           /\ \A k : Extent(k)' = Extent(k)
           /\ \A k : Quoted(k)' = Quoted(k)
           /\ \A k : IsBreak(k)' = IsBreak(k)
           /\ \A k : IsGreater(k)' = IsGreater(k)
           /\ \A k : Adjacent(IsGreater, k)' = Adjacent(IsGreater, k)
BY DEF Starts, Extent, Quoted, IsBreak, IsGreater, Adjacent

LEMMA BoundedCount ==
    ASSUME NEW b \in Nat, NEW S \in SUBSET (1..b)
    PROVE  IsFiniteSet(S) /\ Cardinality(S) \in Nat /\ Cardinality(S) <= b
<1>1. IsFiniteSet(1..b) /\ Cardinality(1..b) = IF 1 > b THEN 0 ELSE b - 1 + 1
  BY FS_Interval
<1>2. Cardinality(1..b) = b
  BY <1>1
<1>3. IsFiniteSet(S) /\ Cardinality(S) <= Cardinality(1..b)
  BY <1>1, FS_Subset
<1> QED
  BY <1>2, <1>3, FS_CardinalityType

LEMMA Parity ==
    ASSUME NEW x \in Nat
    PROVE  /\ x % 2 \in {0, 1} /\ ((x + 1) % 2 = 1 <=> x % 2 # 1)
           /\ ((x + 1) % 2 = 0 <=> x % 2 # 0) /\ (x + 2) % 2 = x % 2
BY SMT

LEMMA QuotedFirst == ~Quoted(1)
<1>1. {m \in 1..(1 - 1) : line[m] = Quote} = {}
  OBVIOUS
<1>2. Cardinality({m \in 1..(1 - 1) : line[m] = Quote}) = 0
  BY <1>1, FS_EmptySet
<1>3. 0 % 2 # 1
  OBVIOUS
<1> QED
  BY <1>2, <1>3 DEF Quoted

LEMMA QuotedNext ==
    ASSUME NEW k \in Nat \ {0}
    PROVE  Quoted(k + 1) <=> (Quoted(k) <=> line[k] # Quote)
<1> DEFINE Q(x) == {m \in 1..(x - 1) : line[m] = Quote}
<1>1. (k + 1) - 1 = k /\ k - 1 \in Nat
  OBVIOUS
<1>2. Q(k) \in SUBSET (1..(k - 1)) /\ k \notin Q(k)
  OBVIOUS
<1>3. IsFiniteSet(Q(k)) /\ Cardinality(Q(k)) \in Nat
  BY <1>1, <1>2, BoundedCount
<1>4. CASE line[k] = Quote
  <2>1. Q(k + 1) = Q(k) \cup {k}
    BY <1>1, <1>4
  <2>2. Cardinality(Q(k + 1)) = Cardinality(Q(k)) + 1
    <3> HIDE DEF Q
    <3> QED BY <1>2, <1>3, <2>1, FS_AddElement
  <2> DEFINE c == Cardinality(Q(k))
  <2>3. Quoted(k) = (c % 2 = 1) /\ Quoted(k + 1) = (Cardinality(Q(k + 1)) % 2 = 1)
    BY DEF Quoted
  <2> HIDE DEF Q
  <2>4. (c + 1) % 2 = 1 <=> c % 2 # 1
    BY <1>3, Parity
  <2> QED BY <1>4, <2>2, <2>3, <2>4
<1>5. CASE line[k] # Quote
  <2>1. Q(k + 1) = Q(k)
    BY <1>1, <1>5
  <2>2. Quoted(k) = (Cardinality(Q(k)) % 2 = 1) /\ Quoted(k + 1) = (Cardinality(Q(k + 1)) % 2 = 1)
    BY DEF Quoted
  <2> HIDE DEF Q
  <2> QED BY <1>5, <2>1, <2>2
<1> QED
  BY <1>4, <1>5

\* The stretch of elements of Q that ends before x.
Stretch(Q, x) == {m \in 1..(x - 1) : \A y \in m..(x - 1) : y \in Q}

LEMMA StretchNext ==
    ASSUME NEW Q, NEW k \in Nat \ {0}
    PROVE  /\ Cardinality(Stretch(Q, k)) \in Nat
           /\ k \notin Q => Cardinality(Stretch(Q, k + 1)) = 0
           /\ k \in Q => Cardinality(Stretch(Q, k + 1)) = Cardinality(Stretch(Q, k)) + 1
<1>1. (k + 1) - 1 = k /\ k - 1 \in Nat
  OBVIOUS
<1>2. Stretch(Q, k) \in SUBSET (1..(k - 1)) /\ k \notin Stretch(Q, k)
  BY DEF Stretch
<1>3. IsFiniteSet(Stretch(Q, k)) /\ Cardinality(Stretch(Q, k)) \in Nat
  BY <1>1, <1>2, BoundedCount
<1>4. ASSUME k \notin Q PROVE Stretch(Q, k + 1) = {}
  <2>1. \A m \in 1..((k + 1) - 1) : k \in m..((k + 1) - 1)
    BY <1>1
  <2> QED BY <1>4, <2>1 DEF Stretch
<1>5. ASSUME k \in Q PROVE Stretch(Q, k + 1) = Stretch(Q, k) \cup {k}
  <2>1. \A m \in 1..k : \A y \in m..k : y = k \/ (y \in m..(k - 1) /\ m \in 1..(k - 1))
    OBVIOUS
  <2>2. \A m \in 1..k : m = k \/ m \in 1..(k - 1)
    OBVIOUS
  <2>3. \A m \in 1..(k - 1) : m \in 1..k /\ \A y \in m..(k - 1) : y \in m..k
    OBVIOUS
  <2>4. k \in 1..k /\ \A y \in k..k : y = k
    OBVIOUS
  <2> DEFINE P(m) == \A y \in m..k : y \in Q
  <2>5. Stretch(Q, k + 1) = {m \in 1..k : P(m)}
    BY <1>1 DEF Stretch
  <2>6. \A m \in 1..k : P(m) <=> m \in Stretch(Q, k) \/ m = k
    BY <1>5, <2>1, <2>2, <2>3, <2>4 DEF Stretch
  <2>7. Stretch(Q, k) \cup {k} \subseteq 1..k
    BY <2>3, <2>4 DEF Stretch
  <2> HIDE DEF P
  <2> QED BY <2>5, <2>6, <2>7
<1>6. k \in Q => Cardinality(Stretch(Q, k + 1)) = Cardinality(Stretch(Q, k)) + 1
  BY <1>2, <1>3, <1>5, FS_AddElement
<1>7. k \notin Q => Cardinality(Stretch(Q, k + 1)) = 0
  BY <1>4, FS_EmptySet
<1> QED
  BY <1>3, <1>6, <1>7

LEMMA AdjacentNext ==
    ASSUME NEW k \in Nat \ {0}
    PROVE  /\ Adjacent(IsGreater, k) \in Nat
           /\ ~IsGreater(k) => Adjacent(IsGreater, k + 1) = 0
           /\ IsGreater(k) => Adjacent(IsGreater, k + 1) = Adjacent(IsGreater, k) + 1
<1> DEFINE Q == {x \in Nat : IsGreater(x)}
<1>1. \A n \in Nat \ {0} : Adjacent(IsGreater, n) = Cardinality(Stretch(Q, n))
  <2>1. \A n \in Nat \ {0} : \A m \in 1..(n - 1) : \A y \in m..(n - 1) : y \in Nat
    OBVIOUS
  <2> QED BY <2>1 DEF Adjacent, Stretch
<1>2. k \in Q <=> IsGreater(k)
  OBVIOUS
<1> HIDE DEF Q
<1>3. k + 1 \in Nat \ {0}
  OBVIOUS
<1> QED
  BY <1>1, <1>2, <1>3, StretchNext

-----------------------------------------------------------------------------
(* Counting the tokens that begin before a place. *)

Before(k) == {m \in Starts : m < k}
Cnt(k) == Cardinality(Before(k))

LEMMA StartsIs ==
    ASSUME line \in Seq(Chars)
    PROVE  /\ Len(line) \in Nat /\ Starts \in SUBSET (1..Len(line))
           /\ \A m \in Starts : m \in Nat /\ 1 <= m /\ m <= Len(line)
<1>1. Len(line) \in Nat
  OBVIOUS
<1>2. \A m \in Starts : m \in 1..Len(line)
  BY Zenon DEF Starts
<1>3. \A m \in 1..Len(line) : m \in Nat /\ 1 <= m /\ m <= Len(line)
  BY <1>1
<1> QED
  BY <1>1, <1>2, <1>3

LEMMA CntIs ==
    ASSUME line \in Seq(Chars)
    PROVE  /\ \A k : Cnt(k) \in Nat /\ IsFiniteSet(Before(k))
           /\ \A k, m \in Nat : k <= m => Cnt(k) <= Cnt(m)
           /\ IsFiniteSet(Starts) /\ Cardinality(Starts) \in Nat
           /\ \A k : Cnt(k) <= Cardinality(Starts)
           /\ Cnt(Len(line) + 1) = Cardinality(Starts)
           /\ Cnt(1) = 0
<1>0. /\ Len(line) \in Nat /\ Starts \in SUBSET (1..Len(line))
      /\ \A m \in Starts : m \in Nat /\ 1 <= m /\ m <= Len(line)
  BY StartsIs
<1>1. IsFiniteSet(Starts) /\ Cardinality(Starts) \in Nat
  BY <1>0, BoundedCount
<1>2. \A k : Before(k) \in SUBSET Starts
  BY DEF Before
<1>3. \A k : Cnt(k) \in Nat /\ IsFiniteSet(Before(k)) /\ Cnt(k) <= Cardinality(Starts)
  <2> TAKE k
  <2>1. IsFiniteSet(Before(k)) /\ Cardinality(Before(k)) <= Cardinality(Starts)
    BY <1>1, <1>2, FS_Subset
  <2> QED BY <2>1, FS_CardinalityType DEF Cnt
<1>4. \A k, m \in Nat : k <= m => Cnt(k) <= Cnt(m)
  <2> TAKE k \in Nat, m \in Nat
  <2> HAVE k <= m
  <2>0. \A x \in Starts : x < k => x < m
    <3> TAKE x \in Starts
    <3>1. x \in Nat
      BY <1>0
    <3> QED BY <3>1
  <2>1. Before(k) \in SUBSET Before(m)
    BY <2>0 DEF Before
  <2> QED BY <1>3, <2>1, FS_Subset DEF Cnt
<1>b. \A x \in Starts : x < Len(line) + 1 /\ ~(x < 1)
  <2> TAKE x \in Starts
  <2>1. x \in Nat /\ 1 <= x /\ x <= Len(line) /\ Len(line) \in Nat
    BY <1>0
  <2> QED BY <2>1
<1>5. Before(Len(line) + 1) = Starts
  BY <1>b DEF Before
<1>6. Before(1) = {}
  BY <1>b DEF Before
<1>7. Cnt(1) = 0
  BY <1>6, FS_EmptySet DEF Cnt
<1> QED
  BY <1>1, <1>3, <1>4, <1>5, <1>7 DEF Cnt

\* From one token to where the next may begin.
LEMMA CntNext ==
    ASSUME line \in Seq(Chars), NEW p \in Nat \ {0}, NEW q \in Nat, p < q,
           \A x \in (p + 1)..(q - 1) : x \notin Starts
    PROVE  /\ p \in Starts => Cnt(q) = Cnt(p) + 1 /\ Before(q) = Before(p) \cup {p}
           /\ p \notin Starts => Cnt(q) = Cnt(p) /\ Before(q) = Before(p)
<1>0. /\ Len(line) \in Nat /\ Starts \in SUBSET (1..Len(line))
      /\ \A m \in Starts : m \in Nat /\ 1 <= m /\ m <= Len(line)
  BY StartsIs
<1>1. \A m \in Starts : m < q => m < p \/ m = p
  <2> TAKE m \in Starts
  <2> HAVE m < q
  <2>1. m \in Nat
    BY <1>0
  <2>2. m > p => m \in (p + 1)..(q - 1)
    BY <2>1
  <2>3. ~(m > p)
    BY <2>2
  <2> QED BY <2>1, <2>3
<1>2. \A m \in Starts : m < p => m < q
  BY <1>0
<1>3. p \in Starts => Before(q) = Before(p) \cup {p}
  BY <1>1, <1>2 DEF Before
<1>4. p \notin Starts => Before(q) = Before(p)
  BY <1>1, <1>2 DEF Before
<1>5. p \notin Before(p)
  BY DEF Before
<1>6. IsFiniteSet(Before(p))
  BY CntIs
<1>7. p \in Starts => Cnt(q) = Cnt(p) + 1
  BY <1>3, <1>5, <1>6, FS_AddElement DEF Cnt
<1> QED
  BY <1>3, <1>4, <1>7 DEF Cnt

-----------------------------------------------------------------------------
(* The tokens stored so far. *)

Token(k) == Unquote(SubSeq(line, k, Extent(k)))

\* ts holds the tokens that begin before p, as many as there is room for.
Recorded(ts, p) ==
    /\ Len(ts) <= Cnt(p) /\ (Len(ts) < MaxToks => Len(ts) = Cnt(p))
    /\ \A k \in Before(p) :
          Cnt(k) < MaxToks => Cnt(k) < Len(ts) /\ ts[Cnt(k) + 1] = Token(k)

LEMMA RecordNext ==
    ASSUME line \in Seq(Chars), NEW p \in Starts, NEW q \in Nat, p < q,
           \A x \in (p + 1)..(q - 1) : x \notin Starts,
           NEW ts \in Seq(Seq(Chars)), Len(ts) <= MaxToks, Recorded(ts, p),
           Token(p) \in Seq(Chars),
           NEW us, us = IF Len(ts) < MaxToks THEN Append(ts, Token(p)) ELSE ts
    PROVE  Recorded(us, q)
<1>0. MaxToks \in Nat /\ Len(ts) \in Nat /\ p \in Nat \ {0}
  BY StartsIs, ConstantsAssumption
<1>1. Cnt(q) = Cnt(p) + 1 /\ Before(q) = Before(p) \cup {p}
  BY <1>0, CntNext
<1>2. Cnt(p) \in Nat /\ \A k : Cnt(k) \in Nat
  BY CntIs
<1>3. CASE Len(ts) < MaxToks
  <2>1. us = Append(ts, Token(p)) /\ Len(ts) = Cnt(p)
    BY <1>3 DEF Recorded
  <2>2. /\ Len(us) = Len(ts) + 1 /\ us[Len(ts) + 1] = Token(p)
        /\ \A m \in 1..Len(ts) : us[m] = ts[m]
    BY <2>1, AppendProperties
  <2>3. Len(us) = Cnt(q)
    BY <1>1, <2>1, <2>2
  <2>4. ASSUME NEW k \in Before(q), Cnt(k) < MaxToks
        PROVE  Cnt(k) < Len(us) /\ us[Cnt(k) + 1] = Token(k)
    <3>1. CASE k = p
      BY <1>0, <2>1, <2>2, <3>1
    <3>2. CASE k \in Before(p)
      <4>1. Cnt(k) < Len(ts) /\ ts[Cnt(k) + 1] = Token(k) /\ Cnt(k) \in Nat
        BY <1>2, <2>4, <3>2 DEF Recorded
      <4>2. Cnt(k) + 1 \in 1..Len(ts) /\ Cnt(k) < Len(us)
        BY <1>0, <2>2, <4>1
      <4> QED BY <2>2, <4>1, <4>2
    <3> QED BY <1>1, <3>1, <3>2
  <2>5. Len(us) <= Cnt(q)
    BY <1>2, <2>3
  <2> QED BY <2>3, <2>4, <2>5 DEF Recorded
<1>4. CASE ~(Len(ts) < MaxToks)
  <2>1. us = ts /\ Len(ts) <= Cnt(p) /\ ~(Cnt(p) < MaxToks)
    <3>1. us = ts /\ Len(ts) <= Cnt(p)
      BY <1>4 DEF Recorded
    <3> QED BY <1>0, <1>2, <1>4, <3>1
  <2>2. Len(us) <= Cnt(q)
    BY <1>0, <1>1, <1>2, <2>1
  <2>3. ASSUME NEW k \in Before(q), Cnt(k) < MaxToks
        PROVE  Cnt(k) < Len(us) /\ us[Cnt(k) + 1] = Token(k)
    <3>1. k # p
      BY <2>1, <2>3
    <3> QED BY <1>1, <2>1, <2>3, <3>1 DEF Recorded
  <2> QED BY <1>4, <2>1, <2>2, <2>3 DEF Recorded
<1> QED
  BY <1>3, <1>4

LEMMA RecordSkip ==
    ASSUME line \in Seq(Chars), NEW p \in Nat \ {0}, p \notin Starts, NEW ts, Recorded(ts, p)
    PROVE  Recorded(ts, p + 1)
<1>1. p + 1 \in Nat /\ p < p + 1 /\ \A x \in (p + 1)..((p + 1) - 1) : x \notin Starts
  OBVIOUS
<1>2. Cnt(p + 1) = Cnt(p) /\ Before(p + 1) = Before(p)
  BY <1>1, CntNext
<1> QED
  BY <1>2 DEF Recorded

\* What ScannedAsWritten says of the line and the tokens.
Written ==
    /\ Len(toks) <= Cardinality(Starts)
    /\ \A k \in Starts :
          LET n == Cardinality({m \in Starts : m <= k})
          IN n <= MaxToks => n <= Len(toks) /\ toks[n] = Unquote(SubSeq(line, k, Extent(k)))

LEMMA RecordedIsWritten ==
    ASSUME line \in Seq(Chars), toks \in Seq(Seq(Chars)), NEW p \in Nat \ {0},
           Recorded(toks, p), p > Len(line) \/ Len(toks) >= MaxToks
    PROVE  Written
<1>0. MaxToks \in Nat /\ Len(toks) \in Nat /\ Len(line) \in Nat
  BY ConstantsAssumption
<1>c. /\ \A k : Cnt(k) \in Nat /\ Cnt(k) <= Cardinality(Starts)
      /\ \A k, m \in Nat : k <= m => Cnt(k) <= Cnt(m)
      /\ Cardinality(Starts) \in Nat
  BY CntIs
<1>1. Len(toks) <= Cardinality(Starts)
  <2>1. Len(toks) <= Cnt(p) /\ Cnt(p) <= Cardinality(Starts) /\ Cnt(p) \in Nat
    BY <1>c DEF Recorded
  <2> QED BY <1>0, <1>c, <2>1
<1>2. ASSUME NEW k \in Starts
      PROVE  LET n == Cardinality({m \in Starts : m <= k})
             IN n <= MaxToks => n <= Len(toks) /\ toks[n] = Token(k)
  <2> DEFINE n == Cardinality({m \in Starts : m <= k})
  <2>0. k \in Nat \ {0} /\ k <= Len(line) /\ \A m \in Starts : m \in Nat
    BY StartsIs
  <2>1. n = Cnt(k) + 1
    <3>1. \A m \in Starts : m <= k <=> m < k + 1
      BY <2>0
    <3>2. {m \in Starts : m <= k} = Before(k + 1)
      BY <3>1 DEF Before
    <3>3. k + 1 \in Nat /\ k < k + 1 /\ \A x \in (k + 1)..((k + 1) - 1) : x \notin Starts
      BY <2>0
    <3>4. Cnt(k + 1) = Cnt(k) + 1
      BY <2>0, <3>3, CntNext
    <3> QED BY <3>2, <3>4 DEF Cnt
  <2> SUFFICES ASSUME n <= MaxToks PROVE n <= Len(toks) /\ toks[n] = Token(k)
    OBVIOUS
  <2> HIDE DEF n
  <2>2. Cnt(k) \in Nat /\ Cnt(k) < MaxToks
    BY <1>0, <1>c, <2>1
  <2>3. k < p
    <3> SUFFICES ASSUME ~(k < p) PROVE FALSE
      OBVIOUS
    <3>1. p <= k /\ p \in Nat /\ k \in Nat
      BY <2>0
    <3>2. Len(toks) >= MaxToks
      BY <1>0, <2>0, <3>1
    <3>3. Cnt(p) <= Cnt(k) /\ Len(toks) <= Cnt(p) /\ Cnt(p) \in Nat
      BY <1>c, <3>1 DEF Recorded
    <3> QED BY <1>0, <2>2, <3>2, <3>3
  <2>4. k \in Before(p)
    BY <2>3 DEF Before
  <2>5. Cnt(k) < Len(toks) /\ toks[Cnt(k) + 1] = Token(k)
    BY <2>2, <2>4 DEF Recorded
  <2>6. n <= Len(toks)
    BY <1>0, <2>1, <2>2, <2>5
  <2> QED BY <2>1, <2>5, <2>6
<1> QED
  BY <1>1, <1>2 DEF Written, Token

-----------------------------------------------------------------------------
(* tokenize() keeps its place in the grammar. *)

\* A token may begin at p: p is not within quotes, does not go on with a word,
\* and is not the second of two greater-than signs.
Ready(p) ==
    p <= Len(line) => /\ ~Quoted(p)
                      /\ ~IsBreak(p) => p = 1 \/ IsBreak(p - 1)
                      /\ IsGreater(p) => Adjacent(IsGreater, p) % 2 = 0

InnerOf(a, b) == \A x \in a..(b - 1) : ~IsBreak(x)

ScanInv ==
    /\ pc = "scan" => Recorded(toks, pos) /\ Ready(pos)
    /\ pc = "word" => /\ Recorded(toks, start) /\ start \in Starts
                      /\ ~IsBreak(start) /\ InnerOf(start, pos)
                      /\ inq <=> Quoted(pos)
    /\ pc \in {"build", "command"} => Written

LEMMA SameScan ==
    ASSUME line' = line
    PROVE  /\ Recorded(toks, pos)' <=> Recorded(toks', pos')
           /\ Recorded(toks, start)' <=> Recorded(toks', start')
           /\ Ready(pos)' <=> Ready(pos')
           /\ Quoted(pos)' <=> Quoted(pos')
           /\ IsBreak(start)' <=> IsBreak(start')
           /\ InnerOf(start, pos)' <=> InnerOf(start', pos')
           /\ toks' = toks => (Written' <=> Written)
<1>1. Recorded(toks, pos)' <=> Recorded(toks', pos')
  BY SameGrammar DEF Recorded, Before, Cnt, Token
<1>2. Recorded(toks, start)' <=> Recorded(toks', start')
  BY SameGrammar DEF Recorded, Before, Cnt, Token
<1>3. Ready(pos)' <=> Ready(pos')
  BY SameGrammar DEF Ready
<1>4. Quoted(pos)' <=> Quoted(pos')
  BY SameGrammar
<1>5. toks' = toks => (Written' <=> Written)
  BY SameGrammar DEF Written
<1>6. IsBreak(start)' <=> IsBreak(start')
  BY SameGrammar
<1>7. InnerOf(start, pos)' <=> InnerOf(start', pos')
  BY SameGrammar DEF InnerOf
<1> QED
  BY <1>1, <1>2, <1>3, <1>4, <1>5, <1>6, <1>7

\* A word is bounded by breaks.
LEMMA WordIs ==
    ASSUME line \in Seq(Chars), NEW s \in Starts, NEW q \in Nat, s < q, q <= Len(line) + 1,
           ~IsBreak(s), InnerOf(s, q), q = Len(line) + 1 \/ IsBreak(q)
    PROVE  /\ Extent(s) = q - 1
           /\ \A x \in (s + 1)..(q - 1) : x \notin Starts
<1>0. s \in Nat /\ 1 <= s /\ s <= Len(line) /\ Len(line) \in Nat
  BY StartsIs
<1> DEFINE P(m) == /\ \A x \in s..m : ~IsBreak(x)
                   /\ m = Len(line) \/ IsBreak(m + 1)
<1>1. q - 1 \in s..Len(line) /\ P(q - 1)
  <2>1. q - 1 \in s..Len(line) /\ (q - 1) + 1 = q /\ (q = Len(line) + 1 => q - 1 = Len(line))
    BY <1>0
  <2> QED BY <2>1 DEF InnerOf
<1>2. ASSUME NEW m \in s..Len(line), P(m) PROVE m = q - 1
  <2>0. m \in Nat
    BY <1>0
  <2>1. ~(m < q - 1)
    <3> SUFFICES ASSUME m < q - 1 PROVE FALSE
      OBVIOUS
    <3>1. m + 1 \in s..(q - 1) /\ m # Len(line)
      BY <1>0, <2>0
    <3> QED BY <1>2, <3>1 DEF InnerOf
  <2>2. ~(m > q - 1)
    <3> SUFFICES ASSUME m > q - 1 PROVE FALSE
      OBVIOUS
    <3>1. q \in s..m /\ q # Len(line) + 1
      BY <1>0, <2>0
    <3> QED BY <1>2, <3>1
  <2> QED BY <2>0, <2>1, <2>2
<1>3. Extent(s) = CHOOSE m \in s..Len(line) : P(m)
  BY DEF Extent
<1> HIDE DEF P
<1>4. Extent(s) = q - 1
  BY <1>1, <1>2, <1>3
<1>5. ASSUME NEW x \in (s + 1)..(q - 1) PROVE x \notin Starts
  <2>1. x \in s..(q - 1) /\ x - 1 \in s..(q - 1) /\ x # 1
    BY <1>0
  <2>2. ~IsBreak(x) /\ ~IsBreak(x - 1)
    BY <2>1 DEF InnerOf
  <2> QED BY <2>1, <2>2, Zenon DEF Starts, IsGreater
<1> QED
  BY <1>4, <1>5

LEMMA ScanBeginWord ==
    ASSUME TypeInv, ScanInv, BeginWord
    PROVE  ScanInv'
<1>0. line \in Seq(Chars) /\ Len(line) \in Nat /\ pos \in Nat \ {0}
  BY DEF TypeInv
<1>1. /\ pc = "scan" /\ pc' = "word" /\ start' = pos /\ inq' = FALSE
      /\ UNCHANGED <<line, pos, toks>> /\ At(pos) \notin Breaks \cup {"end"}
  BY DEF BeginWord
<1>2. pos <= Len(line) /\ line[pos] \notin Breaks
  BY <1>0, <1>1 DEF At
<1>3. ~IsBreak(pos)
  BY <1>2 DEF IsBreak
<1>4. Recorded(toks, pos) /\ Ready(pos)
  BY <1>1 DEF ScanInv
<1>5. ~Quoted(pos) /\ (pos = 1 \/ IsBreak(pos - 1))
  BY <1>2, <1>3, <1>4 DEF Ready
<1>6. pos \in 1..Len(line)
  BY <1>0, <1>2
<1>7. pos \in Starts
  BY <1>3, <1>5, <1>6 DEF Starts
<1>8. InnerOf(start', pos')
  <2>1. \A x \in pos..(pos - 1) : FALSE
    BY <1>0
  <2> QED BY <1>1, <2>1 DEF InnerOf
<1>9. Starts' = Starts
  BY <1>1, SameGrammar
<1> QED
  BY <1>1, <1>3, <1>4, <1>5, <1>7, <1>8, <1>9, SameScan DEF ScanInv

LEMMA ScanWordChar ==
    ASSUME TypeInv, ScanInv, WordChar
    PROVE  ScanInv'
<1>0. line \in Seq(Chars) /\ Len(line) \in Nat /\ pos \in Nat \ {0} /\ start \in Nat
      /\ inq \in BOOLEAN
  BY DEF TypeInv
<1>1. /\ pc = "word" /\ pc' = "word" /\ InWord /\ pos' = pos + 1
      /\ inq' = (inq # (At(pos) = Quote)) /\ UNCHANGED <<line, start, toks>>
  BY DEF WordChar
<1>2. pos <= Len(line) /\ At(pos) = line[pos]
  BY <1>0, <1>1 DEF InWord, At
<1>3. inq <=> Quoted(pos)
  BY <1>1 DEF ScanInv
<1>4. ~IsBreak(pos)
  BY <1>1, <1>2, <1>3 DEF InWord, IsBreak
<1>5. inq' <=> Quoted(pos')
  <2>1. Quoted(pos + 1) <=> (Quoted(pos) <=> line[pos] # Quote)
    BY <1>0, QuotedNext
  <2> QED BY <1>0, <1>1, <1>2, <1>3, <2>1
<1>6. InnerOf(start, pos + 1)
  <2>1. InnerOf(start, pos)
    BY <1>1 DEF ScanInv
  <2>2. \A x \in start..((pos + 1) - 1) : x \in start..(pos - 1) \/ x = pos
    BY <1>0
  <2> QED BY <1>4, <2>1, <2>2 DEF InnerOf
<1>7. Recorded(toks, start) /\ start \in Starts /\ ~IsBreak(start)
  BY <1>1 DEF ScanInv
<1>8. Starts' = Starts
  BY <1>1, SameGrammar
<1> QED
  BY <1>1, <1>5, <1>6, <1>7, <1>8, SameScan DEF ScanInv

LEMMA ScanEndWord ==
    ASSUME TypeInv, ScanInv, EndWord
    PROVE  ScanInv'
<1>0. /\ line \in Seq(Chars) /\ Len(line) \in Nat /\ pos \in Nat \ {0} /\ start \in Nat \ {0}
      /\ inq \in BOOLEAN /\ start <= pos /\ pos <= Len(line) + 1
      /\ toks \in Seq(Seq(Chars)) /\ Len(toks) <= MaxToks
  BY DEF TypeInv
<1> DEFINE t == Unquote(SubSeq(line, start, pos - 1))
<1>1. /\ pc = "word" /\ pc' = "scan" /\ ~InWord
      /\ toks' = IF Len(toks) < MaxToks THEN Append(toks, t) ELSE toks
      /\ UNCHANGED <<line, pos, start>>
  BY DEF EndWord
<1>2. /\ Recorded(toks, start) /\ start \in Starts /\ ~IsBreak(start) /\ InnerOf(start, pos)
      /\ inq <=> Quoted(pos)
  BY <1>1 DEF ScanInv
<1>3. start <= Len(line)
  BY <1>0, <1>2, StartsIs
<1>4. pos = Len(line) + 1 \/ (IsBreak(pos) /\ pos <= Len(line))
  <2>1. CASE pos <= Len(line)
    <3>1. At(pos) = line[pos] /\ pos \in 1..Len(line)
      BY <1>0, <2>1 DEF At
    <3>2. line[pos] \in Chars
      BY <1>0, <3>1, ElementOfSeq
    <3>3. line[pos] # "end"
      BY <3>2 DEF Chars, Breaks, Signs, Quote
    <3> QED BY <1>1, <1>2, <2>1, <3>1, <3>3 DEF InWord, IsBreak
  <2>2. CASE ~(pos <= Len(line))
    BY <1>0, <2>2
  <2> QED BY <2>1, <2>2
<1>5. start < pos
  <2>1. start # pos
    BY <1>0, <1>2, <1>3, <1>4
  <2> QED BY <1>0, <2>1
<1>6. Extent(start) = pos - 1 /\ \A x \in (start + 1)..(pos - 1) : x \notin Starts
  BY <1>0, <1>2, <1>4, <1>5, WordIs
<1>7. t = Token(start)
  BY <1>6 DEF Token
<1>8. t \in Seq(Chars)
  <2>1. pos - 1 \in Nat /\ pos - 1 <= Len(line)
    BY <1>0
  <2>2. SubSeq(line, start, pos - 1) \in Seq(Chars)
    BY <1>0, <2>1, PieceIs
  <2> QED BY <2>2, UnquoteIs
<1> HIDE DEF t
<1>9. Recorded(toks', pos)
  BY <1>0, <1>1, <1>2, <1>5, <1>6, <1>7, <1>8, RecordNext
<1>10. Ready(pos)
  <2> SUFFICES ASSUME pos <= Len(line)
               PROVE  /\ ~Quoted(pos) /\ (~IsBreak(pos) => pos = 1 \/ IsBreak(pos - 1))
                      /\ IsGreater(pos) => Adjacent(IsGreater, pos) % 2 = 0
    BY DEF Ready
  <2>1. IsBreak(pos)
    BY <1>0, <1>4
  <2>2. ~Quoted(pos)
    BY <2>1 DEF IsBreak
  <2>3. Adjacent(IsGreater, pos) = 0
    <3>1. pos - 1 \in Nat \ {0} /\ (pos - 1) + 1 = pos /\ pos - 1 \in start..(pos - 1)
      BY <1>0, <1>5
    <3>2. ~IsGreater(pos - 1)
      BY <1>2, <3>1 DEF InnerOf, IsGreater
    <3>3. Adjacent(IsGreater, (pos - 1) + 1) = 0
      BY <3>1, <3>2, AdjacentNext
    <3> QED BY <3>1, <3>3
  <2>4. 0 % 2 = 0
    OBVIOUS
  <2> QED BY <2>1, <2>2, <2>3, <2>4
<1> QED
  BY <1>1, <1>9, <1>10, SameScan DEF ScanInv

\* After an unquoted break at p that is not followed by the second of two
\* greater-than signs, a token may begin at p + 1.
LEMMA ReadyAfterBreak ==
    ASSUME line \in Seq(Chars), NEW p \in Nat \ {0}, IsBreak(p),
           IsGreater(p) /\ p + 1 <= Len(line) => line[p + 1] # ">"
    PROVE  Ready(p + 1)
<1>1. (p + 1) - 1 = p
  OBVIOUS
<1>2. ~Quoted(p) /\ line[p] # Quote
  BY DEF IsBreak, Breaks, Signs, Quote
<1>3. ~Quoted(p + 1)
  BY <1>2, QuotedNext
<1>4. ASSUME p + 1 <= Len(line), IsGreater(p + 1) PROVE Adjacent(IsGreater, p + 1) % 2 = 0
  <2>1. ~IsGreater(p)
    BY <1>4 DEF IsGreater
  <2>2. Adjacent(IsGreater, p + 1) = 0
    BY <2>1, AdjacentNext
  <2>3. 0 % 2 = 0
    OBVIOUS
  <2> QED BY <2>2, <2>3
<1> QED
  BY <1>1, <1>3, <1>4 DEF Ready

LEMMA ScanSkipSpace ==
    ASSUME TypeInv, ScanInv, SkipSpace
    PROVE  ScanInv'
<1>0. line \in Seq(Chars) /\ Len(line) \in Nat /\ pos \in Nat \ {0}
  BY DEF TypeInv
<1>1. /\ pc = "scan" /\ pc' = "scan" /\ pos' = pos + 1 /\ At(pos) = " "
      /\ UNCHANGED <<line, toks>>
  BY DEF SkipSpace
<1>2. pos <= Len(line) /\ line[pos] = " "
  BY <1>0, <1>1 DEF At
<1>3. Recorded(toks, pos) /\ ~Quoted(pos)
  BY <1>1, <1>2 DEF ScanInv, Ready
<1>4. IsBreak(pos) /\ ~IsGreater(pos)
  BY <1>2, <1>3 DEF IsBreak, IsGreater, Breaks
<1>5. pos \notin Starts
  BY <1>2, <1>4 DEF Starts
<1>6. Recorded(toks, pos + 1)
  BY <1>0, <1>3, <1>5, RecordSkip
<1>7. Ready(pos + 1)
  BY <1>0, <1>4, ReadyAfterBreak
<1> QED
  BY <1>1, <1>6, <1>7, SameScan DEF ScanInv

\* An operator is a token of its own, of one character or of two.
LEMMA SignIs ==
    ASSUME line \in Seq(Chars), NEW p \in Nat \ {0}, p <= Len(line), line[p] \in Signs,
           Ready(p), NEW w \in Nat,
           w = IF line[p] = ">" /\ p + 1 <= Len(line) /\ line[p + 1] = ">" THEN 2 ELSE 1
    PROVE  /\ p \in Starts /\ Extent(p) = p + w - 1
           /\ \A x \in (p + 1)..(p + w - 1) : x \notin Starts
           /\ Ready(p + w) /\ p + w <= Len(line) + 1
<1>0. Len(line) \in Nat /\ p \in 1..Len(line)
  BY StartsIs
<1>1. ~Quoted(p) /\ IsBreak(p)
  BY DEF Ready, IsBreak, Breaks
<1>2. line[p] = "|" \/ IsGreater(p)
  BY <1>1 DEF IsGreater, Signs
<1>3. p \in Starts
  <2>1. CASE line[p] = "|"
    BY <1>0, <1>1, <2>1, Zenon DEF Starts
  <2>2. CASE IsGreater(p)
    <3>1. Adjacent(IsGreater, p) % 2 = 0
      BY <2>2 DEF Ready
    <3> QED BY <1>0, <2>2, <3>1, Zenon DEF Starts
  <2> QED BY <1>2, <2>1, <2>2
<1>4. CASE w = 2
  <2>1. line[p] = ">" /\ p + 1 <= Len(line) /\ line[p + 1] = ">" /\ IsGreater(p) /\ p < Len(line)
    BY <1>0, <1>1, <1>4 DEF IsGreater
  <2>2. ~Quoted(p + 1)
    <3>1. line[p] # Quote
      BY <2>1 DEF Quote
    <3> QED BY <1>1, <3>1, QuotedNext
  <2>3. IsBreak(p + 1) /\ IsGreater(p + 1)
    BY <2>1, <2>2 DEF IsBreak, IsGreater, Breaks, Signs
  <2> DEFINE a == Adjacent(IsGreater, p)
  <2>4. a \in Nat /\ a % 2 = 0
    BY <2>1, AdjacentNext DEF Ready
  <2>5. Adjacent(IsGreater, p + 1) = a + 1
    BY <2>1, AdjacentNext
  <2>6. Adjacent(IsGreater, (p + 1) + 1) = (a + 1) + 1
    <3>1. p + 1 \in Nat \ {0}
      OBVIOUS
    <3> QED BY <2>3, <2>5, <3>1, AdjacentNext
  <2> HIDE DEF a
  <2>7. (a + 1) % 2 # 0 /\ ((a + 1) + 1) % 2 = 0
    <3>1. (a + 1) % 2 # 0 /\ (a + 2) % 2 = 0 /\ (a + 1) + 1 = a + 2
      BY <2>4, Parity
    <3> QED BY <3>1
  <2>8. Extent(p) = p + 1 /\ p + 1 = p + w - 1
    BY <1>1, <1>4, <2>1, <2>3 DEF Extent
  <2>9. p + 1 \notin Starts
    <3>1. line[p + 1] # "|"
      BY <2>1
    <3> QED BY <2>3, <2>5, <2>7, <3>1, Zenon DEF Starts
  <2>10. \A x \in (p + 1)..(p + w - 1) : x = p + 1
    BY <1>4
  <2>11. Ready(p + w)
    <3>1. p + w = (p + 1) + 1 /\ ((p + 1) + 1) - 1 = p + 1
      BY <1>4
    <3>2. ~Quoted((p + 1) + 1)
      <4>1. line[p + 1] # Quote /\ p + 1 \in Nat \ {0}
        BY <2>1 DEF Quote
      <4> QED BY <2>2, <4>1, QuotedNext
    <3> QED BY <2>3, <2>6, <2>7, <3>1, <3>2 DEF Ready
  <2>12. p + w <= Len(line) + 1
    BY <1>0, <1>4, <2>1
  <2> QED BY <1>3, <2>8, <2>9, <2>10, <2>11, <2>12
<1>5. CASE w # 2
  <2>1. w = 1 /\ (line[p] = ">" /\ p + 1 <= Len(line) => line[p + 1] # ">")
    BY <1>5
  <2>2. IsGreater(p) /\ p + 1 <= Len(line) => line[p + 1] # ">"
    BY <2>1 DEF IsGreater
  <2>3. Ready(p + 1)
    BY <1>1, <2>2, ReadyAfterBreak
  <2>4. ~(IsGreater(p) /\ p < Len(line) /\ IsGreater(p + 1))
    <3>1. p < Len(line) => p + 1 <= Len(line)
      BY <1>0
    <3> QED BY <2>2, <3>1 DEF IsGreater
  <2>5. Extent(p) = p
    BY <1>1, <2>4 DEF Extent
  <2>6. p + w - 1 = p /\ p + w = p + 1 /\ p + w <= Len(line) + 1
        /\ \A x \in (p + 1)..p : FALSE
    BY <1>0, <2>1
  <2> QED BY <1>3, <2>3, <2>5, <2>6
<1> QED
  BY <1>4, <1>5

LEMMA ScanScanSign ==
    ASSUME TypeInv, ScanInv, ScanSign
    PROVE  ScanInv'
<1>0. /\ line \in Seq(Chars) /\ Len(line) \in Nat /\ pos \in Nat \ {0}
      /\ toks \in Seq(Seq(Chars)) /\ Len(toks) <= MaxToks /\ Len(toks) \in Nat
      /\ MaxToks \in Nat
  BY ConstantsAssumption DEF TypeInv
<1>1. pc = "scan" /\ At(pos) \in Signs /\ line' = line
  BY DEF ScanSign
<1>2. Recorded(toks, pos) /\ Ready(pos)
  BY <1>1 DEF ScanInv
<1>3. pos <= Len(line) /\ line[pos] \in Signs /\ At(pos) = line[pos]
  BY <1>0, <1>1 DEF At, Signs
<1>4. CASE Len(toks) < MaxToks
  <2> DEFINE w == IF At(pos) = ">" /\ At(pos + 1) = ">" THEN 2 ELSE 1
             t == SubSeq(line, pos, pos + w - 1)
  <2>1. Operator(w)
    BY <1>4 DEF ScanSign
  <2>2. w = IF line[pos] = ">" /\ pos + 1 <= Len(line) /\ line[pos + 1] = ">" THEN 2 ELSE 1
    BY <1>3 DEF At
  <2>3. w \in {1, 2} /\ w \in Nat
    OBVIOUS
  <2>4. pc' = pc /\ toks' = Append(toks, t) /\ pos' = pos + w
    BY <2>1 DEF Operator
  <2> HIDE DEF w
  <2>5. /\ pos \in Starts /\ Extent(pos) = pos + w - 1
        /\ \A x \in (pos + 1)..(pos + w - 1) : x \notin Starts
        /\ Ready(pos + w) /\ pos + w <= Len(line) + 1
    BY <1>0, <1>2, <1>3, <2>2, <2>3, SignIs
  <2>6. /\ t \in Seq(Chars) /\ t[1] = line[pos]
    <3>1. pos + w - 1 \in Nat /\ pos + w - 1 <= Len(line) /\ 1 \in 1..((pos + w - 1) - pos + 1)
          /\ pos + 1 - 1 = pos
      BY <1>0, <2>3, <2>5
    <3>2. \A m \in 1..((pos + w - 1) - pos + 1) : t[m] = line[pos + m - 1]
      BY <1>0, <3>1, PieceIs
    <3>3. t \in Seq(Chars)
      BY <1>0, <3>1, PieceIs
    <3> QED BY <3>1, <3>2, <3>3
  <2>7. Token(pos) = t
    <3>1. Token(pos) = Unquote(t)
      BY <2>5 DEF Token
    <3>2. t[1] # Quote
      BY <1>3, <2>6 DEF Signs, Quote
    <3> HIDE DEF t
    <3> QED BY <3>1, <3>2 DEF Unquote
  <2> HIDE DEF t
  <2>8. pos + w \in Nat /\ pos < pos + w
    BY <1>0, <2>3
  <2>9. Recorded(toks', pos + w)
    <3>1. toks' = IF Len(toks) < MaxToks THEN Append(toks, Token(pos)) ELSE toks
      BY <1>4, <2>4, <2>7
    <3>2. Token(pos) \in Seq(Chars)
      BY <2>6, <2>7
    <3>3. \A x \in (pos + 1)..((pos + w) - 1) : x \notin Starts
      BY <2>3, <2>5, <1>0
    <3> QED BY <1>0, <1>2, <2>5, <2>8, <3>1, <3>2, <3>3, RecordNext
  <2> QED BY <1>1, <2>4, <2>5, <2>9, SameScan DEF ScanInv
<1>5. CASE ~(Len(toks) < MaxToks)
  <2>1. pc' = "build" /\ UNCHANGED <<toks, pos>>
    BY <1>5 DEF ScanSign, Terminate
  <2>2. Written
    BY <1>0, <1>2, <1>5, RecordedIsWritten
  <2> QED BY <1>1, <2>1, <2>2, SameScan DEF ScanInv
<1> QED
  BY <1>4, <1>5

\* A line begins.
LEMMA ScanEndLine ==
    ASSUME TypeInv, EndLine
    PROVE  ScanInv'
<1>0. MaxToks \in Nat \ {0}
  BY ConstantsAssumption
<1>1. /\ pc = "read" /\ pc' \in {"read", "scan"} /\ pos' = 1 /\ toks' = <<>>
      /\ line' \in Seq(Chars) /\ pos = 1 /\ toks = <<>> /\ line' = Trim(line)
  BY TrimIs DEF EndLine, TypeInv
<1>2. Before(1)' = {}
  <2>1. \A m \in Starts' : m \in 1..Len(line')
    BY Zenon DEF Starts
  <2>2. Len(line') \in Nat
    BY <1>1
  <2>3. \A m \in 1..Len(line') : ~(m < 1)
    BY <2>2
  <2> QED BY <2>1, <2>3 DEF Before
<1>3. Cnt(1)' = 0
  BY <1>2, FS_EmptySet DEF Cnt
<1>4. Recorded(toks, pos)'
  <2>1. Before(pos)' = {} /\ Cnt(pos)' = 0
    BY <1>1, <1>2, <1>3 DEF Before, Cnt
  <2>2. Len(toks') = 0 /\ 0 <= 0
    BY <1>1
  <2> QED BY <2>1, <2>2 DEF Recorded
<1>5. ~Quoted(1)'
  <2>1. {m \in 1..(1 - 1) : line'[m] = Quote} = {}
    OBVIOUS
  <2>2. Cardinality({m \in 1..(1 - 1) : line'[m] = Quote}) = 0
    BY <2>1, FS_EmptySet
  <2>3. 0 % 2 # 1
    OBVIOUS
  <2> QED BY <2>2, <2>3 DEF Quoted
<1>6. Adjacent(IsGreater, 1)' = 0
  <2> DEFINE R == {m \in 1..(1 - 1) : \A x \in m..(1 - 1) : IsGreater(x)'}
  <2>1. R = {}
    OBVIOUS
  <2>2. Adjacent(IsGreater, 1)' = Cardinality(R)
    BY DEF Adjacent
  <2> HIDE DEF R
  <2> QED BY <2>1, <2>2, FS_EmptySet
<1>7. Ready(pos)'
  <2>1. 0 % 2 = 0
    OBVIOUS
  <2>2. ~Quoted(pos)' /\ Adjacent(IsGreater, pos)' = 0
    BY <1>1, <1>5, <1>6 DEF Quoted, Adjacent
  <2> QED BY <1>1, <2>1, <2>2 DEF Ready
<1> QED
  BY <1>1, <1>4, <1>7 DEF ScanInv

LEMMA ScanInductive == TypeInv /\ ScanInv /\ [Next]_vars => ScanInv'
<1> SUFFICES ASSUME TypeInv, ScanInv, [Next]_vars PROVE ScanInv'
  OBVIOUS
<1>0. line \in Seq(Chars) /\ toks \in Seq(Seq(Chars)) /\ pos \in Nat \ {0}
  BY DEF TypeInv
<1>1. CASE (\E c \in Chars : ReadChar(c)) \/ Hangup
  <2>1. pc' \in {"read", "closed"}
    BY <1>1 DEF ReadChar, Hangup
  <2> QED BY <2>1 DEF ScanInv
<1>2. CASE EndLine
  BY <1>2, ScanEndLine
<1>3. CASE EndScan
  <2>1. /\ pc = "scan" /\ At(pos) = "end" /\ pc' = "build" /\ UNCHANGED <<line, toks>>
    BY <1>3 DEF EndScan, Terminate, scanning
  <2>2. pos > Len(line)
    <3>1. ASSUME pos <= Len(line) PROVE FALSE
      <4>1. line[pos] = "end" /\ pos \in 1..Len(line)
        BY <1>0, <2>1, <3>1 DEF At
      <4>2. line[pos] \in Chars
        BY <1>0, <4>1, ElementOfSeq
      <4> QED BY <4>1, <4>2 DEF Chars, Breaks, Signs, Quote
    <3> QED BY <1>0, <3>1
  <2>3. Written
    BY <1>0, <2>1, <2>2, RecordedIsWritten DEF ScanInv
  <2> QED BY <2>1, <2>3, SameScan DEF ScanInv
<1>4. CASE SkipSpace \/ ScanSign \/ BeginWord \/ WordChar \/ EndWord
  BY <1>4, ScanSkipSpace, ScanScanSign, ScanBeginWord, ScanWordChar, ScanEndWord
<1>5. CASE Build
  <2>1. \/ pc' \in {"read", "closed"}
        \/ pc \in {"build", "command"} /\ pc' \in {"build", "command"} /\ UNCHANGED <<line, toks>>
    BY <1>5 DEF Build, NewCommand, TakeWord, TakeBar, TakeRedirection, TokensEnd, Execute,
                ParseError, Back, CloseCommand, scanning
  <2> QED BY <2>1, SameScan DEF ScanInv
<1>6. CASE UNCHANGED vars
  <2>1. UNCHANGED <<pc, line, pos, start, inq, toks>>
    BY <1>6 DEF vars
  <2>2. Starts' = Starts
    BY <2>1, SameGrammar
  <2> QED BY <2>1, <2>2, SameScan DEF ScanInv
<1> QED
  BY <1>1, <1>2, <1>3, <1>4, <1>5, <1>6 DEF Next, Tokenize

LEMMA ScanInitial == Init => ScanInv
BY DEF Init, ScanInv

\* For every line and every limit: tokenize() stores the tokens of the line,
\* in their order, as many as there is room for.
THEOREM TokensAsWritten == Spec => []ScannedAsWritten
<1>1. ScanInv => ScannedAsWritten
  BY DEF ScanInv, ScannedAsWritten, Written
<1> QED
  BY <1>1, TypeInitial, TypeInductive, ScanInitial, ScanInductive, PTL DEF Spec

-----------------------------------------------------------------------------
(* Stores past the end of an array. *)

OverInv ==
    /\ pc \in {"read", "scan", "word", "closed"} => over = {}
    /\ over # {} => Cardinality(Starts) >= MaxToks

LEMMA OverTerminated ==
    ASSUME TypeInv, ScanInv, OverInv, Tokenize
    PROVE  OverInv'
<1>t. line \in Seq(Chars) /\ toks \in Seq(Seq(Chars)) /\ MaxToks \in Nat
  BY ConstantsAssumption DEF TypeInv
<1>0. /\ Len(toks) \in Nat /\ MaxToks \in Nat /\ Cardinality(Starts) \in Nat
      /\ \A k : Cnt(k) \in Nat /\ Cnt(k) <= Cardinality(Starts)
  BY <1>t, CntIs
<1>1. line' = line
  BY DEF Tokenize, EndScan, SkipSpace, ScanSign, BeginWord, WordChar, EndWord, scanning
<1>2. Starts' = Starts
  BY <1>1, SameGrammar
<1>3. CASE Terminate /\ pc = "scan"
  <2>1. Len(toks) <= Cnt(pos) /\ over = {}
    BY <1>3 DEF ScanInv, Recorded, OverInv
  <2>2. pc' = "build" /\ over' = IF Len(toks) < MaxToks THEN over ELSE over \cup {"toks"}
    BY <1>3 DEF Terminate
  <2>3. Len(toks) <= Cardinality(Starts)
    <3>1. Cnt(pos) \in Nat /\ Cnt(pos) <= Cardinality(Starts)
      BY <1>0
    <3> QED BY <1>0, <2>1, <3>1
  <2>4. over' # {} => Cardinality(Starts) >= MaxToks
    BY <1>0, <2>1, <2>2, <2>3
  <2> QED BY <1>2, <2>2, <2>4 DEF OverInv
<1>4. CASE ~Terminate
  <2>1. pc \in {"scan", "word"} /\ pc' \in {"scan", "word"} /\ over' = over
    BY <1>4 DEF Tokenize, EndScan, SkipSpace, ScanSign, Operator, BeginWord, WordChar, EndWord
  <2> QED BY <1>2, <2>1 DEF OverInv
<1>5. CASE Terminate /\ pc # "scan"
  BY <1>5 DEF Tokenize, Terminate, EndScan, SkipSpace, ScanSign, BeginWord, WordChar, EndWord
<1> QED
  BY <1>3, <1>4, <1>5

LEMMA OverClosed ==
    ASSUME TypeInv, ScanInv, OverInv, Build
    PROVE  OverInv'
<1>t. /\ line \in Seq(Chars) /\ toks \in Seq(Seq(Chars)) /\ MaxToks \in Nat
      /\ argv \in Seq(Seq(Chars)) /\ i \in 0..Len(toks) /\ Len(argv) <= i
  BY ConstantsAssumption DEF TypeInv
<1>0. /\ Len(toks) \in Nat /\ MaxToks \in Nat /\ Len(argv) \in Nat
      /\ Cardinality(Starts) \in Nat /\ i \in 0..Len(toks) /\ Len(argv) <= i
  BY <1>t, CntIs
<1>1. ASSUME NEW label \in {"read", "closed"}, NEW freed, Back(label, freed) PROVE OverInv'
  BY <1>1 DEF Back, OverInv
<1>2. ASSUME line' = line, pc \in {"build", "command"}, pc' \in {"build", "command"},
             over' \in {over, IF Len(argv) < MaxToks THEN over ELSE over \cup {"argv"}}
      PROVE  OverInv'
  <2>1. Starts' = Starts
    BY <1>2, SameGrammar
  <2>2. Len(toks) <= Cardinality(Starts)
    BY <1>2 DEF ScanInv, Written
  <2>3. Len(argv) >= MaxToks => Cardinality(Starts) >= MaxToks
    BY <1>0, <2>2
  <2>4. over' # {} => Cardinality(Starts) >= MaxToks
    BY <1>0, <1>2, <2>3 DEF OverInv
  <2> QED BY <1>2, <2>1, <2>4 DEF OverInv
<1>3. CASE NewCommand
  BY <1>1, <1>2, <1>3 DEF NewCommand, ParseError, scanning
<1>4. CASE TakeWord \/ TakeBar \/ TokensEnd
  BY <1>2, <1>4 DEF TakeWord, TakeBar, TokensEnd, CloseCommand, scanning
<1>5. CASE TakeRedirection
  BY <1>1, <1>2, <1>5 DEF TakeRedirection, ParseError, CloseCommand, scanning
<1>6. CASE Execute
  BY <1>1, <1>6 DEF Execute
<1> QED
  BY <1>3, <1>4, <1>5, <1>6 DEF Build

\* For every line and every limit: a NULL past the end of toks[] or argv[]
\* takes a line of MaxToks tokens or more.
THEOREM StoresWithinArrays == Spec => []StoredInBounds
<1>1. Init => OverInv
  BY DEF Init, OverInv
<1>2. TypeInv /\ ScanInv /\ OverInv /\ [Next]_vars => OverInv'
  <2> SUFFICES ASSUME TypeInv, ScanInv, OverInv, [Next]_vars PROVE OverInv'
    OBVIOUS
  <2>1. CASE (\E c \in Chars : ReadChar(c)) \/ EndLine \/ Hangup
    <3>1. over' = over /\ pc = "read"
      BY <2>1 DEF ReadChar, EndLine, Hangup
    <3> QED BY <3>1 DEF OverInv
  <2>2. CASE UNCHANGED vars
    <3>1. UNCHANGED <<pc, line, over>>
      BY <2>2 DEF vars
    <3>2. Starts' = Starts
      BY <3>1, SameGrammar
    <3> QED BY <3>1, <3>2 DEF OverInv
  <2> QED BY <2>1, <2>2, OverTerminated, OverClosed DEF Next
<1>3. OverInv => StoredInBounds
  BY DEF OverInv, StoredInBounds
<1> QED
  BY <1>1, <1>2, <1>3, TypeInitial, TypeInductive, ScanInitial, ScanInductive, PTL DEF Spec

-----------------------------------------------------------------------------
(* The grammar of a pipeline. *)

LEMMA SameTokens ==
    ASSUME toks' = toks
    PROVE  /\ \A k : IsFile(k)' = IsFile(k)
           /\ \A k : IsSign(k)' = IsSign(k)
           /\ \A k : IsWord(k)' = IsWord(k)
           /\ \A k : SignsBefore(k)' = SignsBefore(k)
           /\ Groups' = Groups
           /\ \A k : GroupsUpTo(k)' = GroupsUpTo(k)
BY DEF IsFile, IsSign, IsWord, IsRedir, SignsBefore, Groups, GroupsUpTo, Adjacent

LEMMA RedirNext ==
    ASSUME NEW k \in Nat \ {0}
    PROVE  /\ Adjacent(IsRedir, k) \in Nat
           /\ ~IsRedir(k) => Adjacent(IsRedir, k + 1) = 0
           /\ IsRedir(k) => Adjacent(IsRedir, k + 1) = Adjacent(IsRedir, k) + 1
<1> DEFINE Q == {x \in Nat : IsRedir(x)}
<1>1. \A n \in Nat \ {0} : Adjacent(IsRedir, n) = Cardinality(Stretch(Q, n))
  <2>1. \A n \in Nat \ {0} : \A m \in 1..(n - 1) : \A y \in m..(n - 1) : y \in Nat
    OBVIOUS
  <2> QED BY <2>1 DEF Adjacent, Stretch
<1>2. k \in Q <=> IsRedir(k)
  OBVIOUS
<1> HIDE DEF Q
<1>3. k + 1 \in Nat \ {0}
  OBVIOUS
<1> QED
  BY <1>1, <1>2, <1>3, StretchNext

\* What follows a redirection sign is a file, unless that sign is one.
LEMMA FileNext ==
    ASSUME NEW k \in Nat \ {0}
    PROVE  /\ ~IsRedir(k) => ~IsFile(k + 1)
           /\ IsRedir(k) => (IsFile(k + 1) <=> ~IsFile(k))
<1> DEFINE a == Adjacent(IsRedir, k)
           b == Adjacent(IsRedir, k + 1)
<1>1. a \in Nat /\ (~IsRedir(k) => b = 0) /\ (IsRedir(k) => b = a + 1)
  BY RedirNext
<1>2. IsFile(k + 1) <=> b % 2 = 1
  <2>1. k + 1 > 1
    OBVIOUS
  <2> QED BY <2>1 DEF IsFile
<1>3. IsFile(k) <=> a % 2 = 1
  <2>1. CASE k > 1
    BY <2>1 DEF IsFile
  <2>2. CASE k = 1
    <3>1. {m \in 1..(1 - 1) : \A x \in m..(1 - 1) : IsRedir(x)} = {}
      OBVIOUS
    <3>2. a = 0
      BY <2>2, <3>1, FS_EmptySet DEF Adjacent
    <3> HIDE DEF a
    <3>3. 0 % 2 # 1 /\ ~(1 > 1)
      OBVIOUS
    <3> QED BY <2>2, <3>2, <3>3 DEF IsFile
  <2> QED BY <2>1, <2>2
<1> HIDE DEF a, b
<1>4. 0 % 2 # 1 /\ ((a + 1) % 2 = 1 <=> a % 2 # 1)
  BY <1>1, Parity
<1> QED
  BY <1>1, <1>2, <1>3, <1>4

LEMMA SignsIs ==
    /\ \A k \in Nat \ {0} : SignsBefore(k) \in 0..(k - 1)
    /\ \A k, m \in Nat \ {0} : k <= m => SignsBefore(k) <= SignsBefore(m)
    /\ \A k, m \in Nat \ {0} : IsSign(k) /\ k < m => SignsBefore(k) + 1 <= SignsBefore(m)
    /\ \A k \in Nat \ {0} : ~IsSign(k) => SignsBefore(k + 1) = SignsBefore(k)
<1> DEFINE S(x) == {m \in 1..(x - 1) : IsSign(m)}
<1>1. ASSUME NEW k \in Nat \ {0}
      PROVE  /\ IsFiniteSet(S(k)) /\ SignsBefore(k) = Cardinality(S(k)) /\ SignsBefore(k) \in 0..(k - 1)
  <2>1. k - 1 \in Nat /\ S(k) \in SUBSET (1..(k - 1))
    OBVIOUS
  <2>2. SignsBefore(k) = Cardinality(S(k))
    BY DEF SignsBefore
  <2> HIDE DEF S
  <2>3. IsFiniteSet(S(k)) /\ Cardinality(S(k)) \in Nat /\ Cardinality(S(k)) <= k - 1
    BY <2>1, BoundedCount
  <2> QED BY <2>1, <2>2, <2>3
<1>2. ASSUME NEW k \in Nat \ {0}, NEW m \in Nat \ {0}, k <= m
      PROVE  SignsBefore(k) <= SignsBefore(m)
  <2>1. S(k) \in SUBSET S(m)
    <3>1. \A x \in 1..(k - 1) : x \in 1..(m - 1)
      BY <1>2
    <3> QED BY <3>1
  <2> HIDE DEF S
  <2> QED BY <1>1, <2>1, FS_Subset
<1>3. ASSUME NEW k \in Nat \ {0}, IsSign(k) PROVE SignsBefore(k + 1) = SignsBefore(k) + 1
  <2>1. S(k + 1) = S(k) \cup {k} /\ k \notin S(k)
    <3>1. (k + 1) - 1 = k /\ k \in 1..k /\ k \notin 1..(k - 1)
          /\ (\A x \in 1..k : x = k \/ x \in 1..(k - 1))
          /\ (\A x \in 1..(k - 1) : x \in 1..k)
      OBVIOUS
    <3> QED BY <1>3, <3>1
  <2>2. k + 1 \in Nat \ {0}
    OBVIOUS
  <2> HIDE DEF S
  <2> QED BY <1>1, <2>1, <2>2, FS_AddElement
<1>4. ASSUME NEW k \in Nat \ {0}, ~IsSign(k) PROVE SignsBefore(k + 1) = SignsBefore(k)
  <2>1. S(k + 1) = S(k)
    <3>1. (k + 1) - 1 = k
          /\ (\A x \in 1..k : x = k \/ x \in 1..(k - 1))
          /\ (\A x \in 1..(k - 1) : x \in 1..k)
      OBVIOUS
    <3> QED BY <1>4, <3>1
  <2>2. k + 1 \in Nat \ {0}
    OBVIOUS
  <2> HIDE DEF S
  <2> QED BY <1>1, <2>1, <2>2
<1>5. ASSUME NEW k \in Nat \ {0}, NEW m \in Nat \ {0}, IsSign(k), k < m
      PROVE  SignsBefore(k) + 1 <= SignsBefore(m)
  <2>1. k + 1 \in Nat \ {0} /\ k + 1 <= m
    BY <1>5
  <2>2. SignsBefore(k + 1) <= SignsBefore(m) /\ SignsBefore(k + 1) = SignsBefore(k) + 1
    BY <1>2, <1>3, <1>5, <2>1
  <2> QED BY <2>2
<1> QED
  BY <1>1, <1>2, <1>4, <1>5

-----------------------------------------------------------------------------
(* The words of a command, and its place in the pipeline. *)

\* The words up to j that follow s signs.
Cur(j, s) == {m \in 1..j : IsWord(m) /\ SignsBefore(m) = s}

Group(k) == Cur(Len(toks), SignsBefore(k))
Place(k) == Cardinality(Cur(k, SignsBefore(k)))
Rank(k)  == Cardinality(GroupsUpTo(k))

LEMMA CurIs ==
    ASSUME NEW j \in Nat, NEW s
    PROVE  /\ IsFiniteSet(Cur(j, s)) /\ Cardinality(Cur(j, s)) \in Nat
           /\ Cardinality(Cur(j, s)) = 0 <=> Cur(j, s) = {}
           /\ \A k \in 0..j : Cur(k, s) \subseteq Cur(j, s)
                              /\ Cardinality(Cur(k, s)) <= Cardinality(Cur(j, s))
<1>1. Cur(j, s) \in SUBSET (1..j)
  BY DEF Cur
<1>2. IsFiniteSet(Cur(j, s)) /\ Cardinality(Cur(j, s)) \in Nat
  BY <1>1, BoundedCount
<1>3. Cardinality(Cur(j, s)) = 0 <=> Cur(j, s) = {}
  BY <1>2, FS_EmptySet
<1>4. ASSUME NEW k \in 0..j
      PROVE  Cur(k, s) \subseteq Cur(j, s) /\ Cardinality(Cur(k, s)) <= Cardinality(Cur(j, s))
  <2>1. \A m \in 1..k : m \in 1..j
    OBVIOUS
  <2>2. Cur(k, s) \in SUBSET Cur(j, s)
    BY <2>1 DEF Cur
  <2> QED BY <1>2, <2>2, FS_Subset
<1> QED
  BY <1>2, <1>3, <1>4

LEMMA CurNext ==
    ASSUME NEW j \in Nat, IsWord(j + 1)
    PROVE  LET s == SignsBefore(j + 1)
           IN /\ Cur(j + 1, s) = Cur(j, s) \cup {j + 1}
              /\ Cardinality(Cur(j + 1, s)) = Cardinality(Cur(j, s)) + 1
<1> DEFINE s == SignsBefore(j + 1)
<1>1. j + 1 \in 1..(j + 1) /\ j + 1 \notin 1..j
      /\ (\A x \in 1..(j + 1) : x = j + 1 \/ x \in 1..j) /\ (\A x \in 1..j : x \in 1..(j + 1))
  OBVIOUS
<1>2. Cur(j + 1, s) = Cur(j, s) \cup {j + 1} /\ j + 1 \notin Cur(j, s)
  BY <1>1 DEF Cur
<1>3. IsFiniteSet(Cur(j, s))
  BY CurIs
<1> HIDE DEF s
<1>4. Cardinality(Cur(j + 1, s)) = Cardinality(Cur(j, s)) + 1
  BY <1>2, <1>3, FS_AddElement
<1> QED
  BY <1>2, <1>4 DEF s

LEMMA GroupsIs ==
    ASSUME toks \in Seq(Seq(Chars))
    PROVE  /\ \A k \in 1..Len(toks) : IsWord(k) => Group(k) \in Groups /\ k \in Group(k)
           /\ \A H \in Groups : /\ H # {} /\ H \subseteq 1..Len(toks)
                                /\ \A k \in H : IsWord(k) /\ H = Group(k)
           /\ \A k : IsFiniteSet(GroupsUpTo(k)) /\ Rank(k) \in Nat
           /\ GroupsUpTo(0) = {} /\ GroupsUpTo(Len(toks)) = Groups
<1>0. Len(toks) \in Nat
  OBVIOUS
<1>1. ASSUME NEW k \in 1..Len(toks), IsWord(k) PROVE Group(k) \in Groups /\ k \in Group(k)
  <2>1. k \in Group(k)
    BY <1>1 DEF Group, Cur
  <2>2. SignsBefore(k) \in 0..Len(toks)
    <3>1. k \in Nat \ {0} /\ k <= Len(toks)
      BY <1>0
    <3>2. SignsBefore(k) \in 0..(k - 1)
      BY <3>1, SignsIs
    <3> QED BY <1>0, <3>1, <3>2
  <2> QED BY <2>1, <2>2 DEF Groups, Group, Cur
<1>2. ASSUME NEW H \in Groups
      PROVE  H # {} /\ H \subseteq 1..Len(toks) /\ \A k \in H : IsWord(k) /\ H = Group(k)
  <2>1. PICK x \in 0..Len(toks) : H = Cur(Len(toks), x)
    BY DEF Groups, Cur
  <2>2. H # {}
    BY DEF Groups
  <2> QED BY <2>1, <2>2 DEF Group, Cur
<1>3. IsFiniteSet(SUBSET (1..Len(toks)))
  <2>1. IsFiniteSet(1..Len(toks))
    BY <1>0, FS_Interval
  <2> QED BY <2>1, FS_SUBSET
<1>4. ASSUME NEW k PROVE IsFiniteSet(GroupsUpTo(k)) /\ Rank(k) \in Nat
  <2>1. GroupsUpTo(k) \in SUBSET (SUBSET (1..Len(toks)))
    BY <1>2 DEF GroupsUpTo
  <2>2. IsFiniteSet(GroupsUpTo(k))
    BY <1>3, <2>1, FS_Subset
  <2> QED BY <2>2, FS_CardinalityType DEF Rank
<1>5. GroupsUpTo(0) = {}
  <2>1. \A m \in 1..Len(toks) : ~(m <= 0)
    BY <1>0
  <2> QED BY <1>2, <2>1 DEF GroupsUpTo
<1>6. GroupsUpTo(Len(toks)) = Groups
  <2>1. \A m \in 1..Len(toks) : m <= Len(toks)
    BY <1>0
  <2> QED BY <1>2, <2>1 DEF GroupsUpTo
<1> QED
  BY <1>1, <1>2, <1>4, <1>5, <1>6

\* One token further: a word is in a group of its own, or in one that began.
LEMMA RankNext ==
    ASSUME toks \in Seq(Seq(Chars)), NEW j \in Nat, j + 1 <= Len(toks)
    PROVE  LET s == SignsBefore(j + 1)
           IN /\ ~IsWord(j + 1) => GroupsUpTo(j + 1) = GroupsUpTo(j)
              /\ IsWord(j + 1) /\ Cur(j, s) = {} => Rank(j + 1) = Rank(j) + 1
              /\ IsWord(j + 1) /\ Cur(j, s) # {} => Rank(j + 1) = Rank(j)
<1> DEFINE s == SignsBefore(j + 1)
           g == Group(j + 1)
<1>0. Len(toks) \in Nat /\ j + 1 \in 1..Len(toks)
  OBVIOUS
<1>1. \A m \in 1..Len(toks) : (m <= j + 1 <=> m <= j \/ m = j + 1) /\ (m <= j <=> m \in 1..j)
  BY <1>0
<1>2. \A H \in Groups : H \subseteq 1..Len(toks) /\ \A k \in H : IsWord(k) /\ H = Group(k)
  BY GroupsIs
<1>3. ASSUME ~IsWord(j + 1) PROVE GroupsUpTo(j + 1) = GroupsUpTo(j)
  <2>1. \A H \in Groups : j + 1 \notin H
    BY <1>2, <1>3
  <2> QED BY <1>1, <1>2, <2>1 DEF GroupsUpTo
<1>4. ASSUME IsWord(j + 1) PROVE GroupsUpTo(j + 1) = GroupsUpTo(j) \cup {g}
  <2>1. g \in Groups /\ j + 1 \in g
    BY <1>0, <1>4, GroupsIs
  <2>2. \A H \in Groups : j + 1 \in H => H = g
    BY <1>2
  <2> HIDE DEF g
  <2>3. j + 1 <= j + 1
    OBVIOUS
  <2> QED BY <1>1, <1>2, <2>1, <2>2, <2>3 DEF GroupsUpTo
<1>5. ASSUME IsWord(j + 1) PROVE g \in GroupsUpTo(j) <=> Cur(j, s) # {}
  <2>1. g \in Groups
    BY <1>0, <1>5, GroupsIs
  <2>2. g \in GroupsUpTo(j) <=> \E m \in g : m <= j
    BY <2>1 DEF GroupsUpTo
  <2>3. (\E m \in g : m <= j) <=> Cur(j, s) # {}
    <3>1. \A m \in 1..j : m \in 1..Len(toks)
      BY <1>0
    <3> QED BY <1>1, <3>1 DEF Group, Cur
  <2> QED BY <2>2, <2>3
<1>6. IsFiniteSet(GroupsUpTo(j)) /\ Rank(j) \in Nat
  BY GroupsIs
<1> HIDE DEF g
<1>7. ASSUME IsWord(j + 1), Cur(j, s) = {} PROVE Rank(j + 1) = Rank(j) + 1
  BY <1>4, <1>5, <1>6, <1>7, FS_AddElement DEF Rank
<1>8. ASSUME IsWord(j + 1), Cur(j, s) # {} PROVE Rank(j + 1) = Rank(j)
  BY <1>4, <1>5, <1>6, <1>8, FS_AddElement DEF Rank
<1> QED
  BY <1>3, <1>7, <1>8

LEMMA RankMonotone ==
    ASSUME toks \in Seq(Seq(Chars)), NEW k \in Nat, NEW m \in Nat, k <= m
    PROVE  Rank(k) <= Rank(m)
<1>0. Len(toks) \in Nat
  OBVIOUS
<1>1. \A x \in 1..Len(toks) : x <= k => x <= m
  BY <1>0
<1>2. GroupsUpTo(k) \in SUBSET GroupsUpTo(m)
  BY <1>1, GroupsIs DEF GroupsUpTo
<1> QED
  BY <1>2, GroupsIs, FS_Subset DEF Rank

\* Word k is at its place in the command of its rank.
Filed(cs, k) ==
    /\ Rank(k) \in 1..Len(cs)
    /\ Len(cs[Rank(k)]) = Cardinality(Group(k))
    /\ cs[Rank(k)][Place(k)] = toks[k]

\* Between two commands: the words up to j are filed.
Closed(j, cs) ==
    /\ Len(cs) = Rank(j)
    /\ \A k \in 1..j : IsWord(k) => Filed(cs, k)

\* Within a command: words after the last sign are in a, the others filed.
Open(j, cs, a) ==
    LET s == SignsBefore(j + 1)
    IN /\ Len(a) = Cardinality(Cur(j, s))
       /\ Rank(j) = Len(cs) + (IF a = <<>> THEN 0 ELSE 1)
       /\ \A k \in 1..j : IsWord(k) =>
             \/ SignsBefore(k) < s /\ Filed(cs, k)
             \/ SignsBefore(k) = s /\ Rank(k) = Len(cs) + 1 /\ a[Place(k)] = toks[k]

LEMMA SamePipeline ==
    ASSUME toks' = toks
    PROVE  /\ \A j, s : Cur(j, s)' = Cur(j, s)
           /\ \A k : Group(k)' = Group(k)
           /\ \A k : Place(k)' = Place(k)
           /\ \A k : Rank(k)' = Rank(k)
           /\ \A cs, k : Filed(cs, k)' = Filed(cs, k)
           /\ \A cs, j : Closed(j, cs)' = Closed(j, cs)
           /\ \A cs, j, a : Open(j, cs, a)' = Open(j, cs, a)
<1>1. /\ \A j, s : Cur(j, s)' = Cur(j, s)
      /\ \A k : SignsBefore(k)' = SignsBefore(k)
      /\ \A k : IsWord(k)' = IsWord(k)
  BY SameTokens DEF Cur
<1>2. /\ \A k : Group(k)' = Group(k)
      /\ \A k : Place(k)' = Place(k)
      /\ \A k : Rank(k)' = Rank(k)
  BY <1>1, SameTokens DEF Group, Place, Rank
<1>3. \A cs, k : Filed(cs, k)' = Filed(cs, k)
  BY <1>2 DEF Filed
<1>4. /\ \A cs, j : Closed(j, cs)' = Closed(j, cs)
      /\ \A cs, j, a : Open(j, cs, a)' = Open(j, cs, a)
  BY <1>1, <1>2, <1>3 DEF Closed, Open
<1> QED
  BY <1>1, <1>2, <1>3, <1>4

\* A command begins after a sign, so nothing that came before belongs to it.
LEMMA Opening ==
    ASSUME toks \in Seq(Seq(Chars)), NEW j \in 0..Len(toks), NEW cs, Len(cs) \in Nat,
           Closed(j, cs), \A k \in 1..j : IsWord(k) => SignsBefore(k) < SignsBefore(j + 1)
    PROVE  Open(j, cs, <<>>)
<1> DEFINE s == SignsBefore(j + 1)
<1>0. j \in Nat /\ s \in Nat
  <2>1. j \in Nat /\ j + 1 \in Nat \ {0}
    OBVIOUS
  <2>2. s \in 0..((j + 1) - 1)
    BY <2>1, SignsIs
  <2> QED BY <2>1, <2>2
<1>1. Cur(j, s) = {}
  <2>1. \A k \in 1..j : IsWord(k) => SignsBefore(k) # s
    <3>1. \A k \in 1..j : SignsBefore(k) \in Nat
      <4>1. \A k \in 1..j : k \in Nat \ {0}
        OBVIOUS
      <4> QED BY <4>1, SignsIs
    <3> QED BY <1>0, <3>1
  <2> QED BY <2>1 DEF Cur
<1>2. Cardinality(Cur(j, s)) = 0
  BY <1>1, FS_EmptySet
<1>3. Rank(j) = Len(cs) + 0
  BY DEF Closed
<1> QED
  BY <1>2, <1>3 DEF Open, Closed

\* A word joins the command that is open.
LEMMA Taking ==
    ASSUME toks \in Seq(Seq(Chars)), NEW j \in Nat, j + 1 <= Len(toks), IsWord(j + 1),
           NEW cs, Len(cs) \in Nat, NEW a \in Seq(Seq(Chars)), Open(j, cs, a)
    PROVE  Open(j + 1, cs, Append(a, toks[j + 1]))
<1> DEFINE s == SignsBefore(j + 1)
           b == Append(a, toks[j + 1])
<1>0. Len(toks) \in Nat /\ j + 1 \in Nat \ {0} /\ Len(a) \in Nat /\ toks[j + 1] \in Seq(Chars)
  <2>1. Len(toks) \in Nat /\ j + 1 \in 1..Len(toks)
    OBVIOUS
  <2> QED BY <2>1, ElementOfSeq
<1>1. SignsBefore((j + 1) + 1) = s
  BY <1>0, SignsIs DEF IsWord
<1>2. /\ Cur(j + 1, s) = Cur(j, s) \cup {j + 1}
      /\ Cardinality(Cur(j + 1, s)) = Cardinality(Cur(j, s)) + 1
  BY CurNext
<1>3. /\ b \in Seq(Seq(Chars)) /\ Len(b) = Len(a) + 1
      /\ b[Len(a) + 1] = toks[j + 1] /\ (\A m \in 1..Len(a) : b[m] = a[m]) /\ b # <<>>
  <2>1. /\ b \in Seq(Seq(Chars)) /\ Len(b) = Len(a) + 1
        /\ b[Len(a) + 1] = toks[j + 1] /\ (\A m \in 1..Len(a) : b[m] = a[m])
    BY <1>0, AppendProperties
  <2> HIDE DEF b
  <2>2. Len(b) # 0 /\ Len(<<>>) = 0
    BY <1>0, <2>1
  <2> QED BY <2>1, <2>2
<1> HIDE DEF b
<1>4. Len(a) = Cardinality(Cur(j, s)) /\ Rank(j) = Len(cs) + (IF a = <<>> THEN 0 ELSE 1)
  BY DEF Open
<1>5. Rank(j + 1) = Len(cs) + 1
  <2>1. CASE a = <<>>
    <3>1. Cur(j, s) = {}
      <4>1. Cardinality(Cur(j, s)) = 0
        BY <1>4, <2>1
      <4> QED BY <4>1, CurIs
    <3>2. Rank(j + 1) = Rank(j) + 1
      BY <3>1, RankNext
    <3> QED BY <1>4, <2>1, <3>2
  <2>2. CASE a # <<>>
    <3>1. Cur(j, s) # {}
      <4>1. Len(a) # 0
        BY <2>2, EmptySeq
      <4>2. Cardinality(Cur(j, s)) # 0
        BY <1>4, <4>1
      <4> QED BY <4>2, CurIs
    <3>2. Rank(j + 1) = Rank(j)
      BY <3>1, RankNext
    <3> QED BY <1>4, <2>2, <3>2
  <2> QED BY <2>1, <2>2
<1>6. Place(j + 1) = Len(a) + 1
  BY <1>2, <1>4 DEF Place
<1>7. ASSUME NEW k \in 1..(j + 1), IsWord(k)
      PROVE  \/ SignsBefore(k) < s /\ Filed(cs, k)
             \/ SignsBefore(k) = s /\ Rank(k) = Len(cs) + 1 /\ b[Place(k)] = toks[k]
  <2>1. CASE k = j + 1
    BY <1>3, <1>5, <1>6, <2>1
  <2>2. CASE k # j + 1
    <3>1. k \in 1..j
      BY <2>2
    <3>2. CASE SignsBefore(k) < s /\ Filed(cs, k)
      BY <3>2
    <3>3. CASE SignsBefore(k) = s /\ Rank(k) = Len(cs) + 1 /\ a[Place(k)] = toks[k]
      <4>1. k \in Nat /\ k \in 0..j /\ k \in 1..k
        BY <3>1
      <4>2. k \in Cur(k, s)
        BY <1>7, <3>3, <4>1 DEF Cur
      <4>3. /\ Cardinality(Cur(k, s)) \in Nat /\ Cardinality(Cur(k, s)) # 0
            /\ Cardinality(Cur(k, s)) <= Cardinality(Cur(j, s))
        <5>1. Cardinality(Cur(k, s)) \in Nat /\ Cardinality(Cur(k, s)) # 0
          BY <4>1, <4>2, CurIs
        <5>2. Cardinality(Cur(k, s)) <= Cardinality(Cur(j, s))
          BY <4>1, CurIs
        <5> QED BY <5>1, <5>2
      <4>4. Place(k) = Cardinality(Cur(k, s))
        BY <3>3 DEF Place
      <4>5. Place(k) \in 1..Len(a)
        BY <1>0, <1>4, <4>3, <4>4
      <4> QED BY <1>3, <3>3, <4>5
    <3> QED BY <3>1, <3>2, <3>3, <1>7 DEF Open
  <2> QED BY <2>1, <2>2
<1>8. Len(b) = Cardinality(Cur(j + 1, s)) /\ Rank(j + 1) = Len(cs) + (IF b = <<>> THEN 0 ELSE 1)
  BY <1>2, <1>3, <1>4, <1>5
<1> QED
  BY <1>1, <1>7, <1>8 DEF Open, b

\* At a sign, or at the end, the words of the open command are all there are
\* of their group.
LEMMA Closing ==
    ASSUME toks \in Seq(Seq(Chars)), NEW j \in 0..Len(toks), j = Len(toks) \/ IsSign(j + 1),
           NEW cs \in Seq(Seq(Seq(Chars))), NEW a \in Seq(Seq(Chars)), Open(j, cs, a)
    PROVE  Closed(j, IF a = <<>> THEN cs ELSE Append(cs, a))
<1> DEFINE s == SignsBefore(j + 1)
           ds == IF a = <<>> THEN cs ELSE Append(cs, a)
<1>0. Len(toks) \in Nat /\ j \in Nat /\ j + 1 \in Nat \ {0} /\ Len(cs) \in Nat /\ Len(a) \in Nat
  OBVIOUS
<1>1. /\ a # <<>> => Len(ds) = Len(cs) + 1 /\ ds[Len(cs) + 1] = a
      /\ a = <<>> => Len(ds) = Len(cs)
      /\ \A r \in 1..Len(cs) : r \in 1..Len(ds) /\ ds[r] = cs[r]
  <2>1. /\ Len(Append(cs, a)) = Len(cs) + 1 /\ Append(cs, a)[Len(cs) + 1] = a
        /\ \A r \in 1..Len(cs) : Append(cs, a)[r] = cs[r]
    BY AppendProperties
  <2>2. \A r \in 1..Len(cs) : r \in 1..(Len(cs) + 1)
    BY <1>0
  <2> QED BY <2>1, <2>2
<1> HIDE DEF ds
<1>2. Len(a) = Cardinality(Cur(j, s)) /\ Rank(j) = Len(cs) + (IF a = <<>> THEN 0 ELSE 1)
  BY DEF Open
<1>3. Cur(Len(toks), s) = Cur(j, s)
  <2>1. ASSUME NEW m \in 1..Len(toks), IsWord(m), SignsBefore(m) = s PROVE m \in 1..j
    <3>1. SUFFICES ASSUME ~(m <= j) PROVE FALSE
      BY <1>0
    <3>2. IsSign(j + 1) /\ m # j + 1
      <4>1. j # Len(toks)
        BY <1>0, <3>1
      <4> QED BY <2>1, <4>1 DEF IsWord
    <3>3. j + 1 < m /\ m \in Nat \ {0}
      BY <1>0, <3>1, <3>2
    <3>4. s + 1 <= s
      BY <1>0, <2>1, <3>2, <3>3, SignsIs
    <3>5. s \in 0..((j + 1) - 1)
      BY <1>0, SignsIs
    <3> QED BY <1>0, <3>4, <3>5
  <2>2. \A m \in 1..j : m \in 1..Len(toks)
    BY <1>0
  <2> QED BY <2>1, <2>2 DEF Cur
<1>4. Len(ds) = Rank(j)
  BY <1>0, <1>1, <1>2
<1>5. ASSUME NEW k \in 1..j, IsWord(k) PROVE Filed(ds, k)
  <2>1. CASE SignsBefore(k) < s /\ Filed(cs, k)
    BY <1>1, <2>1 DEF Filed
  <2>2. CASE SignsBefore(k) = s /\ Rank(k) = Len(cs) + 1 /\ a[Place(k)] = toks[k]
    <3>1. k \in Cur(j, s)
      BY <1>5, <2>2 DEF Cur
    <3>2. a # <<>>
      <4>1. Cardinality(Cur(j, s)) # 0
        BY <1>0, <3>1, CurIs
      <4> QED BY <1>2, <4>1
    <3>3. Group(k) = Cur(j, s)
      BY <1>3, <2>2 DEF Group
    <3>4. Len(cs) + 1 \in 1..(Len(cs) + 1)
      BY <1>0
    <3> QED BY <1>1, <1>2, <2>2, <3>2, <3>3, <3>4 DEF Filed
  <2> QED BY <1>5, <2>1, <2>2 DEF Open
<1> QED
  BY <1>4, <1>5 DEF Closed, ds

\* Signs and files change nothing.
LEMMA Passing ==
    ASSUME toks \in Seq(Seq(Chars)), NEW j \in Nat, j + 1 <= Len(toks), ~IsWord(j + 1),
           NEW cs, Closed(j, cs)
    PROVE  Closed(j + 1, cs)
<1>1. Rank(j + 1) = Rank(j)
  BY RankNext DEF Rank
<1>2. \A k \in 1..(j + 1) : k = j + 1 \/ k \in 1..j
  OBVIOUS
<1> QED
  BY <1>1, <1>2 DEF Closed

\* The last file named up to j is the redirection.
Redirected(j, r, a) ==
    /\ \A k \in 1..j : IsFile(k) /\ (\A m \in (k + 1)..j : ~IsFile(m))
                       => r = toks[k] /\ (a <=> Len(toks[k - 1]) = 2)
    /\ (\A k \in 1..j : ~IsFile(k)) => r = NoFile

\* What build_pipeline() has done with the tokens it consumed.
BuildInv ==
    /\ pc \in {"read", "scan", "word"} => redir = NoFile
    /\ pc \in {"build", "command"} =>
          Redirected(i, redir, append) /\ (i < Len(toks) => ~IsFile(i + 1))
    /\ pc = "command" => Open(i, cmds, argv)
    /\ pc = "build" => /\ Closed(i, cmds)
                       /\ i < Len(toks) => \A k \in 1..i : IsWord(k) =>
                                              SignsBefore(k) < SignsBefore(i + 1)

\* A token that names no file leaves the redirection as it is.
LEMMA NoFileNext ==
    ASSUME NEW j \in Nat, NEW r, NEW a, Redirected(j, r, a), ~IsFile(j + 1)
    PROVE  Redirected(j + 1, r, a)
<1>1. \A k \in 1..(j + 1) : k = j + 1 \/ k \in 1..j
  OBVIOUS
<1>2. \A k \in 1..j : k \in 1..(j + 1) /\ \A m \in (k + 1)..j : m \in (k + 1)..(j + 1)
  OBVIOUS
<1> QED
  BY <1>1, <1>2 DEF Redirected

LEMMA FileNamed ==
    ASSUME NEW j \in Nat \ {0}, IsFile(j + 1), NEW r, NEW a,
           r = toks[j + 1], a <=> Len(toks[j]) = 2
    PROVE  Redirected(j + 1, r, a)
<1>1. j + 1 \in 1..(j + 1) /\ (j + 1) - 1 = j
  OBVIOUS
<1>2. \A k \in 1..(j + 1) : k = j + 1 \/ j + 1 \in (k + 1)..(j + 1)
  OBVIOUS
<1> QED
  BY <1>1, <1>2 DEF Redirected

LEMMA LaterSigns ==
    ASSUME NEW j \in Nat, IsSign(j + 1), NEW n \in Nat, j + 1 < n
    PROVE  \A k \in 1..(j + 1) : SignsBefore(k) < SignsBefore(n)
<1>1. ASSUME NEW k \in 1..(j + 1) PROVE SignsBefore(k) < SignsBefore(n)
  <2>0. k \in Nat \ {0} /\ j + 1 \in Nat \ {0} /\ n \in Nat \ {0} /\ k <= j + 1
    OBVIOUS
  <2>1. /\ SignsBefore(k) <= SignsBefore(j + 1)
        /\ SignsBefore(j + 1) + 1 <= SignsBefore(n)
    BY <2>0, SignsIs
  <2>2. SignsBefore(k) \in Nat /\ SignsBefore(j + 1) \in Nat /\ SignsBefore(n) \in Nat
    <3>1. \A x \in Nat \ {0} : SignsBefore(x) \in 0..(x - 1)
      BY SignsIs
    <3>2. \A x \in Nat \ {0} : \A y \in 0..(x - 1) : y \in Nat
      OBVIOUS
    <3> QED BY <2>0, <3>1, <3>2
  <2> QED BY <2>1, <2>2
<1> QED BY <1>1

LEMMA BuildStep ==
    ASSUME toks' = toks, pc' \in {"build", "command"},
           Redirected(i', redir', append'), i' < Len(toks) => ~IsFile(i' + 1),
           pc' = "command" => Open(i', cmds', argv'),
           pc' = "build" => /\ Closed(i', cmds')
                            /\ i' < Len(toks) => \A k \in 1..i' : IsWord(k) =>
                                                   SignsBefore(k) < SignsBefore(i' + 1)
    PROVE  BuildInv'
<1>1. Redirected(i, redir, append)' <=> Redirected(i', redir', append')
  BY SameTokens DEF Redirected
<1>2. IsFile(i + 1)' <=> IsFile(i' + 1)
  BY SameTokens
<1>3. Open(i, cmds, argv)' <=> Open(i', cmds', argv')
  BY SameTokens, SamePipeline DEF Open
<1>4. Closed(i, cmds)' <=> Closed(i', cmds')
  BY SameTokens, SamePipeline DEF Closed
<1>5. (\A k \in 1..i : IsWord(k) => SignsBefore(k) < SignsBefore(i + 1))'
      <=> (\A k \in 1..i' : IsWord(k) => SignsBefore(k) < SignsBefore(i' + 1))
  BY SameTokens
<1> QED
  BY <1>1, <1>2, <1>3, <1>4, <1>5 DEF BuildInv

LEMMA BuildBack ==
    ASSUME NEW label \in {"read", "closed"}, NEW freed, Back(label, freed)
    PROVE  BuildInv'
BY DEF Back, BuildInv

LEMMA BuildScanned ==
    ASSUME TypeInv, BuildInv,
           (\E c \in Chars : ReadChar(c)) \/ EndLine \/ Hangup \/ Tokenize
    PROVE  BuildInv'
<1>1. /\ pc \in {"read", "scan", "word"} /\ redir' = redir /\ i' = i /\ cmds' = cmds
      /\ pc' \in {"read", "scan", "word", "build", "closed"}
      /\ pc' = "build" => toks' = toks
  BY DEF ReadChar, EndLine, Hangup, Tokenize, EndScan, Terminate, SkipSpace, ScanSign,
         Operator, BeginWord, WordChar, EndWord, building, scanning
<1>2. i' = 0 /\ cmds' = <<>> /\ redir' = NoFile
  BY <1>1 DEF TypeInv, BuildInv
<1>3. CASE pc' = "build"
  <2>0. toks' = toks /\ toks \in Seq(Seq(Chars))
    BY <1>1, <1>3 DEF TypeInv
  <2>1. 1..0 = {}
    OBVIOUS
  <2>2. Closed(0, <<>>)
    <3>1. GroupsUpTo(0) = {}
      BY <2>0, GroupsIs
    <3>2. Rank(0) = 0
      BY <3>1, FS_EmptySet DEF Rank
    <3> QED BY <2>1, <3>2 DEF Closed
  <2>3. Redirected(0, NoFile, append')
    BY <2>1 DEF Redirected
  <2>4. ~IsFile(0 + 1)
    BY DEF IsFile
  <2> QED BY <1>2, <1>3, <2>0, <2>1, <2>2, <2>3, <2>4, BuildStep
<1> QED
  BY <1>1, <1>2, <1>3 DEF BuildInv

LEMMA BuildBuilt ==
    ASSUME TypeInv, BuildInv, Build
    PROVE  BuildInv'
<1>t. /\ toks \in Seq(Seq(Chars)) /\ i \in 0..Len(toks) /\ argv \in Seq(Seq(Chars))
      /\ cmds \in Seq(Seq(Seq(Chars)))
  BY DEF TypeInv
<1>0. Len(toks) \in Nat /\ i \in Nat /\ i + 1 \in Nat \ {0} /\ Len(cmds) \in Nat
      /\ (i < Len(toks) => i + 1 <= Len(toks))
  BY <1>t
<1>f. pc \in {"build", "command"} =>
         Redirected(i, redir, append) /\ (i < Len(toks) => ~IsFile(i + 1))
  BY DEF BuildInv
<1>1. CASE NewCommand
  <2>1. CASE Len(cmds) >= MaxPipe
    BY <1>1, <2>1, BuildBack DEF NewCommand, ParseError
  <2>2. CASE ~(Len(cmds) >= MaxPipe)
    <3>1. /\ pc = "build" /\ i < Len(toks) /\ pc' = "command" /\ argv' = <<>>
          /\ UNCHANGED <<toks, i, cmds, redir, append>>
      BY <1>1, <2>2 DEF NewCommand, scanning
    <3>2. Open(i, cmds, <<>>)
      BY <1>t, <1>0, <3>1, Opening DEF BuildInv
    <3> QED BY <1>f, <3>1, <3>2, BuildStep
  <2> QED BY <2>1, <2>2
<1>2. CASE TakeWord
  <2>1. /\ pc = "command" /\ i < Len(toks) /\ toks[i + 1] \notin Redirs \cup {Bar}
        /\ argv' = Append(argv, toks[i + 1]) /\ i' = i + 1
        /\ UNCHANGED <<pc, toks, cmds, redir, append>>
    BY <1>2 DEF TakeWord, scanning
  <2>2. IsWord(i + 1) /\ ~IsFile(i + 1) /\ ~IsFile(i' + 1)
    <3>1. ~IsFile(i + 1)
      BY <1>f, <2>1
    <3>2. ~IsRedir(i + 1)
      BY <2>1 DEF IsRedir
    <3> QED BY <1>0, <2>1, <3>1, <3>2, FileNext DEF IsWord, IsSign
  <2>3. Open(i', cmds', argv')
    BY <1>t, <1>0, <2>1, <2>2, Taking DEF BuildInv
  <2>4. Redirected(i', redir', append')
    BY <1>f, <1>0, <2>1, <2>2, NoFileNext
  <2> QED BY <2>1, <2>2, <2>3, <2>4, BuildStep
<1>c. ASSUME pc = "command", CloseCommand, i = Len(toks) \/ IsSign(i + 1)
      PROVE  pc' = "build" /\ Closed(i, cmds')
  <2>1. pc' = "build" /\ cmds' = IF argv = <<>> THEN cmds ELSE Append(cmds, argv)
    BY <1>c DEF CloseCommand
  <2> QED BY <1>t, <1>c, <2>1, Closing DEF BuildInv
<1>3. CASE TakeBar
  <2>1. /\ pc = "command" /\ i < Len(toks) /\ toks[i + 1] = Bar /\ i' = i + 1
        /\ CloseCommand /\ UNCHANGED <<toks, redir, append>>
    BY <1>3 DEF TakeBar, scanning
  <2>2. IsSign(i + 1) /\ ~IsWord(i + 1) /\ ~IsFile(i + 1) /\ ~IsFile(i' + 1)
    <3>1. ~IsFile(i + 1)
      BY <1>f, <2>1
    <3>2. ~IsRedir(i + 1)
      BY <2>1 DEF IsRedir, Bar, Redirs
    <3> QED BY <1>0, <2>1, <3>1, <3>2, FileNext DEF IsWord, IsSign
  <2>3. pc' = "build" /\ Closed(i, cmds')
    BY <1>c, <2>1, <2>2
  <2>4. Closed(i', cmds')
    BY <1>t, <1>0, <2>1, <2>2, <2>3, Passing
  <2>5. Redirected(i', redir', append')
    BY <1>f, <1>0, <2>1, <2>2, NoFileNext
  <2>6. \A k \in 1..i' : SignsBefore(k) < SignsBefore(i' + 1)
    <3>1. (i + 1) + 1 \in Nat /\ i + 1 < (i + 1) + 1
      BY <1>0
    <3> QED BY <1>0, <2>1, <2>2, <3>1, LaterSigns
  <2> QED BY <2>1, <2>2, <2>3, <2>4, <2>5, <2>6, BuildStep
<1>4. CASE TakeRedirection
  <2>0. pc = "command" /\ i < Len(toks) /\ toks[i + 1] \in Redirs
    BY <1>4 DEF TakeRedirection
  <2>1. CASE i + 1 >= Len(toks)
    BY <1>4, <2>1, BuildBack DEF TakeRedirection, ParseError
  <2>2. CASE ~(i + 1 >= Len(toks))
    <3>1. /\ redir' = toks[i + 2] /\ append' = (toks[i + 1] = <<">", ">">>) /\ i' = i + 2
          /\ CloseCommand /\ UNCHANGED toks
      BY <1>4, <2>2 DEF TakeRedirection, scanning
    <3>2. i + 2 = (i + 1) + 1 /\ i' = (i + 1) + 1 /\ (i + 1) + 1 <= Len(toks) /\ i + 1 \in Nat
      BY <1>0, <2>2, <3>1
    <3>3. ~IsFile(i + 1) /\ IsSign(i + 1) /\ IsRedir(i + 1)
      BY <1>f, <2>0 DEF IsSign, IsRedir
    <3>4. IsFile((i + 1) + 1) /\ ~IsWord(i + 1) /\ ~IsWord((i + 1) + 1)
      BY <1>0, <3>3, FileNext DEF IsWord
    <3>5. ~IsFile(i' + 1)
      <4>1. (i + 1) + 1 \in Nat \ {0}
        BY <1>0
      <4> QED BY <3>2, <3>4, <4>1, FileNext
    <3>6. pc' = "build" /\ Closed(i, cmds')
      BY <1>c, <2>0, <3>1, <3>3
    <3>7. Closed(i + 1, cmds')
      BY <1>t, <1>0, <2>0, <3>4, <3>6, Passing
    <3>8. Closed(i', cmds')
      BY <1>t, <3>2, <3>4, <3>7, Passing
    <3>9. append' <=> Len(toks[i + 1]) = 2
      <4>1. toks[i + 1] = <<">">> \/ toks[i + 1] = <<">", ">">>
        BY <2>0 DEF Redirs
      <4>2. Len(<<">">>) = 1 /\ Len(<<">", ">">>) = 2
        OBVIOUS
      <4>3. <<">">> # <<">", ">">>
        BY <4>2
      <4>4. toks[i + 1] = <<">", ">">> <=> Len(toks[i + 1]) = 2
        <5>1. CASE toks[i + 1] = <<">">>
          <6>1. Len(toks[i + 1]) = 1 /\ 1 # 2
            BY <4>2, <5>1
          <6> QED BY <4>3, <5>1, <6>1
        <5>2. CASE toks[i + 1] = <<">", ">">>
          BY <4>2, <5>2
        <5> QED BY <4>1, <5>1, <5>2
      <4> QED BY Zenon, <3>1, <4>4
    <3>10. Redirected(i', redir', append')
      BY <1>0, <3>1, <3>2, <3>4, <3>9, FileNamed
    <3>11. \A k \in 1..i' : IsWord(k) => SignsBefore(k) < SignsBefore(i' + 1)
      <4>1. i' + 1 \in Nat /\ i + 1 < i' + 1
        BY <1>0, <3>2
      <4>2. \A k \in 1..i' : k \in 1..(i + 1) \/ k = (i + 1) + 1
        BY <1>0, <3>2
      <4> QED BY <1>0, <3>3, <3>4, <4>1, <4>2, LaterSigns
    <3> QED BY <3>1, <3>5, <3>6, <3>8, <3>10, <3>11, BuildStep
  <2> QED BY <2>1, <2>2
<1>5. CASE TokensEnd
  <2>1. /\ pc = "command" /\ i >= Len(toks) /\ CloseCommand
        /\ UNCHANGED <<toks, i, redir, append>>
    BY <1>5 DEF TokensEnd, scanning
  <2>2. i = Len(toks) /\ ~(i < Len(toks))
    BY <1>t, <1>0, <2>1
  <2>3. pc' = "build" /\ Closed(i, cmds')
    BY <1>c, <2>1, <2>2
  <2> QED BY <1>f, <2>1, <2>2, <2>3, BuildStep
<1>6. CASE Execute
  BY <1>6, BuildBack DEF Execute
<1> QED
  BY <1>1, <1>2, <1>3, <1>4, <1>5, <1>6 DEF Build

LEMMA BuildInitial == Init => BuildInv
BY DEF Init, BuildInv

LEMMA BuildInductive == TypeInv /\ BuildInv /\ [Next]_vars => BuildInv'
<1> SUFFICES ASSUME TypeInv, BuildInv, [Next]_vars PROVE BuildInv'
  OBVIOUS
<1>1. CASE UNCHANGED vars
  <2>1. UNCHANGED <<pc, toks, i, argv, cmds, redir, append>>
    BY <1>1 DEF vars
  <2>2. CASE pc \in {"build", "command"}
    BY <2>1, <2>2, BuildStep DEF BuildInv
  <2> QED BY <2>1, <2>2 DEF BuildInv
<1> QED
  BY <1>1, BuildScanned, BuildBuilt DEF Next

\* For every line: when its pipeline is executed, every word is in the command
\* of its place between the signs, and the last file named is the redirection.
THEOREM WordsAsGrouped == Spec => []GroupedAsWritten
<1>1. TypeInv /\ BuildInv => GroupedAsWritten
  <2> SUFFICES ASSUME TypeInv, BuildInv, pc = "build", i >= Len(toks)
               PROVE  /\ Len(cmds) = Cardinality(Groups)
                      /\ \A G \in Groups, k \in 1..Len(toks) : k \in G =>
                            LET cmd == cmds[Cardinality(GroupsUpTo(k))]
                            IN Len(cmd) = Cardinality(G)
                               /\ cmd[Cardinality({m \in G : m <= k})] = toks[k]
                      /\ Redirected(Len(toks), redir, append)
    BY DEF GroupedAsWritten, Redirected
  <2>1. toks \in Seq(Seq(Chars)) /\ Len(toks) \in Nat /\ i = Len(toks)
    BY DEF TypeInv
  <2>2. Redirected(Len(toks), redir, append) /\ Closed(Len(toks), cmds)
    BY <2>1 DEF BuildInv
  <2>3. Len(cmds) = Cardinality(Groups)
    BY <2>1, <2>2, GroupsIs DEF Closed, Rank
  <2>4. ASSUME NEW G \in Groups, NEW k \in 1..Len(toks), k \in G
        PROVE  /\ Len(cmds[Rank(k)]) = Cardinality(G)
               /\ cmds[Rank(k)][Cardinality({m \in G : m <= k})] = toks[k]
    <3>1. IsWord(k) /\ G = Group(k)
      BY <2>1, <2>4, GroupsIs
    <3>2. {m \in G : m <= k} = Cur(k, SignsBefore(k))
      <4>1. \A m \in 1..Len(toks) : m <= k <=> m \in 1..k
        BY <2>1
      <4>2. \A m \in 1..k : m \in 1..Len(toks)
        BY <2>1
      <4> QED BY <3>1, <4>1, <4>2 DEF Group, Cur
    <3>3. Filed(cmds, k)
      BY <2>2, <3>1 DEF Closed
    <3> QED BY <3>1, <3>2, <3>3 DEF Filed, Place
  <2> QED BY <2>2, <2>3, <2>4 DEF Rank
<1> QED
  BY <1>1, TypeInitial, TypeInductive, BuildInitial, BuildInductive, PTL DEF Spec

-----------------------------------------------------------------------------
(* What a line allocated. *)

\* The sums that Words[] are, of any commands.
WordsOf(cs) == CHOOSE f : f = [k \in Nat |-> IF k = 0 THEN 0 ELSE Len(cs[k]) + f[k - 1]]

\* The first n of them.
Summed(cs, n, g) == g = [k \in 0..n |-> IF k = 0 THEN 0 ELSE Len(cs[k]) + g[k - 1]]

LEMMA SummedExists ==
    ASSUME NEW cs
    PROVE  \A n \in Nat : \E g : Summed(cs, n, g)
<1> DEFINE T == {n \in Nat : ~\E g : Summed(cs, n, g)}
<1> SUFFICES ASSUME T # {} PROVE FALSE
  OBVIOUS
<1>1. PICK n \in T : \A m \in T : n <= m
  <2>1. T \in SUBSET Nat
    OBVIOUS
  <2> HIDE DEF T
  <2> QED BY <2>1, LeastNatural
<1>2. n # 0
  <2> DEFINE g == [k \in 0..0 |-> 0]
  <2>1. \A k \in 0..0 : k = 0
    OBVIOUS
  <2>2. Summed(cs, 0, g)
    BY <2>1 DEF Summed
  <2> QED BY <2>2
<1>3. n - 1 \in Nat /\ n - 1 \notin T
  <2>1. n \in Nat /\ n - 1 \in Nat /\ ~(n <= n - 1)
    BY <1>2
  <2> QED BY <1>1, <2>1
<1>4. PICK g : Summed(cs, n - 1, g)
  BY <1>3
<1> DEFINE h == [k \in 0..n |-> IF k = n THEN Len(cs[n]) + g[n - 1] ELSE g[k]]
<1>5. ASSUME NEW k \in 0..n PROVE h[k] = IF k = 0 THEN 0 ELSE Len(cs[k]) + h[k - 1]
  <2>0. n - 1 \in 0..n /\ n - 1 # n
    BY <1>2
  <2>1. CASE k = n
    <3>1. h[n] = Len(cs[n]) + g[n - 1]
      BY <2>1
    <3>2. h[n - 1] = g[n - 1]
      BY <2>0
    <3> QED BY <1>2, <2>1, <3>1, <3>2
  <2>2. CASE k # n
    <3>1. k \in 0..(n - 1) /\ (k # 0 => k - 1 \in 0..n /\ k - 1 # n)
      BY <2>2
    <3>2. g[k] = IF k = 0 THEN 0 ELSE Len(cs[k]) + g[k - 1]
      BY <1>4, <3>1 DEF Summed
    <3>3. h[k] = g[k] /\ (k # 0 => h[k - 1] = g[k - 1])
      BY <2>2, <3>1
    <3> QED BY <3>2, <3>3
  <2> QED BY <2>1, <2>2
<1>6. h = [k \in 0..n |-> h[k]]
  OBVIOUS
<1> HIDE DEF h
<1>7. Summed(cs, n, h)
  BY <1>5, <1>6 DEF Summed
<1> QED
  BY <1>7

LEMMA SummedOnce ==
    ASSUME NEW cs, NEW n \in Nat, NEW m \in Nat, NEW g, NEW h, Summed(cs, n, g), Summed(cs, m, h)
    PROVE  \A k \in Nat : k <= n /\ k <= m => g[k] = h[k]
<1> DEFINE T == {k \in Nat : k <= n /\ k <= m /\ g[k] # h[k]}
<1> SUFFICES ASSUME T # {} PROVE FALSE
  OBVIOUS
<1>1. PICK k \in T : \A x \in T : k <= x
  <2>1. T \in SUBSET Nat
    OBVIOUS
  <2> HIDE DEF T
  <2> QED BY <2>1, LeastNatural
<1>2. k \in 0..n /\ k \in 0..m
  OBVIOUS
<1>3. /\ g[k] = IF k = 0 THEN 0 ELSE Len(cs[k]) + g[k - 1]
      /\ h[k] = IF k = 0 THEN 0 ELSE Len(cs[k]) + h[k - 1]
  BY <1>2 DEF Summed
<1>4. k # 0 => g[k - 1] = h[k - 1]
  <2>1. k # 0 => k - 1 \in Nat /\ k - 1 <= n /\ k - 1 <= m /\ ~(k <= k - 1)
    OBVIOUS
  <2> QED BY <1>1, <2>1
<1> QED
  BY <1>3, <1>4

LEMMA WordsOfIs ==
    ASSUME NEW cs
    PROVE  /\ WordsOf(cs)[0] = 0
           /\ \A k \in Nat \ {0} : WordsOf(cs)[k] = Len(cs[k]) + WordsOf(cs)[k - 1]
<1> DEFINE G(n) == CHOOSE g : Summed(cs, n, g)
           f == [k \in Nat |-> G(k)[k]]
<1>1. \A n \in Nat : Summed(cs, n, G(n))
  BY SummedExists
<1> HIDE DEF G
<1>2. ASSUME NEW k \in Nat PROVE f[k] = IF k = 0 THEN 0 ELSE Len(cs[k]) + f[k - 1]
  <2>1. f[k] = G(k)[k] /\ k \in 0..k
    OBVIOUS
  <2>2. G(k)[k] = IF k = 0 THEN 0 ELSE Len(cs[k]) + G(k)[k - 1]
    BY <1>1, <2>1 DEF Summed
  <2>3. k # 0 => G(k)[k - 1] = f[k - 1]
    <3>1. k # 0 => k - 1 \in Nat /\ k - 1 <= k /\ k - 1 <= k - 1
      OBVIOUS
    <3>2. k # 0 => G(k)[k - 1] = G(k - 1)[k - 1]
      BY <1>1, <3>1, SummedOnce
    <3> QED BY <3>1, <3>2
  <2> QED BY <2>1, <2>2, <2>3
<1>3. f = [k \in Nat |-> f[k]]
  OBVIOUS
<1> HIDE DEF f
<1>4. f = [k \in Nat |-> IF k = 0 THEN 0 ELSE Len(cs[k]) + f[k - 1]]
  BY <1>2, <1>3
<1>5. WordsOf(cs) = [k \in Nat |-> IF k = 0 THEN 0 ELSE Len(cs[k]) + WordsOf(cs)[k - 1]]
  BY Zenon, <1>4 DEF WordsOf
<1> DEFINE w == WordsOf(cs)
<1>6. w = [k \in Nat |-> IF k = 0 THEN 0 ELSE Len(cs[k]) + w[k - 1]]
  BY <1>5
<1> HIDE DEF w
<1>7. w[0] = 0 /\ \A k \in Nat \ {0} : w[k] = Len(cs[k]) + w[k - 1]
  BY <1>6
<1> QED
  BY <1>7 DEF w

\* Sequences with the same beginning have the same sums that far.
LEMMA WordsOfPrefix ==
    ASSUME NEW cs, NEW ds, NEW n \in Nat, \A k \in 1..n : Len(cs[k]) \in Nat /\ ds[k] = cs[k]
    PROVE  \A k \in 0..n : WordsOf(cs)[k] \in Nat /\ WordsOf(ds)[k] = WordsOf(cs)[k]
<1> DEFINE v == WordsOf(cs)
           w == WordsOf(ds)
           T == {k \in Nat : k <= n /\ ~(v[k] \in Nat /\ w[k] = v[k])}
<1>0. /\ v[0] = 0 /\ \A k \in Nat \ {0} : v[k] = Len(cs[k]) + v[k - 1]
      /\ w[0] = 0 /\ \A k \in Nat \ {0} : w[k] = Len(ds[k]) + w[k - 1]
  BY WordsOfIs
<1> HIDE DEF v, w
<1>1. SUFFICES ASSUME T # {} PROVE FALSE
  BY DEF v, w
<1>2. PICK k \in T : \A x \in T : k <= x
  <2>1. T \in SUBSET Nat
    OBVIOUS
  <2> HIDE DEF T
  <2> QED BY <1>1, <2>1, LeastNatural
<1>3. k # 0
  BY <1>0
<1>4. k \in 1..n /\ k \in Nat \ {0} /\ k - 1 \in Nat /\ k - 1 <= n /\ ~(k <= k - 1)
  BY <1>3
<1>5. v[k - 1] \in Nat /\ w[k - 1] = v[k - 1]
  BY <1>2, <1>4
<1>6. Len(ds[k]) = Len(cs[k]) /\ Len(cs[k]) \in Nat
  BY <1>4
<1> QED
  BY <1>0, <1>4, <1>5, <1>6

\* Blocks held for the pipeline built so far, and for the command under way.
Held(cs, r) == WordsOf(cs)[Len(cs)] + Len(cs) + (IF r = NoFile THEN 0 ELSE 1)

\* Every block allocated is one that will be freed, if the line is well formed.
HeapInv ==
    /\ pc \in {"scan", "word"} => (Cardinality(Starts) <= MaxToks => heap = Len(toks))
    /\ pc = "command" /\ argv = <<>> => i < Len(toks)
    /\ pc = "build" /\ WellFormed => heap = Len(toks) + Held(cmds, redir)
    /\ pc = "command" /\ WellFormed =>
          heap = Len(toks) + Held(cmds, redir) + Len(argv) + 1

LEMMA SameForm ==
    ASSUME line' = line, toks' = toks
    PROVE  WellFormed' <=> WellFormed
BY SameGrammar, SameTokens DEF WellFormed

LEMMA HeldIs ==
    ASSUME NEW cs \in Seq(Seq(Seq(Chars))), NEW r
    PROVE  /\ Held(cs, r) \in Nat
           /\ \A a \in Seq(Seq(Chars)) : Held(Append(cs, a), r) = Held(cs, r) + Len(a) + 1
<1>0. Len(cs) \in Nat /\ \A k \in 1..Len(cs) : cs[k] \in Seq(Seq(Chars)) /\ Len(cs[k]) \in Nat
  <2>1. \A k \in 1..Len(cs) : cs[k] \in Seq(Seq(Chars))
    BY ElementOfSeq
  <2> QED BY <2>1
<1> DEFINE n == Len(cs)
<1>1. WordsOf(cs)[n] \in Nat
  <2>1. n \in 0..n
    BY <1>0
  <2> QED BY <1>0, <2>1, WordsOfPrefix
<1>2. Held(cs, r) \in Nat
  BY <1>0, <1>1 DEF Held
<1>3. ASSUME NEW a \in Seq(Seq(Chars))
      PROVE  Held(Append(cs, a), r) = Held(cs, r) + Len(a) + 1
  <2> DEFINE ds == Append(cs, a)
  <2>1. Len(ds) = n + 1 /\ ds[n + 1] = a /\ \A k \in 1..n : ds[k] = cs[k]
    BY AppendProperties
  <2> HIDE DEF ds
  <2>2. WordsOf(ds)[n] = WordsOf(cs)[n]
    <3>1. n \in 0..n
      BY <1>0
    <3> QED BY <1>0, <2>1, <3>1, WordsOfPrefix
  <2>3. WordsOf(ds)[n + 1] = Len(a) + WordsOf(cs)[n]
    <3>1. n + 1 \in Nat \ {0} /\ (n + 1) - 1 = n
      BY <1>0
    <3> QED BY <2>1, <2>2, <3>1, WordsOfIs
  <2>4. Len(a) \in Nat
    OBVIOUS
  <2> DEFINE e == IF r = NoFile THEN 0 ELSE 1
             w == WordsOf(cs)[n]
  <2>5. Held(ds, r) = (Len(a) + w) + (n + 1) + e
    BY <2>1, <2>3 DEF Held
  <2>6. Held(cs, r) = w + n + e /\ e \in Nat /\ w \in Nat /\ n \in Nat
    BY <1>0, <1>1 DEF Held
  <2> HIDE DEF e, w, n
  <2>7. Held(ds, r) = Held(cs, r) + Len(a) + 1
    BY <2>4, <2>5, <2>6
  <2> QED BY <2>7 DEF ds
<1> QED
  BY <1>2, <1>3

LEMMA HeapScanned ==
    ASSUME TypeInv, ScanInv, BuildInv, HeapInv,
           (\E c \in Chars : ReadChar(c)) \/ EndLine \/ Hangup \/ Tokenize
    PROVE  HeapInv'
<1>t. /\ line \in Seq(Chars) /\ toks \in Seq(Seq(Chars)) /\ MaxToks \in Nat
      /\ start \in Nat \ {0} /\ Len(toks) <= MaxToks
  BY ConstantsAssumption DEF TypeInv
<1>0. /\ Len(toks) \in Nat /\ Cardinality(Starts) \in Nat
      /\ \A k : Cnt(k) \in Nat /\ Cnt(k) <= Cardinality(Starts)
  BY <1>t, CntIs
<1>1. CASE (\E c \in Chars : ReadChar(c)) \/ Hangup
  BY <1>1 DEF ReadChar, Hangup, HeapInv
<1>2. CASE EndLine
  <2>1. pc = "read" /\ heap' = 0 /\ toks' = toks /\ pc' \in {"read", "scan"}
    BY <1>2 DEF EndLine
  <2>2. Len(toks') = 0
    BY <2>1 DEF TypeInv
  <2> QED BY <2>1, <2>2 DEF HeapInv
<1>3. CASE Tokenize
  <2>0. pc \in {"scan", "word"} /\ line' = line /\ UNCHANGED <<cmds, redir>>
    BY <1>3 DEF Tokenize, EndScan, SkipSpace, ScanSign, BeginWord, WordChar, EndWord,
                scanning, building
  <2>s. Starts' = Starts
    BY <2>0, SameGrammar
  <2>h. Cardinality(Starts) <= MaxToks => heap = Len(toks)
    BY <2>0 DEF HeapInv
  <2>1. CASE Terminate /\ UNCHANGED <<toks, heap>>
    <3>1. pc' = "build"
      BY <2>1 DEF Terminate
    <3>2. WellFormed' => Cardinality(Starts) <= MaxToks
      BY <2>s DEF WellFormed
    <3>3. Held(cmds', redir') = 0
      <4>1. cmds' = <<>> /\ redir' = NoFile
        BY <2>0 DEF TypeInv, BuildInv
      <4>2. WordsOf(<<>>)[0] = 0
        BY WordsOfIs
      <4> QED BY <4>1, <4>2 DEF Held
    <3>4. WellFormed' => heap' = Len(toks') + Held(cmds', redir')
      BY <1>0, <2>1, <2>h, <3>2, <3>3
    <3> QED BY <3>1, <3>4 DEF HeapInv, Held
  <2>2. CASE pc' \in {"scan", "word"} /\ UNCHANGED <<toks, heap>>
    BY <2>2, <2>h, <2>s DEF HeapInv
  <2>3. CASE pc' = "scan" /\ heap' = heap + 1 /\ \E t : toks' = Append(toks, t)
    <3>1. Len(toks') = Len(toks) + 1
      BY <1>t, <2>3
    <3> QED BY <1>0, <2>3, <2>h, <2>s, <3>1 DEF HeapInv
  <2>4. CASE pc = "word" /\ pc' = "scan" /\ ~(Len(toks) < MaxToks)
    <3>1. Recorded(toks, start) /\ start \in Starts
      BY <2>4 DEF ScanInv
    <3>2. Len(toks) <= Cnt(start)
      BY <3>1 DEF Recorded
    <3>3. Cnt(start + 1) = Cnt(start) + 1
      <4>1. start + 1 \in Nat /\ start < start + 1
            /\ \A x \in (start + 1)..((start + 1) - 1) : x \notin Starts
        BY <1>t
      <4> QED BY <1>t, <3>1, <4>1, CntNext
    <3>4. ~(Cardinality(Starts) <= MaxToks)
      <4>1. Cnt(start) \in Nat /\ Cnt(start + 1) <= Cardinality(Starts)
        BY <1>0
      <4> QED BY <1>t, <1>0, <2>4, <3>2, <3>3, <4>1
    <3> QED BY <2>4, <2>s, <3>4 DEF HeapInv
  <2> QED
    BY <1>3, <2>1, <2>2, <2>3, <2>4 DEF Tokenize, EndScan, SkipSpace, ScanSign, Operator,
       BeginWord, WordChar, EndWord, scanning, Terminate
<1> QED
  BY <1>1, <1>2, <1>3

\* In a well-formed line a command is closed with words in it.
LEMMA ClosedWithWords ==
    ASSUME TypeInv, BuildInv, HeapInv, WellFormed, pc = "command", i >= Len(toks) \/ IsSign(i + 1)
    PROVE  argv # <<>>
<1>0. toks \in Seq(Seq(Chars)) /\ Len(toks) \in Nat /\ i \in 0..Len(toks) /\ i \in Nat
  BY DEF TypeInv
<1>1. CASE i >= Len(toks)
  BY <1>0, <1>1 DEF HeapInv
<1>2. CASE i < Len(toks) /\ IsSign(i + 1)
  <2>1. i + 1 \in 1..Len(toks) /\ (i + 1) - 1 = i
    BY <1>0, <1>2
  <2>2. i + 1 > 1 /\ IsWord(i)
    BY <1>2, <2>1 DEF WellFormed
  <2>3. i \in Nat \ {0} /\ i \in 1..i
    BY <1>0, <2>2
  <2>4. SignsBefore(i + 1) = SignsBefore(i)
    BY <2>2, <2>3, SignsIs DEF IsWord
  <2>5. i \in Cur(i, SignsBefore(i + 1))
    BY <2>2, <2>3, <2>4 DEF Cur
  <2>6. Cardinality(Cur(i, SignsBefore(i + 1))) # 0
    BY <1>0, <2>5, CurIs
  <2>7. Len(argv) # 0
    BY <2>6 DEF BuildInv, Open
  <2> QED BY <2>7
<1> QED
  BY <1>0, <1>1, <1>2

\* A second file would make the line malformed.
LEMMA FirstFile ==
    ASSUME WellFormed, toks \in Seq(Seq(Chars)), NEW k \in 1..Len(toks), IsFile(k)
    PROVE  \A m \in 1..Len(toks) : m # k => ~IsFile(m)
<1> DEFINE F == {x \in 1..Len(toks) : IsFile(x)}
<1>0. Len(toks) \in Nat /\ F \in SUBSET (1..Len(toks))
  OBVIOUS
<1>1. Cardinality(F) <= 1
  BY DEF WellFormed
<1>2. ASSUME NEW m \in 1..Len(toks), m # k, IsFile(m) PROVE FALSE
  <2>1. {k, m} \in SUBSET F
    BY <1>2
  <2> HIDE DEF F
  <2>2. IsFiniteSet(F) /\ Cardinality(F) \in Nat
    BY <1>0, BoundedCount
  <2>3. Cardinality({k, m}) \in Nat /\ Cardinality({k, m}) <= Cardinality(F)
    BY <2>1, <2>2, FS_Subset, FS_CardinalityType
  <2>4. Cardinality({k}) = 1 /\ IsFiniteSet({k})
    BY FS_Singleton
  <2>5. {k, m} = {k} \cup {m} /\ m \notin {k}
    BY <1>2
  <2>6. Cardinality({k, m}) = 2
    <3>1. Cardinality({k} \cup {m}) = Cardinality({k}) + 1
      BY <2>4, <2>5, FS_AddElement
    <3>2. Cardinality({k, m}) = Cardinality({k} \cup {m})
      BY <2>5
    <3> QED BY <2>4, <3>1, <3>2
  <2> QED BY <1>1, <2>2, <2>3, <2>6
<1> QED
  BY <1>2

LEMMA HeapBuilt ==
    ASSUME TypeInv, BuildInv, HeapInv, Build
    PROVE  HeapInv'
<1>t. /\ toks \in Seq(Seq(Chars)) /\ argv \in Seq(Seq(Chars))
      /\ cmds \in Seq(Seq(Seq(Chars))) /\ i \in 0..Len(toks)
  BY DEF TypeInv
<1>0. Len(toks) \in Nat /\ i \in Nat /\ Len(argv) \in Nat /\ Held(cmds, redir) \in Nat
  BY <1>t, HeldIs
<1>b. ASSUME NEW label \in {"read", "closed"}, NEW freed, Back(label, freed) PROVE HeapInv'
  BY <1>b DEF Back, HeapInv
<1>f. pc \in {"build", "command"} /\ i < Len(toks) => ~IsFile(i + 1)
  BY DEF BuildInv
<1>1. CASE NewCommand
  <2>1. CASE Len(cmds) >= MaxPipe
    BY <1>1, <1>b, <2>1 DEF NewCommand, ParseError
  <2>2. CASE ~(Len(cmds) >= MaxPipe)
    <3>1. /\ pc = "build" /\ i < Len(toks) /\ pc' = "command" /\ argv' = <<>>
          /\ heap' = heap + 1 /\ UNCHANGED <<line, toks, i, cmds, redir>>
      BY <1>1, <2>2 DEF NewCommand, scanning
    <3>2. WellFormed' => WellFormed
      BY <3>1, SameForm
    <3>3. WellFormed => heap + 1 = Len(toks) + Held(cmds, redir) + Len(<<>>) + 1
      <4>1. WellFormed => heap = Len(toks) + Held(cmds, redir)
        BY <3>1 DEF HeapInv
      <4> QED BY <1>0, <4>1
    <3> QED BY <3>1, <3>2, <3>3 DEF HeapInv, Held
  <2> QED BY <2>1, <2>2
<1>2. CASE TakeWord
  <2> DEFINE a == Append(argv, toks[i + 1])
  <2>1. /\ pc = "command" /\ pc' = "command" /\ i < Len(toks) /\ argv' = a
        /\ heap' = heap + 1 /\ UNCHANGED <<line, toks, cmds, redir>>
    BY <1>2 DEF TakeWord, scanning
  <2>2. Len(a) = Len(argv) + 1
    BY <1>t
  <2> HIDE DEF a
  <2>3. a # <<>>
    <3>1. Len(a) # 0 /\ Len(<<>>) = 0
      BY <1>0, <2>2
    <3> QED BY <3>1
  <2>4. WellFormed' => WellFormed
    BY <2>1, SameForm
  <2>5. WellFormed => heap + 1 = Len(toks) + Held(cmds, redir) + Len(a) + 1
    <3>1. WellFormed => heap = Len(toks) + Held(cmds, redir) + Len(argv) + 1
      BY <2>1 DEF HeapInv
    <3> QED BY <1>0, <2>2, <3>1
  <2> QED BY <2>1, <2>3, <2>4, <2>5 DEF HeapInv, Held
<1>c. ASSUME pc = "command", CloseCommand, i >= Len(toks) \/ IsSign(i + 1), WellFormed
      PROVE  heap = Len(toks) + Held(cmds', redir)
  <2>1. argv # <<>>
    BY <1>c, ClosedWithWords
  <2>2. cmds' = Append(cmds, argv)
    BY <1>c, <2>1 DEF CloseCommand
  <2>3. Held(cmds', redir) = Held(cmds, redir) + Len(argv) + 1
    BY <1>t, <2>2, HeldIs
  <2>4. heap = Len(toks) + Held(cmds, redir) + Len(argv) + 1
    BY <1>c DEF HeapInv
  <2> QED BY <1>0, <2>3, <2>4
<1>3. CASE TakeBar \/ TokensEnd
  <2>1. /\ pc = "command" /\ CloseCommand /\ UNCHANGED <<line, toks, redir, heap>>
        /\ i >= Len(toks) \/ (i < Len(toks) /\ toks[i + 1] = Bar)
    BY <1>3 DEF TakeBar, TokensEnd, scanning
  <2>2. i >= Len(toks) \/ IsSign(i + 1)
    BY <1>f, <2>1 DEF IsSign
  <2>3. pc' = "build"
    BY <2>1 DEF CloseCommand
  <2>4. WellFormed' => WellFormed
    BY <2>1, SameForm
  <2>5. WellFormed => heap = Len(toks) + Held(cmds', redir)
    BY <1>c, <2>1, <2>2
  <2> QED BY <2>1, <2>3, <2>4, <2>5 DEF HeapInv, Held
<1>4. CASE TakeRedirection
  <2>0. pc = "command" /\ i < Len(toks) /\ toks[i + 1] \in Redirs
    BY <1>4 DEF TakeRedirection
  <2>1. CASE i + 1 >= Len(toks)
    BY <1>4, <1>b, <2>1 DEF TakeRedirection, ParseError
  <2>2. CASE ~(i + 1 >= Len(toks))
    <3>1. /\ redir' = toks[i + 2] /\ heap' = heap + 1 /\ CloseCommand /\ pc' = "build"
          /\ UNCHANGED <<line, toks>>
      BY <1>4, <2>2 DEF TakeRedirection, CloseCommand, scanning
    <3>2. ~IsFile(i + 1) /\ IsSign(i + 1) /\ IsRedir(i + 1)
      BY <1>f, <2>0 DEF IsSign, IsRedir
    <3>3. i + 2 \in 1..Len(toks) /\ i + 2 = (i + 1) + 1 /\ i + 1 \in Nat \ {0}
          /\ \A m \in 1..i : m \in 1..Len(toks) /\ m # i + 2
      BY <1>0, <2>2
    <3>4. IsFile(i + 2)
      BY <3>2, <3>3, FileNext
    <3>5. WellFormed => redir = NoFile
      <4>1. WellFormed => \A m \in 1..i : ~IsFile(m)
        BY <1>t, <3>3, <3>4, FirstFile
      <4> QED BY <2>0, <4>1 DEF BuildInv, Redirected
    <3>6. redir' # NoFile
      <4>1. redir' \in Seq(Chars)
        BY <1>t, <3>1, <3>3, ElementOfSeq
      <4>2. NoFile \notin Seq(Chars)
        <5>1. Len(NoFile) = 1 /\ NoFile[1] = "none" /\ 1 \in 1..1
          BY DEF NoFile
        <5>2. "none" \notin Chars
          BY DEF Chars, Breaks, Signs, Quote
        <5> QED BY <5>1, <5>2, ElementOfSeq
      <4> QED BY <4>1, <4>2
    <3>7. cmds' \in Seq(Seq(Seq(Chars)))
      BY <2>0, <3>1, CommandClosed
    <3>8. WellFormed => heap = Len(toks) + Held(cmds', redir)
      BY <1>c, <2>0, <3>1, <3>2
    <3>9. WellFormed => Held(cmds', redir') = Held(cmds', redir) + 1
      <4>1. Len(cmds') \in Nat /\ WordsOf(cmds')[Len(cmds')] \in Nat
        <5>1. Len(cmds') \in Nat /\ Len(cmds') \in 0..Len(cmds')
          BY <3>7
        <5>2. \A k \in 1..Len(cmds') : Len(cmds'[k]) \in Nat
          <6>1. \A k \in 1..Len(cmds') : cmds'[k] \in Seq(Seq(Chars))
            BY <3>7, ElementOfSeq
          <6> QED BY <6>1
        <5> QED BY <5>1, <5>2, WordsOfPrefix
      <4> QED BY <3>5, <3>6, <4>1 DEF Held
    <3>10. WellFormed => heap' = Len(toks) + Held(cmds', redir')
      <4>1. Held(cmds', redir) \in Nat
        BY <3>7, HeldIs
      <4> QED BY <1>0, <3>1, <3>8, <3>9, <4>1
    <3>11. WellFormed' => WellFormed
      BY <3>1, SameForm
    <3> QED BY <3>1, <3>10, <3>11 DEF HeapInv, Held
  <2> QED BY <2>1, <2>2
<1>5. CASE Execute
  BY <1>5, <1>b DEF Execute
<1> QED
  BY <1>1, <1>2, <1>3, <1>4, <1>5 DEF Build

\* A step that ends a well-formed line frees all the line allocated.
LEMMA HeapFreed ==
    ASSUME TypeInv, HeapInv, [Next]_vars
    PROVE  pc = "build" /\ pc' \in {"read", "closed"} /\ i >= Len(toks) /\ WellFormed
           => heap' = 0
<1> SUFFICES ASSUME pc = "build", pc' \in {"read", "closed"}, i >= Len(toks), WellFormed
             PROVE  heap' = 0
  OBVIOUS
<1>0. /\ cmds \in Seq(Seq(Seq(Chars))) /\ Len(toks) \in Nat /\ i \in Nat
  BY DEF TypeInv
<1>1. Execute
  <2>1. ~(i < Len(toks))
    BY <1>0
  <2> QED
    BY <2>1 DEF Next, vars, ReadChar, EndLine, Hangup, Tokenize, EndScan, SkipSpace, ScanSign,
           BeginWord, WordChar, EndWord, Build, NewCommand, TakeWord, TakeBar,
           TakeRedirection, TokensEnd
<1>2. heap' = heap - Freed
  BY <1>1 DEF Execute, Back
<1>3. Words = WordsOf(cmds)
  BY Zenon DEF Words, WordsOf
<1>4. Len(cmds) \in Nat /\ WordsOf(cmds)[Len(cmds)] \in Nat
  <2>1. Len(cmds) \in Nat /\ Len(cmds) \in 0..Len(cmds)
    BY <1>0
  <2>2. \A k \in 1..Len(cmds) : Len(cmds[k]) \in Nat
    <3>1. \A k \in 1..Len(cmds) : cmds[k] \in Seq(Seq(Chars))
      BY <1>0, ElementOfSeq
    <3> QED BY <3>1
  <2> QED BY <2>1, <2>2, WordsOfPrefix
<1>5. Freed = Len(toks) + Held(cmds, redir) /\ Held(cmds, redir) \in Nat
  <2>1. Freed = Len(toks) + WordsOf(cmds)[Len(cmds)] + Len(cmds) + (IF redir = NoFile THEN 0 ELSE 1)
    BY <1>3 DEF Freed
  <2> QED BY <1>0, <1>4, <2>1 DEF Held
<1>6. heap = Len(toks) + Held(cmds, redir)
  BY DEF HeapInv
<1> QED
  BY <1>0, <1>2, <1>5, <1>6

\* For every line and every limit: what a well-formed line allocated is freed
\* when its pipeline has been executed.
THEOREM WellFormedLinesFreed == Spec => WellFormedFreed
<1>1. Init => HeapInv
  BY DEF Init, HeapInv
<1>2. TypeInv /\ ScanInv /\ BuildInv /\ HeapInv /\ [Next]_vars => HeapInv'
  <2> SUFFICES ASSUME TypeInv, ScanInv, BuildInv, HeapInv, [Next]_vars PROVE HeapInv'
    OBVIOUS
  <2>1. CASE UNCHANGED vars
    <3>1. UNCHANGED <<pc, line, toks, i, argv, cmds, redir, heap>>
      BY <2>1 DEF vars
    <3>2. Starts' = Starts /\ (WellFormed' <=> WellFormed)
      BY <3>1, SameGrammar, SameForm
    <3> QED BY <3>1, <3>2 DEF HeapInv, Held
  <2> QED BY <2>1, HeapScanned, HeapBuilt DEF Next
<1>3. TypeInv /\ HeapInv /\ [Next]_vars =>
        [pc = "build" /\ pc' \in {"read", "closed"} /\ i >= Len(toks) /\ WellFormed
         => heap' = 0]_vars
  BY HeapFreed
<1> QED
  BY <1>1, <1>2, <1>3, TypeInitial, TypeInductive, ScanInitial, ScanInductive,
     BuildInitial, BuildInductive, PTL DEF Spec, WellFormedFreed
=============================================================================
