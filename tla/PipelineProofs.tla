--------------------------- MODULE PipelineProofs ---------------------------
(***************************************************************************)
(* Theorems about Pipeline, for any number of children, pipes, stages,     *)
(* interrupted waits and background children.                              *)
(***************************************************************************)
EXTENDS Pipeline, SequenceTheorems, FiniteSetTheorems, TLAPS

-----------------------------------------------------------------------------
(* Types. *)

Kid == [st : {"none", "setup", "run", "job", "dead"}, in : Pipes \cup {None},
        out : Pipes \cup {None}, left : 0..Output, line : Seq(Pipes)]

Ends == (Kids \cup {Session}) \X Pipes \X {"r", "w"}

\* There is a pipe between any two stages, once the stages are forked.
SessionInv ==
    /\ pc \in {"prompt", "pipe", "fork", "wait"}
    /\ n \in 0..MaxStages /\ i \in 0..n
    /\ line \in Seq(Pipes)
    /\ pc = "prompt" => n = 0 /\ i = 0 /\ line = <<>>
    /\ pc = "pipe" => n # 0 /\ i = 0 /\ Len(line) <= n - 1
    /\ pc \in {"fork", "wait"} => n # 0 /\ Len(line) = n - 1
    /\ lost \in 0..n /\ (pc # "wait" => lost <= i)
    /\ disturb \in 0..MaxDisturb

ChildInv ==
    /\ ends \subseteq Ends
    /\ buf \in [Pipes -> 0..Cap]
    /\ kid \in [Kids -> Kid]

LEMMA EmptyLine == <<>> \in Seq(Pipes) /\ Len(<<>>) = 0
OBVIOUS

LEMMA SessionInitial == Init => SessionInv
<1>1. 0 \in 0..MaxStages /\ 0 \in 0..0 /\ 0 \in 0..MaxDisturb
  BY ConstantsAssumption
<1> QED
  BY <1>1, EmptyLine DEF Init, SessionInv

LEMMA SessionReturns ==
    ASSUME SessionInv, Return
    PROVE  SessionInv'
<1>1. 0 \in 0..MaxStages /\ 0 \in 0..0
  BY ConstantsAssumption
<1> QED
  BY <1>1, EmptyLine DEF Return, SessionInv

LEMMA SessionInductive == SessionInv /\ [Next]_vars => SessionInv'
<1> SUFFICES ASSUME SessionInv, [Next]_vars PROVE SessionInv'
  OBVIOUS
<1>0. MaxStages \in Nat \ {0} /\ MaxDisturb \in Nat
  BY ConstantsAssumption
<1>n. n \in Nat /\ i \in Nat /\ disturb \in Nat /\ line \in Seq(Pipes) /\ Len(line) \in Nat
  BY <1>0 DEF SessionInv
<1>1. ASSUME NEW p \in Pipes, MakePipe(p) PROVE SessionInv'
  <2>1. /\ pc = "pipe" /\ Len(line) < n - 1 /\ line' = Append(line, p)
        /\ UNCHANGED <<pc, n, i, lost, disturb>>
    BY <1>1 DEF MakePipe
  <2>2. line' \in Seq(Pipes) /\ Len(line') = Len(line) + 1
    BY <2>1, <1>n, AppendProperties
  <2>3. Len(line') <= n - 1
    BY <2>1, <2>2, <1>n
  <2> QED BY <2>1, <2>2, <2>3 DEF SessionInv
<1>2. CASE PipeFails \/ LineDone
  BY <1>2, SessionReturns DEF PipeFails, LineDone
<1>3. CASE PipesMade
  BY <1>3, <1>n DEF PipesMade, SessionInv
<1>4. ASSUME NEW c \in Kids, ForkStage(c) PROVE SessionInv'
  BY <1>4, <1>n DEF ForkStage, SessionInv
<1>5. CASE ForkFails \/ CloseEnds
  BY <1>5, <1>n DEF ForkFails, CloseEnds, SessionInv
<1>6. ASSUME NEW c \in Kids, WaitReaps(c) PROVE SessionInv'
  BY <1>6, <1>n DEF WaitReaps, SessionInv
<1>7. CASE WaitNone
  BY <1>7, <1>n DEF WaitNone, NoChild, SessionInv
<1>8. CASE WaitInterrupted
  BY <1>8, <1>n, <1>0 DEF WaitInterrupted, SessionInv
<1>9. ASSUME NEW c \in Kids, KidStep(c) \/ Quits(c) PROVE SessionInv'
  <2>1. UNCHANGED <<pc, n, i, line, lost, disturb>>
    BY <1>9 DEF KidStep, Setup, Consumes, Produces, Sigpipe, Finishes, Quits, Dead
  <2> QED BY <2>1 DEF SessionInv
<1>10. ASSUME NEW c \in Kids, BuiltinStarts(c) PROVE SessionInv'
  BY <1>10, <1>n, <1>0 DEF BuiltinStarts, SessionInv
<1>11. ASSUME NEW m \in 1..MaxStages, ReadLine(m) PROVE SessionInv'
  <2>1. /\ pc = "prompt" /\ pc' = "pipe" /\ n' = m /\ UNCHANGED <<i, line, lost, disturb>>
    BY <1>11 DEF ReadLine
  <2>2. i = 0 /\ line = <<>> /\ lost = 0
    BY <2>1, <1>n DEF SessionInv
  <2>3. m \in 0..MaxStages /\ m # 0 /\ 0 \in 0..m /\ 0 <= m - 1
    BY <1>0
  <2> QED BY <2>1, <2>2, <2>3, EmptyLine DEF SessionInv
<1>12. CASE UNCHANGED vars
  BY <1>12 DEF vars, SessionInv
<1> QED
  BY <1>1, <1>2, <1>3, <1>4, <1>5, <1>6, <1>7, <1>8, <1>9, <1>10, <1>11, <1>12
     DEF Next, SessionStep

LEMMA NoKidIs == NoKid \in Kid /\ NoKid.st = "none"
<1>1. 0 \in 0..Output
  BY ConstantsAssumption
<1> QED
  BY <1>1, EmptyLine DEF NoKid, Kid

LEMMA ChildInitial == Init => ChildInv
<1>1. 0 \in 0..Cap
  BY ConstantsAssumption
<1> QED
  BY <1>1, NoKidIs DEF Init, ChildInv

\* A new stage is between the pipes of its place.
LEMMA ChildForked ==
    ASSUME SessionInv, ChildInv, NEW c \in Kids, ForkStage(c)
    PROVE  ChildInv'
<1> DEFINE new == [st |-> "setup", in |-> IF i > 0 THEN line[i] ELSE None,
                   out |-> IF i < n - 1 THEN line[i + 1] ELSE None,
                   left |-> Output, line |-> line]
<1>0. Output \in 0..Output /\ MaxStages \in Nat
  BY ConstantsAssumption
<1>1. /\ pc = "fork" /\ i < n /\ kid' = [kid EXCEPT ![c] = new]
      /\ ends' = ends \cup {<<c, e[2], e[3]>> : e \in {x \in ends : x[1] = Session}}
      /\ buf' = buf
  BY DEF ForkStage
<1>2. line \in Seq(Pipes) /\ Len(line) = n - 1 /\ n \in Nat /\ i \in Nat
  BY <1>0, <1>1 DEF SessionInv
<1>3. (i > 0 => line[i] \in Pipes) /\ (i < n - 1 => line[i + 1] \in Pipes)
  <2>1. (i > 0 => i \in 1..Len(line)) /\ (i < n - 1 => i + 1 \in 1..Len(line))
    BY <1>1, <1>2
  <2> QED BY <1>2, <2>1, ElementOfSeq
<1>4. new \in Kid
  BY <1>0, <1>2, <1>3 DEF Kid
<1> HIDE DEF new
<1>5. kid' \in [Kids -> Kid]
  BY <1>1, <1>4 DEF ChildInv
<1>6. ends' \subseteq Ends
  BY <1>1 DEF ChildInv, Ends
<1> QED
  BY <1>1, <1>5, <1>6 DEF ChildInv

LEMMA ChildSteps ==
    ASSUME ChildInv, NEW c \in Kids, KidStep(c) \/ Quits(c)
    PROVE  ChildInv'
<1>0. Cap \in Nat \ {0} /\ Output \in Nat
  BY ConstantsAssumption
<1>1. /\ kid \in [Kids -> Kid] /\ buf \in [Pipes -> 0..Cap] /\ ends \subseteq Ends
      /\ kid[c] \in Kid
  BY DEF ChildInv
<1>2. /\ kid[c].in \in Pipes \cup {None} /\ kid[c].out \in Pipes \cup {None}
      /\ kid[c].left \in 0..Output /\ kid[c].line \in Seq(Pipes)
      /\ kid[c].st \in {"none", "setup", "run", "job", "dead"}
  BY <1>1 DEF Kid
<1>3. \A s \in {"none", "setup", "run", "job", "dead"} : [kid EXCEPT ![c].st = s] \in [Kids -> Kid]
  <2> SUFFICES ASSUME NEW s \in {"none", "setup", "run", "job", "dead"}
               PROVE  [kid EXCEPT ![c].st = s] \in [Kids -> Kid]
    OBVIOUS
  <2>1. [kid[c] EXCEPT !.st = s] \in Kid
    BY <1>1 DEF Kid
  <2> QED BY <1>1, <2>1
<1>4. CASE Setup(c)
  BY <1>1, <1>3, <1>4 DEF Setup, ChildInv
<1>5. CASE Sigpipe(c) \/ Finishes(c) \/ Quits(c)
  BY <1>1, <1>3, <1>5 DEF Sigpipe, Finishes, Quits, Dead, ChildInv
<1>6. CASE Consumes(c)
  <2> DEFINE p == kid[c].in
  <2>1. p \in Pipes /\ buf[p] > 0 /\ buf' = [buf EXCEPT ![p] = buf[p] - 1]
        /\ UNCHANGED <<ends, kid>>
    BY <1>2, <1>6 DEF Consumes
  <2> HIDE DEF p
  <2>2. buf[p] - 1 \in 0..Cap
    BY <1>0, <1>1, <2>1
  <2>3. buf' \in [Pipes -> 0..Cap]
    BY <1>1, <2>1, <2>2
  <2> QED BY <2>1, <2>3 DEF ChildInv
<1>7. CASE Produces(c)
  <2> DEFINE p == kid[c].out
             l == kid[c].left - 1
  <2>1. /\ p \in Pipes /\ buf[p] < Cap /\ buf' = [buf EXCEPT ![p] = buf[p] + 1]
        /\ kid' = [kid EXCEPT ![c].left = l] /\ ends' = ends /\ l \in 0..Output
    BY <1>0, <1>2, <1>7 DEF Produces, Writing
  <2>2. [kid[c] EXCEPT !.left = l] \in Kid
    BY <1>1, <2>1 DEF Kid
  <2> HIDE DEF p, l
  <2>3. buf[p] + 1 \in 0..Cap
    BY <1>0, <1>1, <2>1
  <2>4. buf' \in [Pipes -> 0..Cap]
    BY <1>1, <2>1, <2>3
  <2>5. kid' \in [Kids -> Kid]
    BY <1>1, <2>1, <2>2
  <2> QED BY <2>1, <2>4, <2>5 DEF ChildInv
<1> QED
  BY <1>4, <1>5, <1>6, <1>7 DEF KidStep

LEMMA ChildInductive == SessionInv /\ ChildInv /\ [Next]_vars => ChildInv'
<1> SUFFICES ASSUME SessionInv, ChildInv, [Next]_vars PROVE ChildInv'
  OBVIOUS
<1>1. ASSUME NEW p \in Pipes, MakePipe(p) PROVE ChildInv'
  <2>1. 0 \in 0..Cap
    BY ConstantsAssumption
  <2> QED BY <1>1, <2>1 DEF MakePipe, ChildInv, Ends
<1>2. CASE PipeFails \/ LineDone \/ PipesMade \/ ForkFails \/ WaitNone \/ WaitInterrupted
  BY <1>2 DEF PipeFails, LineDone, Return, PipesMade, ForkFails, WaitNone, NoChild,
              WaitInterrupted, ChildInv
<1>3. ASSUME NEW c \in Kids, ForkStage(c) PROVE ChildInv'
  BY <1>3, ChildForked
<1>4. CASE CloseEnds
  BY <1>4 DEF CloseEnds, ChildInv
<1>5. ASSUME NEW c \in Kids, WaitReaps(c) PROVE ChildInv'
  BY <1>5, NoKidIs DEF WaitReaps, ChildInv
<1>6. ASSUME NEW c \in Kids, KidStep(c) \/ Quits(c) PROVE ChildInv'
  BY <1>6, ChildSteps
<1>7. ASSUME NEW c \in Kids, BuiltinStarts(c) PROVE ChildInv'
  <2>1. kid \in [Kids -> Kid] /\ kid' = [kid EXCEPT ![c].st = "job"]
        /\ UNCHANGED <<ends, buf>>
    BY <1>7 DEF BuiltinStarts, ChildInv
  <2>2. [kid[c] EXCEPT !.st = "job"] \in Kid
    BY <2>1 DEF Kid
  <2>3. kid' \in [Kids -> Kid]
    BY <2>1, <2>2
  <2> QED BY <2>1, <2>3 DEF ChildInv
<1>8. ASSUME NEW m \in 1..MaxStages, ReadLine(m) PROVE ChildInv'
  BY <1>8 DEF ReadLine, ChildInv
<1>9. CASE UNCHANGED vars
  BY <1>9 DEF vars, ChildInv
<1> QED
  BY <1>1, <1>2, <1>3, <1>4, <1>5, <1>6, <1>7, <1>8, <1>9 DEF Next, SessionStep

\* Types of Pipeline.
THEOREM PipelineTypes == Spec => []TypeOK
<1>1. SessionInv /\ ChildInv => TypeOK
  <2> SUFFICES ASSUME SessionInv, ChildInv PROVE TypeOK
    OBVIOUS
  <2>0. MaxStages \in Nat \ {0}
    BY ConstantsAssumption
  <2>1. /\ n \in 0..MaxStages /\ i \in 0..n /\ line \in Seq(Pipes)
        /\ Len(line) = 0 \/ (n # 0 /\ Len(line) <= n - 1)
    BY EmptyLine DEF SessionInv
  <2>2. i \in 0..MaxStages /\ Len(line) < MaxStages /\ lost \in 0..MaxStages
    BY <2>0, <2>1 DEF SessionInv
  <2>3. ASSUME NEW c \in Kids
        PROVE  /\ kid[c].st \in {"none", "setup", "run", "job", "dead"}
               /\ kid[c].in \in Pipes \cup {None}
               /\ kid[c].out \in Pipes \cup {None}
               /\ kid[c].left \in 0..Output
               /\ kid[c].line \in Seq(Pipes)
    <3>1. kid[c] \in Kid
      BY DEF ChildInv
    <3> QED BY <3>1 DEF Kid
  <2> QED BY <2>1, <2>2, <2>3 DEF TypeOK, SessionInv, ChildInv, Ends
<1> QED
  BY <1>1, SessionInitial, SessionInductive, ChildInitial, ChildInductive, PTL DEF Spec

-----------------------------------------------------------------------------
(* Children left behind. *)

Alive(k) == {c \in Kids : k[c].st # "none"}

\* While stages are forked there may be a child for each of them besides the
\* disturbances; while waiting, for each wait still to come.
CountInv ==
    /\ IsFiniteSet(Alive(kid))
    /\ pc \in {"prompt", "pipe"} => Cardinality(Alive(kid)) <= disturb
    /\ pc = "fork" => Cardinality(Alive(kid)) <= disturb + i
    /\ pc = "wait" => Cardinality(Alive(kid)) + i <= disturb + n

LEMMA CountInitial == Init => CountInv
<1> SUFFICES ASSUME Init PROVE CountInv
  OBVIOUS
<1>1. Alive(kid) = {}
  BY NoKidIs DEF Init, Alive
<1>2. IsFiniteSet({}) /\ Cardinality({}) = 0
  BY FS_EmptySet
<1>3. pc = "prompt" /\ disturb = 0
  BY DEF Init
<1>4. Cardinality(Alive(kid)) = 0
  BY <1>1, <1>2
<1>5. Cardinality(Alive(kid)) <= disturb
  BY <1>3, <1>4
<1> QED
  BY <1>1, <1>2, <1>3, <1>5 DEF CountInv

\* A child more, a child less.
LEMMA AliveMore ==
    ASSUME IsFiniteSet(Alive(kid)), NEW c \in Kids, kid \in [Kids -> Kid],
           kid[c].st = "none", NEW e, e.st # "none", kid' = [kid EXCEPT ![c] = e]
    PROVE  /\ IsFiniteSet(Alive(kid'))
           /\ Cardinality(Alive(kid')) = Cardinality(Alive(kid)) + 1
<1>1. Alive(kid') = Alive(kid) \cup {c} /\ c \notin Alive(kid)
  BY DEF Alive
<1>2. /\ IsFiniteSet(Alive(kid) \cup {c})
      /\ Cardinality(Alive(kid) \cup {c}) = Cardinality(Alive(kid)) + 1
  BY <1>1, FS_AddElement
<1> QED
  BY <1>1, <1>2

LEMMA AliveLess ==
    ASSUME IsFiniteSet(Alive(kid)), NEW c \in Kids, kid \in [Kids -> Kid],
           kid[c].st # "none", kid' = [kid EXCEPT ![c] = NoKid]
    PROVE  /\ IsFiniteSet(Alive(kid'))
           /\ Cardinality(Alive(kid')) = Cardinality(Alive(kid)) - 1
<1>1. Alive(kid') = Alive(kid) \ {c} /\ c \in Alive(kid)
  BY NoKidIs DEF Alive
<1> QED
  BY <1>1, FS_RemoveElement

\* A child that runs on, or dies: it is still to be waited for.
LEMMA AliveSame ==
    ASSUME ChildInv, NEW c \in Kids, KidStep(c) \/ Quits(c)
    PROVE  Alive(kid') = Alive(kid)
<1>1. kid \in [Kids -> Kid] /\ kid[c] \in Kid
  BY DEF ChildInv
<1>2. CASE Setup(c)
  <2>1. kid[c].st = "setup" /\ kid' = [kid EXCEPT ![c] = [kid[c] EXCEPT !.st = "run"]]
    BY <1>2 DEF Setup
  <2>2. kid'[c].st = "run" /\ \A x \in Kids \ {c} : kid'[x] = kid[x]
    BY <1>1, <2>1 DEF Kid
  <2> QED BY <2>1, <2>2 DEF Alive
<1>3. CASE Sigpipe(c) \/ Finishes(c) \/ Quits(c)
  <2>1. kid[c].st # "none" /\ kid' = [kid EXCEPT ![c] = [kid[c] EXCEPT !.st = "dead"]]
    BY <1>3 DEF Sigpipe, Finishes, Quits, Dead, Writing
  <2>2. kid'[c].st = "dead" /\ \A x \in Kids \ {c} : kid'[x] = kid[x]
    BY <1>1, <2>1 DEF Kid
  <2> QED BY <2>1, <2>2 DEF Alive
<1>4. CASE Consumes(c)
  BY <1>4 DEF Consumes
<1>5. CASE Produces(c)
  <2> DEFINE e == [kid[c] EXCEPT !.left = kid[c].left - 1]
  <2>1. kid' = [kid EXCEPT ![c] = e]
    BY <1>5 DEF Produces
  <2>2. e.st = kid[c].st
    BY <1>1 DEF Kid
  <2> HIDE DEF e
  <2>3. \A x \in Kids : kid'[x].st = kid[x].st
    BY <1>1, <2>1, <2>2
  <2> QED BY <2>3 DEF Alive
<1> QED
  BY <1>2, <1>3, <1>4, <1>5 DEF KidStep

LEMMA CountInductive == SessionInv /\ ChildInv /\ CountInv /\ [Next]_vars => CountInv'
<1> SUFFICES ASSUME SessionInv, ChildInv, CountInv, [Next]_vars PROVE CountInv'
  OBVIOUS
<1>0. MaxStages \in Nat \ {0} /\ MaxDisturb \in Nat
  BY ConstantsAssumption
<1> DEFINE a == Cardinality(Alive(kid))
           b == Cardinality(Alive(kid'))
<1>n. /\ n \in Nat /\ i \in 0..n /\ i \in Nat /\ disturb \in Nat
      /\ IsFiniteSet(Alive(kid)) /\ a \in Nat /\ kid \in [Kids -> Kid]
  BY <1>0, FS_CardinalityType DEF SessionInv, CountInv, ChildInv
<1>c. /\ pc \in {"prompt", "pipe"} => a <= disturb
      /\ pc = "fork" => a <= disturb + i
      /\ pc = "wait" => a + i <= disturb + n
  BY DEF CountInv
<1>s. SUFFICES /\ IsFiniteSet(Alive(kid'))
               /\ pc' \in {"prompt", "pipe"} => b <= disturb'
               /\ pc' = "fork" => b <= disturb' + i'
               /\ pc' = "wait" => b + i' <= disturb' + n'
  BY DEF CountInv, Alive
<1>k. kid' = kid => IsFiniteSet(Alive(kid')) /\ b = a
  BY <1>n
<1> HIDE DEF a, b
<1> DEFINE Goal == /\ IsFiniteSet(Alive(kid'))
                   /\ pc' \in {"prompt", "pipe"} => b <= disturb'
                   /\ pc' = "fork" => b <= disturb' + i'
                   /\ pc' = "wait" => b + i' <= disturb' + n'
<1>1. ASSUME NEW p \in Pipes, MakePipe(p) PROVE Goal
  BY <1>1, <1>n, <1>c, <1>k DEF MakePipe
<1>2. CASE PipeFails
  BY <1>2, <1>n, <1>c, <1>k DEF PipeFails, Return
<1>3. CASE LineDone
  BY <1>3, <1>n, <1>c, <1>k DEF LineDone, Return
<1>4. CASE PipesMade
  BY <1>4, <1>n, <1>c, <1>k DEF PipesMade
<1>5. ASSUME NEW c \in Kids, ForkStage(c) PROVE Goal
  <2> DEFINE e == [st |-> "setup", in |-> IF i > 0 THEN line[i] ELSE None,
                   out |-> IF i < n - 1 THEN line[i + 1] ELSE None,
                   left |-> Output, line |-> line]
  <2>0. kid' = [kid EXCEPT ![c] = e]
    BY <1>5 DEF ForkStage
  <2>1. e.st # "none" /\ kid' = [kid EXCEPT ![c] = e]
    BY <2>0
  <2> HIDE DEF e
  <2>2. /\ kid[c].st = "none" /\ pc = "fork" /\ pc' = "fork" /\ i' = i + 1
        /\ disturb' = disturb
    BY <1>5 DEF ForkStage
  <2>3. IsFiniteSet(Alive(kid')) /\ b = a + 1
    BY <1>n, <2>1, <2>2, AliveMore DEF a, b
  <2> QED BY <1>n, <1>c, <2>2, <2>3
<1>6. CASE ForkFails
  BY <1>6, <1>n, <1>c, <1>k DEF ForkFails
<1>7. CASE CloseEnds
  BY <1>7, <1>n, <1>c, <1>k DEF CloseEnds
<1>8. ASSUME NEW c \in Kids, WaitReaps(c) PROVE Goal
  <2>1. /\ kid[c].st = "dead" /\ pc = "wait" /\ pc' = "wait" /\ i' = i + 1
        /\ UNCHANGED <<disturb, n>> /\ kid' = [kid EXCEPT ![c] = NoKid]
    BY <1>8 DEF WaitReaps
  <2>2. IsFiniteSet(Alive(kid')) /\ b = a - 1
    BY <1>n, <2>1, AliveLess DEF a, b
  <2> QED BY <1>n, <1>c, <2>1, <2>2
<1>9. CASE WaitNone
  <2>1. /\ pc = "wait" /\ pc' = "wait" /\ i' = i + 1 /\ i < n /\ UNCHANGED <<disturb, n, kid>>
        /\ \A c \in Kids : kid[c].st = "none"
    BY <1>9 DEF WaitNone, NoChild
  <2>2. Alive(kid) = {}
    BY <2>1 DEF Alive
  <2>3. a = 0
    BY <2>2, FS_EmptySet DEF a
  <2> QED BY <1>n, <1>k, <2>1, <2>3
<1>10. CASE WaitInterrupted
  BY <1>10, <1>n, <1>c, <1>k DEF WaitInterrupted
<1>11. ASSUME NEW c \in Kids, KidStep(c) \/ Quits(c) PROVE Goal
  <2>1. UNCHANGED <<pc, n, i, disturb>>
    BY <1>11 DEF KidStep, Setup, Consumes, Produces, Sigpipe, Finishes, Quits, Dead
  <2>2. Alive(kid') = Alive(kid)
    BY <1>11, AliveSame
  <2>3. b = a /\ IsFiniteSet(Alive(kid'))
    BY <1>n, <2>2 DEF a, b
  <2> QED BY <1>c, <2>1, <2>3
<1>12. ASSUME NEW c \in Kids, BuiltinStarts(c) PROVE Goal
  <2> DEFINE e == [kid[c] EXCEPT !.st = "job"]
  <2>1. /\ kid[c].st = "none" /\ pc = "prompt" /\ pc' = "prompt"
        /\ disturb' = disturb + 1 /\ kid' = [kid EXCEPT ![c] = e]
    BY <1>12 DEF BuiltinStarts
  <2>2. e.st # "none"
    BY <1>n DEF Kid
  <2> HIDE DEF e
  <2>3. IsFiniteSet(Alive(kid')) /\ b = a + 1
    BY <1>n, <2>1, <2>2, AliveMore DEF a, b
  <2> QED BY <1>n, <1>c, <2>1, <2>3
<1>13. ASSUME NEW m \in 1..MaxStages, ReadLine(m) PROVE Goal
  BY <1>13, <1>n, <1>c, <1>k DEF ReadLine
<1>14. CASE UNCHANGED vars
  <2>1. UNCHANGED <<pc, n, i, kid, disturb>>
    BY <1>14 DEF vars
  <2> QED BY <2>1, <1>k, <1>c
<1> QED
  BY <1>1, <1>2, <1>3, <1>4, <1>5, <1>6, <1>7, <1>8, <1>9, <1>10, <1>11, <1>12, <1>13,
     <1>14 DEF Next, SessionStep

\* However the children of a line and of earlier lines die, and in whatever
\* order wait() collects them: at the prompt there are no more of them than
\* there were interrupted waits and background children.
THEOREM FewLeftBehind == Spec => []LeftBehind
<1>1. CountInv => LeftBehind
  BY DEF CountInv, LeftBehind, Alive
<1> QED
  BY <1>1, SessionInitial, SessionInductive, ChildInitial, ChildInductive,
     CountInitial, CountInductive, PTL DEF Spec
=============================================================================
