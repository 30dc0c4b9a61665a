------------------------------ MODULE Pipeline ------------------------------
(***************************************************************************)
(* A session running command lines: the pipes of a line, the child of each *)
(* stage, the descriptors each process holds, and the waits of             *)
(* execute_pipeline(), which collect any child of the session.             *)
(***************************************************************************)
EXTENDS Naturals, Sequences, FiniteSets

CONSTANTS
    Kids,           \* process ids for children of the session
    Pipes,          \* pipes the kernel can provide
    Session, None,
    MaxStages,      \* commands in a line (MAX_PIPE in the code)
    Cap,            \* what a pipe holds before a writer blocks
    Output,         \* what a stage has to write
    MaxDisturb      \* bound on interrupted waits and background children

ASSUME ConstantsAssumption ==
    /\ Session \notin Kids /\ None \notin Pipes
    /\ MaxStages \in Nat \ {0} /\ Cap \in Nat \ {0}
    /\ Output \in Nat /\ MaxDisturb \in Nat

VARIABLES
    pc,         \* where the session is in its loop
    n,          \* ncmds of the current line
    i,          \* stages forked, then children waited for
    line,       \* pipes[] of the current line
    ends,       \* open pipe ends: <<process, pipe, "r" or "w">>
    buf,        \* how much is in each pipe
    kid,        \* the children
    lost,       \* stages of the line that fork() has failed to make
    disturb     \* waits interrupted and background children started

vars == <<pc, n, i, line, ends, buf, kid, lost, disturb>>

\* A child reads from one pipe, writes to another and has that much left to
\* write; line is its copy of pipes[], to close what it does not use.
NoKid == [st |-> "none", in |-> None, out |-> None, left |-> 0, line |-> <<>>]

Init ==
    /\ pc = "prompt" /\ n = 0 /\ i = 0
    /\ line = <<>> /\ ends = {}
    /\ buf = [p \in Pipes |-> 0]
    /\ kid = [c \in Kids |-> NoKid]
    /\ lost = 0 /\ disturb = 0

Readers(p) == {e \in ends : e[2] = p /\ e[3] = "r"}
Writers(p) == {e \in ends : e[2] = p /\ e[3] = "w"}
Elems(s)   == {s[k] : k \in 1..Len(s)}

-----------------------------------------------------------------------------
(* The session: session_handle() and execute_pipeline(). *)

\* The line is over, and the locals of execute_pipeline() are gone.
Return ==
    /\ pc' = "prompt" /\ n' = 0 /\ i' = 0 /\ line' = <<>> /\ lost' = 0
    /\ UNCHANGED <<ends, buf, kid, disturb>>

\* A line of m commands is read. A single builtin without redirection runs in
\* the session itself; the only trace it can leave here is a background child:
\* serverctl start's intermediate process, or debugelf's program, which holds
\* no pipe and ends when it likes, if ever.
ReadLine(m) ==
    /\ pc = "prompt"
    /\ pc' = "pipe" /\ n' = m
    /\ UNCHANGED <<i, line, ends, buf, kid, lost, disturb>>

BuiltinStarts(c) ==
    /\ pc = "prompt"
    /\ kid[c].st = "none"
    /\ disturb < MaxDisturb
    /\ disturb' = disturb + 1
    /\ kid' = [kid EXCEPT ![c].st = "job"]
    /\ UNCHANGED <<pc, n, i, line, ends, buf, lost>>

Unused(p) == \A e \in ends : e[2] # p

MakePipe(p) ==
    /\ pc = "pipe"
    /\ Len(line) < n - 1
    /\ Unused(p)
    /\ line' = Append(line, p)
    /\ ends' = ends \cup {<<Session, p, "r">>, <<Session, p, "w">>}
    /\ buf' = [buf EXCEPT ![p] = 0]
    /\ UNCHANGED <<pc, n, i, kid, lost, disturb>>

\* pipe() fails, and the pipes made so far stay open.
PipeFails ==
    /\ pc = "pipe"
    /\ Len(line) < n - 1
    /\ Return

PipesMade ==
    /\ pc = "pipe"
    /\ Len(line) = n - 1
    /\ pc' = "fork" /\ i' = 0
    /\ UNCHANGED <<n, line, ends, buf, kid, lost, disturb>>

\* Child number i gets a copy of every end the session has open.
ForkStage(c) ==
    /\ pc = "fork"
    /\ i < n
    /\ kid[c].st = "none"
    /\ kid' = [kid EXCEPT ![c] =
                 [st |-> "setup", in |-> IF i > 0 THEN line[i] ELSE None,
                  out |-> IF i < n - 1 THEN line[i + 1] ELSE None,
                  left |-> Output, line |-> line]]
    /\ ends' = ends \cup {<<c, e[2], e[3]>> : e \in {x \in ends : x[1] = Session}}
    /\ i' = i + 1
    /\ UNCHANGED <<pc, n, line, buf, lost, disturb>>

\* A fork() that fails is not noticed: the line goes on without this stage.
ForkFails ==
    /\ pc = "fork"
    /\ i < n
    /\ i' = i + 1 /\ lost' = lost + 1
    /\ UNCHANGED <<pc, n, line, ends, buf, kid, disturb>>

\* Fault: the session keeps the ends of its pipes.
CloseEndsForgotten ==
    /\ pc = "fork"
    /\ i = n
    /\ pc' = "wait" /\ i' = 0
    /\ UNCHANGED <<n, line, ends, buf, kid, lost, disturb>>

CloseEnds ==
    /\ pc = "fork"
    /\ i = n
    /\ pc' = "wait" /\ i' = 0
    /\ ends' = {e \in ends : e[1] = Session => e[2] \notin Elems(line)}
    /\ UNCHANGED <<n, line, buf, kid, lost, disturb>>

\* wait() collects whichever child has exited; returns at once if there are
\* none; a signal caught by sigterm_handler interrupts it.
WaitReaps(c) ==
    /\ pc = "wait"
    /\ i < n
    /\ kid[c].st = "dead"
    /\ kid' = [kid EXCEPT ![c] = NoKid]
    /\ i' = i + 1
    /\ UNCHANGED <<pc, n, line, ends, buf, lost, disturb>>

NoChild ==
    /\ pc = "wait"
    /\ \A c \in Kids : kid[c].st = "none"
    /\ i' = i + 1
    /\ UNCHANGED <<pc, n, line, ends, buf, kid, lost, disturb>>

\* Fault: one wait too many.
WaitNoneOnceMore == i <= n /\ NoChild

WaitNone == i < n /\ NoChild

WaitInterrupted ==
    /\ pc = "wait"
    /\ i < n
    /\ disturb < MaxDisturb
    /\ disturb' = disturb + 1
    /\ i' = i + 1
    /\ UNCHANGED <<pc, n, line, ends, buf, kid, lost>>

\* Fault: one wait too few.
LineDoneEarly == pc = "wait" /\ i >= n - 1 /\ Return

LineDone == pc = "wait" /\ i >= n /\ Return

-----------------------------------------------------------------------------
(* The children. *)

\* dup2() onto stdin and stdout, then close() of every pipe end inherited.
Setup(c) ==
    /\ kid[c].st = "setup"
    /\ kid' = [kid EXCEPT ![c].st = "run"]
    /\ ends' = {e \in ends : e[1] = c /\ e[2] \in Elems(kid[c].line)
                             => e \in {<<c, kid[c].in, "r">>, <<c, kid[c].out, "w">>}}
    /\ UNCHANGED <<pc, n, i, line, buf, lost, disturb>>

\* The command: it reads its input to the end, and writes its output; writing
\* to a pipe nobody reads ends it by SIGPIPE.
Dead(c) ==
    /\ kid' = [kid EXCEPT ![c].st = "dead"]
    /\ ends' = {e \in ends : e[1] # c}
    /\ UNCHANGED <<pc, n, i, line, buf, lost, disturb>>

Consumes(c) ==
    /\ kid[c].st = "run"
    /\ kid[c].in # None
    /\ buf[kid[c].in] > 0
    /\ buf' = [buf EXCEPT ![kid[c].in] = @ - 1]
    /\ UNCHANGED <<pc, n, i, line, ends, kid, lost, disturb>>

Writing(c) == kid[c].st = "run" /\ kid[c].out # None /\ kid[c].left > 0

Produces(c) ==
    /\ Writing(c)
    /\ Readers(kid[c].out) # {}
    /\ buf[kid[c].out] < Cap
    /\ buf' = [buf EXCEPT ![kid[c].out] = @ + 1]
    /\ kid' = [kid EXCEPT ![c].left = @ - 1]
    /\ UNCHANGED <<pc, n, i, line, ends, lost, disturb>>

Sigpipe(c) == Writing(c) /\ Readers(kid[c].out) = {} /\ Dead(c)

EndOfInput(c) ==
    kid[c].in # None => buf[kid[c].in] = 0 /\ Writers(kid[c].in) = {}

Finishes(c) ==
    /\ kid[c].st = "run"
    /\ EndOfInput(c)
    /\ ~Writing(c)
    /\ Dead(c)

\* Or it ends without reading on: by choice, by a failing redirection or
\* execvp(), or killed.
Quits(c) == kid[c].st \in {"setup", "run", "job"} /\ Dead(c)

-----------------------------------------------------------------------------
SessionStep ==
    \/ \E p \in Pipes : MakePipe(p)
    \/ PipeFails \/ PipesMade
    \/ \E c \in Kids : ForkStage(c)
    \/ ForkFails \/ CloseEnds
    \/ \E c \in Kids : WaitReaps(c)
    \/ WaitNone \/ LineDone

KidStep(c) == Setup(c) \/ Consumes(c) \/ Produces(c) \/ Sigpipe(c) \/ Finishes(c)

Next ==
    \/ SessionStep
    \/ \E c \in Kids : KidStep(c) \/ Quits(c) \/ BuiltinStarts(c)
    \/ \E m \in 1..MaxStages : ReadLine(m)
    \/ WaitInterrupted

Spec == Init /\ [][Next]_vars

\* The session and the stages are scheduled; no stage is assumed to end before
\* its input does, and no background child to end at all.
FairSpec == Spec /\ WF_vars(SessionStep) /\ \A c \in Kids : WF_vars(KidStep(c))

-----------------------------------------------------------------------------
(* Properties. *)

TypeOK ==
    /\ pc \in {"prompt", "pipe", "fork", "wait"}
    /\ n \in 0..MaxStages /\ i \in 0..MaxStages
    /\ line \in Seq(Pipes) /\ Len(line) < MaxStages
    /\ ends \subseteq (Kids \cup {Session}) \X Pipes \X {"r", "w"}
    /\ buf \in [Pipes -> 0..Cap]
    /\ \A c \in Kids : /\ kid[c].st \in {"none", "setup", "run", "job", "dead"}
                       /\ kid[c].in \in Pipes \cup {None}
                       /\ kid[c].out \in Pipes \cup {None}
                       /\ kid[c].left \in 0..Output
                       /\ kid[c].line \in Seq(Pipes)
    /\ lost \in 0..MaxStages /\ disturb \in 0..MaxDisturb

\* Back at the prompt, execute_pipeline() has left no more children behind
\* than there were interrupted waits and background children: undisturbed, a
\* line is over when the prompt returns.
LeftBehind ==
    pc = "prompt" => Cardinality({c \in Kids : kid[c].st # "none"}) <= disturb

\* A stage was never forked, all the others have been waited for, and the wait()
\* left over blocks on a background child.
Starved ==
    /\ pc = "wait" /\ i < n /\ lost > 0
    /\ \A c \in Kids : kid[c].st \in {"none", "job"}
    /\ \E c \in Kids : kid[c].st = "job"

\* Every line comes back to the prompt, or waits for a background child in the
\* place of a stage that fork() has failed to make, and only then: no stage
\* waits for an end of input, or for room in a pipe, that another process's
\* open descriptor holds back.
LineCompletes == []<>(pc = "prompt" \/ Starved)
=============================================================================
