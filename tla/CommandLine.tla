---------------------------- MODULE CommandLine ----------------------------
(***************************************************************************)
(* From characters to commands: read_line() collects a line, tokenize()    *)
(* cuts it into words and operators, build_pipeline() groups them into the *)
(* commands of a pipeline with a redirection, and execute_pipeline()       *)
(* decides who runs them. A character is a space, a quote, a pipe sign, a  *)
(* greater-than sign or any other; a token is a sequence of characters.    *)
(***************************************************************************)
EXTENDS Naturals, Sequences, FiniteSets

CONSTANTS
    MaxLine,    \* MAX_LINE
    MaxToks,    \* MAX_TOKS, the length of toks[] and of each argv[]
    MaxPipe     \* MAX_PIPE, the length of cmds[]

ASSUME ConstantsAssumption ==
    MaxLine \in Nat \ {0} /\ MaxToks \in Nat \ {0} /\ MaxPipe \in Nat \ {0}

Quote  == "quote"
Signs  == {"|", ">"}
Breaks == Signs \cup {" "}
Chars  == Breaks \cup {Quote, "a"}

Bar    == <<"|">>
Redirs == {<<">">>, <<">", ">">>}
Exit   == <<"a">>       \* the builtin "exit"; other words name programs
NoFile == <<"none">>    \* no token: not a sequence of Chars

VARIABLES
    pc,         \* where the session is
    line,       \* the line read so far, then the trimmed line
    pos, start, \* tokenize(): p, and where the current word starts
    inq,        \* tokenize(): within quotes
    toks,       \* tokens stored
    i,          \* build_pipeline(): tokens consumed
    argv,       \* build_pipeline(): words of the current command
    cmds,       \* build_pipeline(): commands complete
    redir,      \* redir_file, or NoFile
    append,     \* append_mode
    over,       \* arrays written past their end
    heap        \* blocks allocated for this line and not freed; what the last
                \* line lost, at the prompt

vars == <<pc, line, pos, start, inq, toks, i, argv, cmds, redir, append, over, heap>>
scanning == <<line, pos, start, inq, toks>>
building == <<i, argv, cmds, redir, append>>

Init ==
    /\ pc = "read" /\ line = <<>> /\ pos = 1 /\ start = 1 /\ inq = FALSE
    /\ toks = <<>> /\ i = 0 /\ argv = <<>> /\ cmds = <<>> /\ redir = NoFile
    /\ append = FALSE /\ over = {} /\ heap = 0

-----------------------------------------------------------------------------
(* read_line() and trim(). *)

\* Carriage returns are dropped, so they do not appear here.
ReadChar(c) ==
    /\ pc = "read"
    /\ Len(line) + 1 < MaxLine
    /\ line' = Append(line, c)
    /\ heap' = 0
    /\ UNCHANGED <<pc, pos, start, inq, toks, building, over>>

Inner(s)  == {k \in 1..Len(s) : s[k] # " "}
Trim(s) ==
    IF Inner(s) = {} THEN <<>>
    ELSE SubSeq(s, CHOOSE k \in Inner(s) : \A m \in Inner(s) : k <= m,
                   CHOOSE k \in Inner(s) : \A m \in Inner(s) : k >= m)

\* A newline, or no room: what follows is then the next line.
EndLine ==
    /\ pc = "read"
    /\ line' = Trim(line)
    /\ pc' = IF line' = <<>> THEN "read" ELSE "scan"
    /\ heap' = 0
    /\ UNCHANGED <<pos, start, inq, toks, building, over>>

Hangup ==
    /\ pc = "read"
    /\ pc' = "closed"
    /\ UNCHANGED <<scanning, building, over, heap>>

-----------------------------------------------------------------------------
(* tokenize(). *)

At(k) == IF k <= Len(line) THEN line[k] ELSE "end"

\* toks[ntok] = NULL.
Terminate ==
    /\ pc' = "build"
    /\ over' = IF Len(toks) < MaxToks THEN over ELSE over \cup {"toks"}

EndScan ==
    /\ pc = "scan"
    /\ At(pos) = "end"
    /\ Terminate
    /\ UNCHANGED <<scanning, building, heap>>

\* Fault: the scan does not move on.
SkipSpaceStuck == pc = "scan" /\ At(pos) = " " /\ UNCHANGED vars

SkipSpace ==
    /\ pc = "scan"
    /\ At(pos) = " "
    /\ pos' = pos + 1
    /\ UNCHANGED <<pc, line, start, inq, toks, building, over, heap>>

Operator(width) ==
    /\ toks' = Append(toks, SubSeq(line, pos, pos + width - 1))
    /\ pos' = pos + width
    /\ heap' = heap + 1
    /\ UNCHANGED <<pc, over>>

\* Fault: >> is stored as two signs.
ScanSignSingle ==
    /\ pc = "scan"
    /\ At(pos) \in Signs
    /\ IF Len(toks) < MaxToks
       THEN Operator(1)
       ELSE Terminate /\ UNCHANGED <<toks, pos, heap>>
    /\ UNCHANGED <<line, start, inq, building>>

ScanSign ==
    /\ pc = "scan"
    /\ At(pos) \in Signs
    /\ IF Len(toks) < MaxToks
       THEN Operator(IF At(pos) = ">" /\ At(pos + 1) = ">" THEN 2 ELSE 1)
       ELSE Terminate /\ UNCHANGED <<toks, pos, heap>>
    /\ UNCHANGED <<line, start, inq, building>>

BeginWord ==
    /\ pc = "scan"
    /\ At(pos) \notin Breaks \cup {"end"}
    /\ pc' = "word" /\ start' = pos /\ inq' = FALSE
    /\ UNCHANGED <<line, pos, toks, building, over, heap>>

\* The inner loop goes on.
InWord == At(pos) # "end" /\ (inq \/ At(pos) \notin Breaks)

\* Fault: quotes are not heeded.
WordCharUnquoted ==
    /\ pc = "word"
    /\ InWord
    /\ pos' = pos + 1
    /\ UNCHANGED <<pc, line, start, inq, toks, building, over, heap>>

WordChar ==
    /\ pc = "word"
    /\ InWord
    /\ inq' = (inq # (At(pos) = Quote))
    /\ pos' = pos + 1
    /\ UNCHANGED <<pc, line, start, toks, building, over, heap>>

\* Quotes around a whole word are removed; those within it stay.
Unquote(t) ==
    IF Len(t) >= 2 /\ t[1] = Quote /\ t[Len(t)] = Quote
    THEN SubSeq(t, 2, Len(t) - 1) ELSE t

\* Fault: no test for room.
EndWordUnchecked ==
    /\ pc = "word"
    /\ ~InWord
    /\ pc' = "scan"
    /\ toks' = Append(toks, Unquote(SubSeq(line, start, pos - 1)))
    /\ heap' = heap + 1
    /\ UNCHANGED <<line, pos, start, inq, building, over>>

\* A word for which there is no room is dropped, and its memory lost.
EndWord ==
    /\ pc = "word"
    /\ ~InWord
    /\ pc' = "scan"
    /\ toks' = IF Len(toks) < MaxToks
               THEN Append(toks, Unquote(SubSeq(line, start, pos - 1))) ELSE toks
    /\ heap' = heap + 1
    /\ UNCHANGED <<line, pos, start, inq, building, over>>

-----------------------------------------------------------------------------
(* build_pipeline(), and the end of the line in session_handle(). *)

\* The loop of session_handle() begins again, or is left, when that many blocks
\* have been freed.
Back(label, freed) ==
    /\ pc' = label /\ line' = <<>> /\ pos' = 1 /\ start' = 1 /\ inq' = FALSE
    /\ toks' = <<>> /\ i' = 0 /\ argv' = <<>> /\ cmds' = <<>> /\ redir' = NoFile
    /\ append' = FALSE /\ over' = {} /\ heap' = heap - freed

\* build_pipeline() returns -1: the tokens are freed, the commands are not.
ParseError == Back("read", Len(toks))

NewCommand ==
    /\ pc = "build"
    /\ i < Len(toks)
    /\ IF Len(cmds) >= MaxPipe THEN ParseError
       ELSE /\ pc' = "command" /\ argv' = <<>>
            /\ heap' = heap + 1
            /\ UNCHANGED <<scanning, i, cmds, redir, append, over>>

\* Fault: a command without words is kept.
CloseCommandEmpty ==
    /\ pc' = "build"
    /\ cmds' = Append(cmds, argv)
    /\ UNCHANGED over

\* A command without words is skipped, and its argv[] lost; otherwise
\* argv[argc] = NULL.
CloseCommand ==
    /\ pc' = "build"
    /\ cmds' = IF argv = <<>> THEN cmds ELSE Append(cmds, argv)
    /\ over' = IF Len(argv) < MaxToks THEN over ELSE over \cup {"argv"}

TakeWord ==
    /\ pc = "command"
    /\ i < Len(toks)
    /\ toks[i + 1] \notin Redirs \cup {Bar}
    /\ argv' = Append(argv, toks[i + 1])
    /\ i' = i + 1
    /\ heap' = heap + 1
    /\ UNCHANGED <<pc, scanning, cmds, redir, append, over>>

TakeBar ==
    /\ pc = "command"
    /\ i < Len(toks)
    /\ toks[i + 1] = Bar
    /\ i' = i + 1
    /\ CloseCommand
    /\ UNCHANGED <<scanning, argv, redir, append, heap>>

\* The word after > or >> is a file, and the command ends there too.
TakeRedirection ==
    /\ pc = "command"
    /\ i < Len(toks)
    /\ toks[i + 1] \in Redirs
    /\ IF i + 1 >= Len(toks) THEN ParseError
       ELSE /\ redir' = toks[i + 2]
            /\ append' = (toks[i + 1] = <<">", ">">>)
            /\ i' = i + 2
            /\ heap' = heap + 1
            /\ CloseCommand
            /\ UNCHANGED <<scanning, argv>>

TokensEnd ==
    /\ pc = "command"
    /\ i >= Len(toks)
    /\ CloseCommand
    /\ UNCHANGED <<scanning, i, argv, redir, append, heap>>

\* Words of all commands: free_pipeline() frees them and each argv[].
Words[k \in Nat] == IF k = 0 THEN 0 ELSE Len(cmds[k]) + Words[k - 1]

Freed == Len(toks) + Words[Len(cmds)] + Len(cmds)
         + (IF redir = NoFile THEN 0 ELSE 1)

\* A single builtin without redirection runs in the session, the rest in
\* children; only exit in the session ends it.
InSession == Len(cmds) = 1 /\ redir = NoFile /\ cmds[1][1] = Exit

\* Fault: redir_file is not freed.
ExecuteKeepingFile ==
    /\ pc = "build"
    /\ i >= Len(toks)
    /\ Back(IF InSession THEN "closed" ELSE "read",
            Len(toks) + Words[Len(cmds)] + Len(cmds))

Execute ==
    /\ pc = "build"
    /\ i >= Len(toks)
    /\ Back(IF InSession THEN "closed" ELSE "read", Freed)

-----------------------------------------------------------------------------
Tokenize == EndScan \/ SkipSpace \/ ScanSign \/ BeginWord \/ WordChar \/ EndWord
Build    == NewCommand \/ TakeWord \/ TakeBar \/ TakeRedirection \/ TokensEnd \/ Execute

Next ==
    \/ \E c \in Chars : ReadChar(c)
    \/ EndLine \/ Hangup
    \/ Tokenize \/ Build

Spec == Init /\ [][Next]_vars

\* The session is scheduled; its client owes it nothing.
FairSpec == Spec /\ WF_vars(Tokenize \/ Build)
-----------------------------------------------------------------------------
(* Properties. *)

TypeOK ==
    /\ pc \in {"read", "scan", "word", "build", "command", "closed"}
    /\ line \in Seq(Chars) /\ Len(line) < MaxLine
    /\ pos \in Nat \ {0} /\ start \in Nat \ {0} /\ start <= pos
    /\ inq \in BOOLEAN
    /\ toks \in Seq(Seq(Chars)) /\ Len(toks) <= MaxToks
    /\ i \in 0..Len(toks)
    /\ argv \in Seq(Seq(Chars)) /\ Len(argv) <= i
    /\ cmds \in Seq(Seq(Seq(Chars))) /\ Len(cmds) <= MaxPipe
    /\ redir \in Seq(Chars) \cup {NoFile} /\ append \in BOOLEAN
    /\ over \subseteq {"toks", "argv"}

\* The grammar of a line, without a scanner. A character is quoted if an odd
\* number of quotes precede it; an unquoted space or sign is a break; a token
\* begins at a character that follows a break and is none, at a pipe sign, and
\* at every other one of adjacent greater-than signs.
Quoted(k)  == Cardinality({m \in 1..(k - 1) : line[m] = Quote}) % 2 = 1
IsBreak(k) == line[k] \in Breaks /\ ~Quoted(k)
Adjacent(S(_), k) == Cardinality({m \in 1..(k - 1) : \A x \in m..(k - 1) : S(x)})
IsGreater(k) == IsBreak(k) /\ line[k] = ">"
Starts ==
    {k \in 1..Len(line) :
        \/ ~IsBreak(k) /\ (k = 1 \/ IsBreak(k - 1))
        \/ IsBreak(k) /\ line[k] = "|"
        \/ IsGreater(k) /\ Adjacent(IsGreater, k) % 2 = 0}

\* The last character of the token that begins at k.
Extent(k) ==
    IF IsBreak(k) THEN IF IsGreater(k) /\ k < Len(line) /\ IsGreater(k + 1)
                       THEN k + 1 ELSE k
    ELSE CHOOSE m \in k..Len(line) :
            /\ \A x \in k..m : ~IsBreak(x)
            /\ m = Len(line) \/ IsBreak(m + 1)

\* tokenize() stores the tokens of the line, in order, as many as there is
\* room for: no quote, no run of signs and no limit makes it lose its place.
ScannedAsWritten ==
    pc \in {"build", "command"} =>
        /\ Len(toks) <= Cardinality(Starts)
        /\ \A k \in Starts :
              LET n == Cardinality({m \in Starts : m <= k})
              IN n <= MaxToks => /\ n <= Len(toks)
                                 /\ toks[n] = Unquote(SubSeq(line, k, Extent(k)))

\* The grammar of a pipeline: a token is a file if an odd number of adjacent
\* redirection signs precede it; other signs separate commands.
IsRedir(k) == toks[k] \in Redirs
IsFile(k)  == k > 1 /\ Adjacent(IsRedir, k) % 2 = 1
IsSign(k)  == ~IsFile(k) /\ toks[k] \in Redirs \cup {Bar}
IsWord(k)  == ~IsFile(k) /\ ~IsSign(k)
SignsBefore(k) == Cardinality({m \in 1..(k - 1) : IsSign(m)})
Groups == {{k \in 1..Len(toks) : IsWord(k) /\ SignsBefore(k) = n} : n \in 0..Len(toks)} \ {{}}
GroupsUpTo(k) == {G \in Groups : \E m \in G : m <= k}

\* When execute_pipeline() is called, every word is in the command of its
\* place between the signs, and the last file named is the redirection: no
\* word is lost, doubled or given to a neighbour, however the signs fall.
GroupedAsWritten ==
    pc = "build" /\ i >= Len(toks) =>
        /\ Len(cmds) = Cardinality(Groups)
        /\ \A G \in Groups, k \in 1..Len(toks) : k \in G =>
              LET cmd == cmds[Cardinality(GroupsUpTo(k))]
              IN Len(cmd) = Cardinality(G)
                 /\ cmd[Cardinality({m \in G : m <= k})] = toks[k]
        /\ \A k \in 1..Len(toks) :
              IsFile(k) /\ (\A m \in (k + 1)..Len(toks) : ~IsFile(m))
              => redir = toks[k] /\ (append <=> Len(toks[k - 1]) = 2)
        /\ (\A k \in 1..Len(toks) : ~IsFile(k)) => redir = NoFile

\* A line of fewer than MaxToks tokens is stored within its arrays. (At the
\* limit the NULL after the last token goes one past the end of toks[], and
\* of argv[] if all are words.)
StoredInBounds == over # {} => Cardinality(Starts) >= MaxToks

\* What a line allocated is freed at its end, unless it was malformed: more
\* tokens than fit, a sign without a command before it, a second redirection,
\* or an error.
WellFormed ==
    /\ Cardinality(Starts) <= MaxToks
    /\ \A k \in 1..Len(toks) : IsSign(k) => k > 1 /\ IsWord(k - 1)
    /\ Cardinality({k \in 1..Len(toks) : IsFile(k)}) <= 1

WellFormedFreed ==
    [][pc = "build" /\ pc' \in {"read", "closed"} /\ i >= Len(toks) /\ WellFormed
       => heap' = 0]_vars

\* Whatever was typed, the session comes back to its prompt or ends.
ParsingEnds == pc \in {"scan", "word", "build", "command"} ~> pc \in {"read", "closed"}
=============================================================================
