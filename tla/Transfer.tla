------------------------------ MODULE Transfer ------------------------------
(***************************************************************************)
(* A file carried from one console to another: get encodes it line by line *)
(* on the first, a client relays what get prints to the session of the     *)
(* second, which runs put, and after the upload types a command. TCP keeps *)
(* the order of the characters and nothing else: a read() of put returns   *)
(* any part of what has arrived. When put is over, read_line() takes what  *)
(* follows for command lines.                                              *)
(***************************************************************************)
EXTENDS Base64

CONSTANTS
    Sample,     \* byte values of the files tried
    MaxFile,    \* bound on their length
    GetBuf,     \* sizeof(buf) in cmd_get (3072 in the code)
    PutBuf      \* sizeof(line) in cmd_put, sizeof(out) in cmd_get (4096)

ASSUME ConstantsAssumption ==
    /\ Sample \subseteq Bytes
    /\ MaxFile \in Nat /\ GetBuf \in Nat \ {0} /\ PutBuf \in Nat \ {0}
    /\ PutBuf * 3 = GetBuf * 4 /\ GetBuf % 3 = 0

\* Characters that are not of the base64 alphabet.
Dot     == 65
NL      == 66
CR      == 67
Command == 68       \* the line typed after the upload

VARIABLES
    file,       \* contents of the file sent
    telnet,     \* the client ends its lines with CR LF
    off,        \* get: bytes read
    getpc,      \* where get, then the client, is
    wire,       \* characters sent to the second session
    rd,         \* characters it has read
    pc,         \* whether it is in put or at the prompt
    copy,       \* contents of the file written by put
    end,        \* why put ended
    whole,      \* every read() of put returned one line with its newline
    ran         \* lines taken for commands

vars == <<file, telnet, off, getpc, wire, rd, pc, copy, end, whole, ran>>
sender == <<file, telnet, off, getpc, wire>>

Files == UNION {[1..n -> Sample] : n \in 0..MaxFile}

Init ==
    /\ file \in Files /\ telnet \in BOOLEAN
    /\ off = 0 /\ getpc = "get" /\ wire = <<>>
    /\ rd = 0 /\ pc = "put" /\ copy = <<>> /\ end = "none"
    /\ whole = TRUE /\ ran = <<>>

-----------------------------------------------------------------------------
(* cmd_get(), and the client. *)

Eol == IF telnet THEN <<CR, NL>> ELSE <<NL>>

\* read() of up to GetBuf bytes, which are encoded as a line of their own.
GetBlock(n) ==
    /\ getpc = "get"
    /\ off + n <= Len(file)
    /\ wire' = wire \o EncodeBlock(SubSeq(file, off + 1, off + n)) \o Eol
    /\ off' = off + n
    /\ UNCHANGED <<file, telnet, getpc, rd, pc, copy, end, whole, ran>>

GetEnd ==
    /\ getpc = "get"
    /\ off = Len(file)
    /\ wire' = wire \o <<Dot>> \o Eol
    /\ getpc' = "type"
    /\ UNCHANGED <<file, telnet, off, rd, pc, copy, end, whole, ran>>

\* The client types a command when the upload is over, waiting for the prompt
\* or not.
TypeCommand ==
    /\ getpc = "type"
    /\ wire' = wire \o <<Command>> \o Eol
    /\ getpc' = "done"
    /\ UNCHANGED <<file, telnet, off, rd, pc, copy, end, whole, ran>>

-----------------------------------------------------------------------------
(* cmd_put(). *)

\* Fault: the newline is not cut off.
UpToNewlineIncluded(s) == s

\* A segment up to its first newline: what strchr() and the NUL leave of it.
UpToNewline(s) ==
    LET nls == {k \in 1..Len(s) : s[k] = NL}
    IN IF nls = {} THEN s
       ELSE SubSeq(s, 1, (CHOOSE k \in nls : \A m \in nls : k <= m) - 1)

IsWholeLine(s) == \A k \in 1..Len(s) : s[k] = NL <=> k = Len(s)

PutEnds(why) == pc' = "prompt" /\ end' = why

\* Fault: what cannot be decoded, the dot included, is passed over.
PutReadSkipping(n) ==
    LET seg  == SubSeq(wire, rd + 1, rd + n)
        text == UpToNewline(seg)
    IN /\ pc = "put"
       /\ n < PutBuf /\ rd + n <= Len(wire)
       /\ rd' = rd + n
       /\ whole' = (whole /\ IsWholeLine(seg))
       /\ copy' = IF Decodable(text) THEN copy \o DecodeBlock(text) ELSE copy
       /\ UNCHANGED <<sender, pc, end, ran>>

\* read() returns n characters. They are taken for one line, whatever they
\* are: what follows a newline is dropped, and a line cut short is decoded
\* for itself.
PutRead(n) ==
    LET seg  == SubSeq(wire, rd + 1, rd + n)
        text == UpToNewline(seg)
    IN /\ pc = "put"
       /\ n < PutBuf /\ rd + n <= Len(wire)
       /\ rd' = rd + n
       /\ whole' = (whole /\ IsWholeLine(seg))
       /\ IF text = <<Dot>> THEN PutEnds("dot") /\ UNCHANGED copy
          ELSE IF ~Decodable(text) THEN PutEnds("decode error") /\ UNCHANGED copy
          ELSE copy' = copy \o DecodeBlock(text) /\ UNCHANGED <<pc, end>>
       /\ UNCHANGED <<sender, ran>>

\* write() writes less than asked, and put ends.
PutWriteFails(n) ==
    LET text == UpToNewline(SubSeq(wire, rd + 1, rd + n))
    IN /\ pc = "put"
       /\ n < PutBuf /\ rd + n <= Len(wire)
       /\ Decodable(text) /\ text # <<>>
       /\ rd' = rd + n
       /\ \E m \in 0..(Len(DecodeBlock(text)) - 1) :
             copy' = copy \o SubSeq(DecodeBlock(text), 1, m)
       /\ whole' = (whole /\ IsWholeLine(SubSeq(wire, rd + 1, rd + n)))
       /\ PutEnds("write error")
       /\ UNCHANGED <<sender, ran>>

\* The client is gone: read() returns 0 in put, and again at the prompt.
Hangup ==
    /\ pc # "closed"
    /\ rd = Len(wire)
    /\ pc' = "closed"
    /\ end' = IF pc = "put" THEN "eof" ELSE end
    /\ UNCHANGED <<sender, rd, copy, whole, ran>>

\* SIGTERM or SIGINT, caught without SA_RESTART, makes the read() fail that
\* waits for characters on their way. put takes it for the end and goes back
\* to the prompt, while the upload goes on; at the prompt it ends the session.
Interrupted ==
    /\ \/ pc = "put" /\ PutEnds("interrupted")
       \/ pc = "prompt" /\ pc' = "closed" /\ UNCHANGED end
    /\ UNCHANGED <<sender, rd, copy, whole, ran>>

-----------------------------------------------------------------------------
\* read_line() at the prompt: the characters up to a newline, without CR.
WithoutCR(s) ==
    LET kept[k \in 0..Len(s)] ==
            IF k = 0 THEN <<>>
            ELSE IF s[k] = CR THEN kept[k - 1] ELSE Append(kept[k - 1], s[k])
    IN kept[Len(s)]

LineEnd == CHOOSE k \in (rd + 1)..Len(wire) :
              wire[k] = NL /\ \A m \in (rd + 1)..(k - 1) : wire[m] # NL

RunLine ==
    /\ pc = "prompt"
    /\ \E k \in (rd + 1)..Len(wire) : wire[k] = NL
    /\ rd' = LineEnd
    /\ LET text == WithoutCR(SubSeq(wire, rd + 1, LineEnd - 1))
       IN ran' = IF text = <<>> THEN ran ELSE Append(ran, text)
    /\ UNCHANGED <<sender, pc, copy, end, whole>>

-----------------------------------------------------------------------------
Sends == (\E n \in 1..GetBuf : GetBlock(n)) \/ GetEnd \/ TypeCommand

Receives == (\E n \in 1..(PutBuf - 1) : PutRead(n)) \/ RunLine

Next ==
    \/ Sends \/ Receives \/ Hangup \/ Interrupted
    \/ \E n \in 1..(PutBuf - 1) : PutWriteFails(n)

Spec == Init /\ [][Next]_vars

\* get runs to its end, the client relays, and what has arrived is read.
FairSpec == Spec /\ WF_vars(Sends) /\ WF_vars(Receives)

-----------------------------------------------------------------------------
(* Properties. *)

\* As long as every read() of put returns one line, the copy is what get has
\* read of the file, whichever blocks it was read in, and put ends with all
\* of it, or for a failing write(), an interrupted read() or a client that is
\* gone. Only to a client that ends its lines with CR LF, as telnet does, does
\* put answer with a decode error: it cuts off the newline and keeps the CR.
CopiedAsSent ==
    whole => /\ Len(copy) <= Len(file) /\ copy = SubSeq(file, 1, Len(copy))
             /\ end = "dot" => copy = file
             /\ end = "decode error" => telnet

\* Then, unless put left the upload for a failing write() or an interrupted
\* read(), no part of it is taken for a command line, nor is the command lost
\* that follows it (with a client that ends its lines with LF).
DataNotRun ==
    whole /\ ~telnet /\ end \notin {"write error", "interrupted"} =>
        /\ ran \in {<<>>, <<<<Command>>>>}
        /\ (pc = "prompt" /\ rd = Len(wire) /\ getpc = "done") => ran = <<<<Command>>>>

\* And put comes back to the prompt.
PutReturns == pc = "put" ~> pc # "put" \/ ~whole
=============================================================================
