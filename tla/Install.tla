------------------------------- MODULE Install -------------------------------
(***************************************************************************)
(* The install command: it asks the installer service of etaHEN on one     *)
(* port and then the other (DPI v1, DPI v2), and with -w follows the       *)
(* kernel log for the end of the installation. The services and the log    *)
(* run on their own: a request may be taken up after the command gave up   *)
(* on the answer, and lines appear whenever they like.                     *)
(***************************************************************************)
EXTENDS Naturals, Integers, Sequences

CONSTANTS
    None,
    Timeout,    \* idle seconds klog_wait_install waits (600 in the code)
    Backlog,    \* pieces of log lines waiting to be read
    LineMax,    \* pieces that fit the buffer for a line
    MaxNoise    \* log lines about other things

ASSUME ConstantsAssumption ==
    /\ Timeout \in Nat \ {0} /\ Backlog \in Nat \ {0} /\ LineMax \in Nat
    /\ MaxNoise \in Nat

Services == {"v1", "v2"}            \* ports 9090 and 12800

\* The first segment of an answer, which is all the command reads. From v1: a
\* number behind the key res, or nothing that is one (the segment ends there,
\* or a word follows); from v2: the word SUCCESS, or one it is part of; and
\* from both, something else.
Texts == {"res 0", "res 1", "res cut", "SUCCESS", "UNSUCCESSFUL", "other"}
Says(s, accepted) ==
    IF s = "v1" THEN {IF accepted THEN "res 0" ELSE "res 1", "res cut", "other"}
    ELSE {IF accepted THEN "SUCCESS" ELSE "UNSUCCESSFUL", "other"}

\* The status line that ends an installation carries a state and an error
\* number in hexadecimal; 7 and 0 mean success.
HexDigits == {"0", "e"}
Status    == [state : {7, 8}, err : HexDigits]
Success   == [state |-> 7, err |-> "0"]

\* A log line is a sequence of pieces, and arrives piece by piece: one with
\* the state, one with the error number, others, and the end of the line.
State(n) == [of |-> "state", is |-> n]
Error(x) == [of |-> "error", is |-> x]
Other    == [of |-> "other", is |-> 0]
Newline  == [of |-> "newline", is |-> 0]

\* Status lines, the longer one too long for the buffer; lines about other
\* things, which may have a part in common with them.
StatusLines(t) == {<<State(t.state), Error(t.err)>>, <<Other, State(t.state), Error(t.err)>>}
NoiseLines     == {<<Other>>, <<State(7)>>, <<Error("0")>>}

VARIABLES
    pc,         \* where cmd_install is
    waitflag,   \* -w was given
    request,    \* what became of the request to each service
    reply,      \* what each service sent back
    running,    \* an installation is under way on the console
    log,        \* pieces of log lines the command has not read
    sent,       \* status lines sent to it
    buffer,     \* what it has read and not looked at
    line,       \* the line it is putting together
    noise,      \* log lines about other things so far
    elapsed,    \* idle seconds counted
    seen,       \* the status line the command ended on
    report      \* the last outcome told to the user

watching == <<log, sent, buffer, line, elapsed>>
vars == <<pc, waitflag, request, reply, running, noise, seen, report, watching>>

Init ==
    /\ pc = "idle" /\ waitflag = FALSE
    /\ request = [s \in Services |-> "none"]
    /\ reply = [s \in Services |-> "none"]
    /\ running = FALSE
    /\ log = <<>> /\ sent = {} /\ buffer = <<>> /\ line = <<>>
    /\ noise = 0 /\ elapsed = 0
    /\ seen = None /\ report = "none"

-----------------------------------------------------------------------------
(* The services and the log. *)

Accepts(s) ==
    /\ request[s] = "queued"
    /\ request' = [request EXCEPT ![s] = "accepted"]
    /\ running' = TRUE
    /\ UNCHANGED <<pc, waitflag, reply, noise, seen, report, watching>>

Refuses(s) ==
    /\ request[s] = "queued"
    /\ request' = [request EXCEPT ![s] = "refused"]
    /\ UNCHANGED <<pc, waitflag, reply, running, noise, seen, report, watching>>

Replies(s, r) ==
    /\ request[s] \in {"accepted", "refused"}
    /\ r \in Says(s, request[s] = "accepted")
    /\ reply[s] = "none"
    /\ reply' = [reply EXCEPT ![s] = r]
    /\ UNCHANGED <<pc, waitflag, request, running, noise, seen, report, watching>>

\* Lines reach the command only while it is connected to the log.
Logged(l) ==
    /\ Len(log) + Len(l) < Backlog
    /\ log' = IF pc = "wait" THEN log \o Append(l, Newline) ELSE log

InstallationEnds(t, l) ==
    /\ running
    /\ running' = FALSE
    /\ Logged(l)
    /\ sent' = IF pc = "wait" THEN sent \cup {t} ELSE sent
    /\ UNCHANGED <<pc, waitflag, request, reply, noise, seen, report, buffer, line, elapsed>>

LogNoise(l) ==
    /\ pc = "wait"
    /\ noise < MaxNoise
    /\ noise' = noise + 1
    /\ Logged(l)
    /\ UNCHANGED <<pc, waitflag, request, reply, running, seen, report, sent, buffer, line, elapsed>>

-----------------------------------------------------------------------------
(* cmd_install(), dpi_send_json_9090(), dpi_v2_post_url_12800(). *)

Goto(label, told) ==
    /\ pc' = label /\ report' = told
    /\ UNCHANGED <<waitflag, running, noise, seen>>

Begin(w) ==
    /\ pc = "idle"
    /\ pc' = "ask v1" /\ waitflag' = w
    /\ UNCHANGED <<request, reply, running, noise, seen, report, watching>>

\* No package is named, or stat() of a local one fails.
NoFile ==
    /\ pc = "idle"
    /\ Goto("done", "no file")
    /\ UNCHANGED <<request, reply, watching>>

Asking(s)  == IF s = "v1" THEN "ask v1" ELSE "ask v2"
Waiting(s) == IF s = "v1" THEN "wait v1" ELSE "wait v2"

Ask(s) ==
    /\ pc = Asking(s)
    /\ Goto(Waiting(s), report)
    /\ request' = [request EXCEPT ![s] = "queued"]
    /\ UNCHANGED <<reply, watching>>

\* The first service has failed us, so the second is asked; then we give up.
NextService(s) ==
    /\ IF s = "v1" THEN Goto("ask v2", report) ELSE Goto("done", "not reachable")
    /\ UNCHANGED <<request, reply, watching>>

\* socket(), connect() or write() fails.
Unasked(s) == pc = Asking(s) /\ NextService(s)

\* select() gives up after five seconds, or the connection is closed; the
\* service still has the request.
NoAnswer(s) == pc = Waiting(s) /\ NextService(s)

Started ==
    /\ Goto(IF waitflag THEN "watch" ELSE "done", "started")
    /\ UNCHANGED <<request, reply, watching>>

\* Fault: res is 0 at first.
ResUnset(text) == IF text = "res 1" THEN 1 ELSE 0

\* res is -1 unless the key is found; then it is what atoi() makes of what is
\* behind it, which is 0 if that is not a number.
Res(text) == IF text \in {"res 0", "res cut"} THEN 0 ELSE IF text = "res 1" THEN 1 ELSE -1

\* strstr() finds SUCCESS within a longer word too.
Taken(s, text) == IF s = "v1" THEN Res(text) = 0 ELSE text \in {"SUCCESS", "UNSUCCESSFUL"}

Answer(s) ==
    /\ pc = Waiting(s)
    /\ reply[s] # "none"
    /\ IF Taken(s, reply[s]) THEN Started ELSE NextService(s)

-----------------------------------------------------------------------------
(* klog_wait_install(). *)

Watch ==
    /\ pc = "watch"
    /\ Goto("wait", report)
    /\ log' = <<>> /\ sent' = {} /\ buffer' = <<>> /\ line' = <<>> /\ elapsed' = 0
    /\ UNCHANGED <<request, reply>>

\* connect() to the log fails, which is no error; socket() or, later, select()
\* fails, which is one. Neither is an outcome of the installation.
NotWatched(from) ==
    /\ pc = from /\ buffer = <<>>
    /\ Goto("done", report)
    /\ UNCHANGED <<request, reply, watching>>

WatchFails  == NotWatched("watch")
SelectFails == NotWatched("wait")

\* What is told at the label finished, for a result and a status line seen.
Finish(result, t) ==
    /\ pc' = "done"
    /\ report' = IF result = 0 THEN "success"
                 ELSE IF result = -1 THEN "failed"
                 ELSE "not detected"
    /\ seen' = t
    /\ UNCHANGED <<waitflag, request, reply, running, noise>>

\* A second without a line.
Idle(limit) ==
    /\ pc = "wait"
    /\ log = <<>> /\ buffer = <<>>
    /\ elapsed' = elapsed + 1
    /\ IF elapsed + 1 >= limit
       THEN Finish(-1, None)
       ELSE UNCHANGED <<pc, waitflag, request, reply, running, noise, seen, report>>
    /\ UNCHANGED <<log, sent, buffer, line>>

\* Faults: one second too many; seconds are not counted.
TickOnceMore == Idle(Timeout + 1)
TickUncounted ==
    /\ pc = "wait"
    /\ log = <<>> /\ buffer = <<>>
    /\ UNCHANGED vars

Tick == Idle(Timeout)

\* sscanf("%x") at a place in the line; what it does not find stays as it was.
ScanHex(s, unread) ==
    IF Len(s) > 2 /\ s[1] = "0" /\ s[2] = "x" THEN s[3]
    ELSE IF s[1] \in HexDigits THEN s[1]
    ELSE unread

\* "error = 0x" is ten characters long and scanned from its tenth, the x;
\* "error_code=0x" likewise from its last.
ScannedError(err) == ScanHex(SubSeq(<<"0", "x", err>>, 2, 3), "ffffffff")

Result(t) == IF t.state = 7 /\ ScannedError(t.err) = "0" THEN 0 ELSE -1

\* read(): some of what has arrived.
ReadLog(m) ==
    /\ pc = "wait"
    /\ buffer = <<>>
    /\ buffer' = SubSeq(log, 1, m) /\ log' = SubSeq(log, m + 1, Len(log))
    /\ UNCHANGED <<pc, waitflag, request, reply, running, noise, seen, report, sent, line, elapsed>>

\* A piece is appended to the line, or lost if the line is full.
Accumulate ==
    /\ pc = "wait"
    /\ buffer # <<>> /\ Head(buffer) # Newline
    /\ buffer' = Tail(buffer)
    /\ line' = IF Len(line) < LineMax THEN Append(line, Head(buffer)) ELSE line
    /\ UNCHANGED <<pc, waitflag, request, reply, running, noise, seen, report, log, sent, elapsed>>

\* strstr(): the first piece of that sort.
Has(sort)   == \E m \in 1..Len(line) : line[m].of = sort
First(sort) == line[CHOOSE m \in 1..Len(line) :
                      line[m].of = sort /\ \A j \in 1..(m - 1) : line[j].of # sort].is

\* At the end of a line, with what the line is then.
LineEnds(rest) ==
    /\ pc = "wait"
    /\ buffer # <<>> /\ Head(buffer) = Newline
    /\ buffer' = Tail(buffer) /\ line' = rest
    /\ IF Has("state") /\ Has("error")
       THEN LET t == [state |-> First("state"), err |-> First("error")]
            IN Finish(Result(t), t)
       ELSE UNCHANGED <<pc, waitflag, request, reply, running, noise, seen, report>>
    /\ UNCHANGED <<log, sent, elapsed>>

\* Fault: the line is not emptied.
ProcessLineKept == LineEnds(line)

ProcessLine == LineEnds(<<>>)

LogCloses ==
    /\ pc = "wait" /\ buffer = <<>>
    /\ Finish(-1, None)
    /\ UNCHANGED watching

-----------------------------------------------------------------------------
CommandStep ==
    \/ \E s \in Services : Ask(s) \/ Unasked(s) \/ NoAnswer(s) \/ Answer(s)
    \/ Watch \/ WatchFails \/ Tick
    \/ (\E m \in 1..Len(log) : ReadLog(m)) \/ Accumulate \/ ProcessLine

Next ==
    \/ CommandStep
    \/ NoFile \/ SelectFails \/ LogCloses
    \/ \E l \in NoiseLines : LogNoise(l)
    \/ \E w \in BOOLEAN : Begin(w)
    \/ \E s \in Services : Accepts(s) \/ Refuses(s)
    \/ \E s \in Services, r \in Texts : Replies(s, r)
    \/ \E t \in Status : \E l \in StatusLines(t) : InstallationEnds(t, l)

Spec == Init /\ [][Next]_vars

\* The command is scheduled, and a second passes when nothing else happens;
\* the services and the log owe us nothing.
FairSpec == Spec /\ WF_vars(CommandStep)

-----------------------------------------------------------------------------
(* Properties. *)

TypeOK ==
    /\ pc \in {"idle", "ask v1", "wait v1", "ask v2", "wait v2", "watch", "wait", "done"}
    /\ waitflag \in BOOLEAN /\ running \in BOOLEAN
    /\ request \in [Services -> {"none", "queued", "accepted", "refused"}]
    /\ reply \in [Services -> Texts \cup {"none"}]
    /\ Len(log) <= Backlog /\ Len(buffer) <= Backlog /\ Len(line) <= LineMax
    /\ sent \subseteq Status
    /\ noise \in 0..MaxNoise /\ elapsed \in 0..Timeout
    /\ seen = None \/ seen \in Status
    /\ report \in {"none", "no file", "not reachable", "started", "success",
                   "failed", "not detected"}

\* The user is told of a started installation only if a service has accepted
\* the request, whatever was sent, lost or late before; or has refused it in a
\* way that cannot be told from that: an answer cut off behind its key or with
\* a word there, or one with SUCCESS in it. A plain refusal, a service that did
\* not answer in time and one that was not asked do not count.
StartedAsAnswered ==
    report \in {"started", "success", "failed"}
    => \E s \in Services :
          \/ request[s] = "accepted"
          \/ request[s] = "refused" /\ reply[s] \in {"res cut", "UNSUCCESSFUL"}

\* The status the command ends on was sent in one line, however the lines were
\* split on the way, and no line got mixed up with another.
SeenAsSent == seen # None => seen \in sent

\* The command returns to the prompt: a log about other things does not keep
\* it for ever, if it falls silent at last.
Returns == pc # "idle" ~> pc = "done"

\* A status line of success is reported as success.
SuccessReported == pc = "done" /\ seen = Success => report = "success"
=============================================================================
