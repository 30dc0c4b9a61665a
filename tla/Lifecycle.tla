------------------------------ MODULE Lifecycle ------------------------------
(***************************************************************************)
(* The life of the server processes: launching (main, sshsvr_run), the     *)
(* pid file, the search for an existing instance, daemonizing, binding the *)
(* port, the accept loop, the sessions it forks, and the control commands  *)
(* a session offers (serverctl, kill) with the stand-alone kill tool.      *)
(*                                                                         *)
(* Every process interleaves with every other at each access to shared     *)
(* state: the pid file, the process table, signals and listening ports.    *)
(***************************************************************************)
EXTENDS Naturals

CONSTANTS
    Pids,           \* process ids the kernel hands out and recycles
    Ports,          \* ports a launch may be asked to listen on
    NoPid,          \* no process id
    NoFile, Empty,  \* the pid file does not exist; exists but holds no number
    BindAttempts,   \* rounds of bind_with_retry (30 in the code)
    Serial,         \* TRUE: a launch or a control command begins only when
                    \* no other one is in progress
    DiskFaults      \* TRUE: opening the pid file for writing may fail

ASSUME ConstantsAssumption ==
    /\ NoPid \notin Pids /\ NoFile \notin Pids /\ Empty \notin Pids
    /\ NoFile # Empty
    /\ Ports # {}
    /\ BindAttempts \in Nat \ {0}
    /\ Serial \in BOOLEAN /\ DiskFaults \in BOOLEAN

VARIABLES
    pidfile,    \* content of SSHSVR_PIDFILE
    proc        \* the process table, with what each process keeps

vars == <<pidfile, proc>>

\* Launch: main up to the accept loop. Control: serverctl inside a session.
Launching   == {"main", "single", "probe", "reap", "clear", "go", "fork",
                "trunc1", "write1", "sigact", "bind", "unbound", "trunc2",
                "write2"}
Controlling == {"stop", "stopkill", "stopwait", "unlink", "start"}
Serving     == {"loop", "enter", "accept", "serve", "closing", "exiting"}
Labels      == Launching \cup Controlling \cup Serving
                 \cup {"free", "zombie", "other", "left", "child", "session", "busy"}

Args == [F : BOOLEAN, daemon : BOOLEAN, port : Ports]

Proc == [pc       : Labels,
         args     : Args,                \* what its launch was asked for
         force    : BOOLEAN,             \* its launch replaces an instance
         old      : Pids \cup {NoPid},   \* pid it last read from the pid file
         tries    : 0..BindAttempts,     \* bind attempts made
         restart  : BOOLEAN,             \* its stop is half of a restart
         handling : BOOLEAN,             \* sigterm_handler is installed
         stopping : BOOLEAN,             \* g_running is 0
         named    : BOOLEAN,             \* is called "sshsvr"
         lfd      : BOOLEAN]             \* has a listening socket open

\* A process about which there is nothing to know yet, or any more.
Blank(label) ==
    [pc |-> label,
     args |-> [F |-> FALSE, daemon |-> FALSE, port |-> CHOOSE n \in Ports : TRUE],
     force |-> FALSE, old |-> NoPid, tries |-> 0, restart |-> FALSE,
     handling |-> FALSE, stopping |-> FALSE, named |-> FALSE, lfd |-> FALSE]

Pc(q)       == proc[q].pc
Exists(q)   == Pc(q) # "free"                 \* kill(q, 0) == 0, zombies too
Alive(q)    == Pc(q) \notin {"free", "zombie"}
InFlight(q) == Pc(q) \in Launching \cup Controlling
MayBegin    == Serial => \A q \in Pids : ~InFlight(q)

Init ==
    /\ pidfile = NoFile
    /\ proc = [q \in Pids |-> Blank("free")]

-----------------------------------------------------------------------------
(* Kernel services the code relies on. *)

\* Steps of p from one place to another: and nothing else; removing the pid
\* file; ending, after which only the entry in the process table is left.
Goto(p, label) == [proc EXCEPT ![p].pc = label]

Move(p, from, to) ==
    /\ Pc(p) = from
    /\ proc' = Goto(p, to)
    /\ UNCHANGED pidfile

RemovePidfile(p, from, to) ==
    /\ Pc(p) = from
    /\ proc' = Goto(p, to)
    /\ pidfile' = NoFile

Exit(p, from) ==
    /\ Pc(p) = from
    /\ proc' = [proc EXCEPT ![p] = Blank("zombie")]
    /\ UNCHANGED pidfile

\* Processes S receive SIGTERM while the sender turns the table into t.
\* Without a handler the default action kills. With one, g_running becomes 0
\* and a blocked system call returns EINTR: accept() then leaves the server's
\* loop, read() at the prompt ends the session; elsewhere nobody notices.
Caught(e) ==
    IF e.pc = "session" THEN Blank("zombie")
    ELSE [e EXCEPT !.stopping = TRUE,
                   !.pc = IF @ = "accept" THEN "closing" ELSE @]

Signal(S, t) ==
    proc' = [q \in Pids |-> IF q \notin S \/ ~Alive(q) THEN t[q]
                            ELSE IF t[q].handling THEN Caught(t[q])
                            ELSE Blank("zombie")]

\* fork(): c starts as a copy of p, each going on at its own label.
Fork(p, c, parentLabel, childLabel) ==
    /\ Pc(c) = "free"
    /\ proc' = [proc EXCEPT ![p].pc = parentLabel,
                            ![c] = [proc[p] EXCEPT !.pc = childLabel]]
    /\ UNCHANGED pidfile

\* The parent of an exited process, or init, collects it.
Reap(p) == Move(p, "zombie", "free")

\* A restart of the console ends all processes; /data keeps the pid file.
Reboot ==
    /\ proc' = [q \in Pids |-> Blank("free")]
    /\ UNCHANGED pidfile

\* An unrelated program is started under a free pid.
OtherStarts(p) == Move(p, "free", "other")

\* SIGKILL, a fault, or the normal end of a session or an unrelated program.
Dies(p) == Alive(p) /\ Exit(p, Pc(p))

-----------------------------------------------------------------------------
(* Launching: main, ensure_single_instance, sshsvr_run. *)

\* The payload is started with [-p port] [-d] [-F].
Launch(p, a) ==
    /\ MayBegin
    /\ Pc(p) = "free"
    /\ proc' = [proc EXCEPT ![p].pc = "main", ![p].args = a]
    /\ UNCHANGED pidfile

\* main(): without -F, an accessible pid file sets force all the same.
Main(p) ==
    /\ Pc(p) = "main"
    /\ proc' = [proc EXCEPT ![p].pc = "single",
                            ![p].force = proc[p].args.F \/ pidfile # NoFile]
    /\ UNCHANGED pidfile

\* read_pidfile(), and read_pidfile_builtin(), find a process id.
ReadPid(p, from, to) ==
    /\ Pc(p) = from
    /\ pidfile \in Pids
    /\ proc' = [proc EXCEPT ![p].pc = to, ![p].old = pidfile]
    /\ UNCHANGED pidfile

\* ensure_single_instance() finds a pid in the file ...
SingleRead(p) == ReadPid(p, "single", "probe")

\* kill_processes_named() sends to every other "sshsvr"; to none where the
\* process table cannot be read.
Stragglers(p) == {{q \in Pids \ {p} : proc[q].named}, {}}

\* ... or none: with force the other instances get SIGTERM by name, and the
\* launch goes on after a pause, whether they have exited or not.
SingleNone(p) ==
    /\ Pc(p) = "single"
    /\ pidfile \notin Pids
    /\ \E S \in Stragglers(p) :
          Signal(IF proc[p].force THEN S ELSE {}, Goto(p, "go"))
    /\ UNCHANGED pidfile

\* kill(oldpid, 0): gone, so only its file is left ...
ProbeGone(p) ==
    /\ Move(p, "probe", "clear")
    /\ ~Exists(proc[p].old)

\* ... there and not forced, so this launch is refused ...
ProbeRefused(p) ==
    /\ Exit(p, "probe")
    /\ Exists(proc[p].old)
    /\ ~proc[p].force

\* ... there and forced: SIGTERM, then poll until it is gone.
ProbeReplace(p) ==
    /\ Pc(p) = "probe"
    /\ Exists(proc[p].old)
    /\ proc[p].force
    /\ Signal({proc[p].old}, Goto(p, "reap"))
    /\ UNCHANGED pidfile

\* The old instance is gone within the 200 polls, or the launch gives up.
OldGone(p) ==
    /\ Move(p, "reap", "clear")
    /\ ~Exists(proc[p].old)

\* Fault: the launch goes on past an instance that did not end.
OldStillAliveGoesOn(p) == Move(p, "reap", "clear") /\ Exists(proc[p].old)

OldStillAlive(p) ==
    /\ Exit(p, "reap")
    /\ Exists(proc[p].old)

ClearPidfile(p) == RemovePidfile(p, "clear", "go")

\* sshsvr_run(): the process takes the name "sshsvr"; with -d a child of it
\* goes on alone.
TakeName(p) ==
    /\ Pc(p) = "go"
    /\ proc' = [Goto(p, IF proc[p].args.daemon THEN "fork" ELSE "sigact")
                  EXCEPT ![p].named = TRUE, ![p].old = NoPid]
    /\ UNCHANGED pidfile

Daemonize(p, c) ==
    /\ Pc(p) = "fork"
    /\ Fork(p, c, "left", "trunc1")

DaemonizeFails(p) == Exit(p, "fork")

\* write_pidfile(): fopen("wb") truncates, the number arrives at fclose().
\* A daemon writes before it binds, every server after.
AfterWrite == [trunc1 |-> "sigact", write1 |-> "sigact",
               trunc2 |-> "loop",   write2 |-> "loop"]

TruncatePidfile(p) ==
    /\ Pc(p) \in {"trunc1", "trunc2"}
    /\ pidfile' = Empty
    /\ proc' = Goto(p, IF Pc(p) = "trunc1" THEN "write1" ELSE "write2")

FillPidfile(p) ==
    /\ Pc(p) \in {"write1", "write2"}
    /\ pidfile' = p
    /\ proc' = Goto(p, AfterWrite[Pc(p)])

\* fopen() fails: a warning at most, the launch goes on without a pid file.
WritePidfileFails(p) ==
    /\ DiskFaults
    /\ Pc(p) \in {"trunc1", "trunc2"}
    /\ Move(p, Pc(p), AfterWrite[Pc(p)])

\* Fault: sigaction() is forgotten.
InstallHandlersForgotten(p) == Move(p, "sigact", "bind")

InstallHandlers(p) ==
    /\ Pc(p) = "sigact"
    /\ proc' = [proc EXCEPT ![p].pc = "bind", ![p].handling = TRUE]
    /\ UNCHANGED pidfile

\* create_listener() and bind_with_retry(). Once bound, force and the number
\* of attempts are not looked at again.
PortFree(p) ==
    \A q \in Pids : proc[q].lfd => proc[q].args.port # proc[p].args.port

Bind(p) ==
    /\ Pc(p) = "bind"
    /\ PortFree(p)
    /\ proc' = [proc EXCEPT ![p].pc = "trunc2", ![p].lfd = TRUE,
                            ![p].args.F = FALSE, ![p].force = FALSE,
                            ![p].tries = 0]
    /\ UNCHANGED pidfile

\* EADDRINUSE with force: terminate stragglers by name and try again, n being
\* the attempts then made.
Retry(p, n, again) ==
    /\ Pc(p) = "bind"
    /\ ~PortFree(p)
    /\ proc[p].force
    /\ \E S \in Stragglers(p) :
          Signal(S, [Goto(p, IF again THEN "bind" ELSE "unbound")
                       EXCEPT ![p].tries = n])
    /\ UNCHANGED pidfile

\* Faults: one attempt too many; attempts are not counted.
BindRetryOnceMore(p) == Retry(p, proc[p].tries + 1, proc[p].tries < BindAttempts)
BindRetryForEver(p)  == Retry(p, proc[p].tries, TRUE)

BindRetry(p) == Retry(p, proc[p].tries + 1, proc[p].tries + 1 < BindAttempts)

\* EADDRINUSE without force, or socket(), bind() or listen() fails otherwise.
BindFails(p) == Move(p, "bind", "unbound")

\* Only a daemon removes the pid file, when it cannot bind and when it ends.
\* At "left" the process has returned from sshsvr_run().
Leave(p, from) ==
    IF proc[p].args.daemon THEN RemovePidfile(p, from, "left")
                           ELSE Move(p, from, "left")

Unbound(p) == Leave(p, "unbound")

ProcessEnds(p) == Exit(p, "left")

-----------------------------------------------------------------------------
(* The accept loop. *)

\* while(g_running), and then, a moment later, the call of accept(): a signal
\* in between is caught but interrupts nothing.
CheckRunning(p) ==
    Move(p, "loop", IF proc[p].stopping THEN "closing" ELSE "enter")

EnterAccept(p) == Move(p, "enter", "accept")

\* A client connects and accept() returns; or accept() returns an error.
Accept(p) == Move(p, "accept", "serve")

AcceptFails(p) ==
    Move(p, "accept", IF proc[p].stopping THEN "closing" ELSE "loop")

ForkSession(p, c) ==
    /\ Pc(p) = "serve"
    /\ Fork(p, c, "loop", "child")

\* fork() failing is not checked: the connection is closed, the loop goes on.
ForkSessionFails(p) == Move(p, "serve", "loop")

\* The session child closes its copy of the listening socket. Of what it was
\* forked with, only the signal state and the name still matter; the same goes
\* when a command has returned.
Returned(s) ==
    [proc EXCEPT ![s] = [Blank("busy") EXCEPT !.handling = proc[s].handling,
                                              !.stopping = proc[s].stopping,
                                              !.named = proc[s].named]]

\* Fault: the child keeps the socket.
SessionBeginsListening(s) == Move(s, "child", "busy")

SessionBegins(s) ==
    /\ Pc(s) = "child"
    /\ proc' = Returned(s)
    /\ UNCHANGED pidfile

\* The server that left the loop closes its socket, and ends.
CloseListener(p) ==
    /\ Pc(p) = "closing"
    /\ proc' = [proc EXCEPT ![p].pc = "exiting", ![p].lfd = FALSE]
    /\ UNCHANGED pidfile

Shutdown(p) == Leave(p, "exiting")

-----------------------------------------------------------------------------
(* A session: "session" is blocked in read() at the prompt, "busy" is not. *)

Prompt(s)     == Move(s, "busy", "session")
RunCommand(s) == Move(s, "session", "busy")

\* cmd_serverctl() picks the subcommand; its options are kept for the start.
Serverctl(s, verb, a) ==
    /\ MayBegin
    /\ Pc(s) = "session"
    /\ proc' = [Goto(s, IF verb = "start" THEN "start" ELSE "stop")
                  EXCEPT ![s].restart = (verb = "restart"),
                         ![s].args = a, ![s].force = a.F]
    /\ UNCHANGED pidfile

\* serverctl_stop() returns, and a restart goes on whatever the result.
AfterStop(s) == IF proc[s].restart THEN Goto(s, "start") ELSE Returned(s)

StopRead(s) == ReadPid(s, "stop", "stopkill")

StopNone(s) ==
    /\ Pc(s) = "stop"
    /\ pidfile \notin Pids
    /\ proc' = AfterStop(s)
    /\ UNCHANGED pidfile

StopKill(s) ==
    /\ Pc(s) = "stopkill"
    /\ IF Exists(proc[s].old)
       THEN Signal({proc[s].old}, Goto(s, "stopwait"))
       ELSE proc' = AfterStop(s)
    /\ UNCHANGED pidfile

\* wait_for_exit(): gone within two seconds, or a timeout.
\* Fault: the timeout is not told from success.
StopWaitUnchecked(s) == Move(s, "stopwait", "unlink")

StopWait(s) ==
    /\ Pc(s) = "stopwait"
    /\ proc' = IF Exists(proc[s].old) THEN AfterStop(s) ELSE Goto(s, "unlink")
    /\ UNCHANGED pidfile

StopUnlink(s) ==
    /\ Pc(s) = "unlink"
    /\ pidfile' = NoFile
    /\ proc' = AfterStop(s)

\* serverctl_start(): refused if the pid file names a process and no --force;
\* fork() may fail besides.
StartAllowed(s) == pidfile \in Pids /\ Exists(pidfile) => proc[s].force

StartFails(s) ==
    /\ Pc(s) = "start"
    /\ proc' = Returned(s)
    /\ UNCHANGED pidfile

StartFork(s, c) ==
    /\ Pc(s) = "start"
    /\ StartAllowed(s)
    /\ Pc(c) = "free"
    /\ proc' = [Returned(s) EXCEPT ![c] = [proc[s] EXCEPT !.pc = "single"]]
    /\ UNCHANGED pidfile

\* cmd_kill() with SIGTERM, from any session, to any pid.
KillCommand(s, q) ==
    /\ Pc(s) = "session"
    /\ Alive(q)
    /\ Signal({q}, Goto(s, "busy"))
    /\ UNCHANGED pidfile

\* kill_sshsvr: SIGTERM to every "sshsvr". It unlinks /data/sshsvr.pid, which
\* is not the server's pid file.
KillTool ==
    /\ Signal({q \in Pids : proc[q].named}, proc)
    /\ UNCHANGED pidfile

\* Fault: the 0 of a successful kill() is taken for its failure.
StatusInverted == IF pidfile \notin Pids THEN "not running"
                  ELSE IF Exists(pidfile) THEN "stale pidfile"
                  ELSE "running"

\* What serverctl status reports.
Status == IF pidfile \notin Pids THEN "not running"
          ELSE IF Exists(pidfile) THEN "running"
          ELSE "stale pidfile"

-----------------------------------------------------------------------------
\* Steps a process takes by itself, and those its environment decides on.
LaunchStep(p) ==
    \/ Main(p) \/ SingleRead(p) \/ SingleNone(p)
    \/ ProbeGone(p) \/ ProbeRefused(p) \/ ProbeReplace(p)
    \/ OldGone(p) \/ OldStillAlive(p) \/ ClearPidfile(p)
    \/ TakeName(p) \/ DaemonizeFails(p)
    \/ \E c \in Pids : Daemonize(p, c)
    \/ TruncatePidfile(p) \/ FillPidfile(p) \/ WritePidfileFails(p)
    \/ InstallHandlers(p)
    \/ Bind(p) \/ BindRetry(p) \/ BindFails(p) \/ Unbound(p)

ServeStep(p) ==
    \/ CheckRunning(p) \/ EnterAccept(p)
    \/ ForkSessionFails(p) \/ SessionBegins(p)
    \/ \E c \in Pids : ForkSession(p, c)
    \/ CloseListener(p) \/ Shutdown(p) \/ ProcessEnds(p)

ControlStep(s) ==
    \/ StopRead(s) \/ StopNone(s) \/ StopKill(s) \/ StopWait(s) \/ StopUnlink(s)
    \/ StartFails(s) \/ \E c \in Pids : StartFork(s, c)
    \/ Prompt(s)

ProcStep(p) == LaunchStep(p) \/ ServeStep(p) \/ ControlStep(p)

Verbs == {"start", "stop", "restart"}

EnvStep(p) ==
    \/ Reap(p) \/ OtherStarts(p) \/ Dies(p)
    \/ Accept(p) \/ AcceptFails(p)
    \/ \E a \in Args : Launch(p, a)
    \/ RunCommand(p)
    \/ \E verb \in Verbs, a \in {b \in Args : b.daemon} : Serverctl(p, verb, a)
    \/ \E q \in Pids : KillCommand(p, q)

Next ==
    \/ \E p \in Pids : ProcStep(p) \/ EnvStep(p)
    \/ KillTool
    \/ Reboot

Spec == Init /\ [][Next]_vars

\* A runnable process is eventually scheduled, and polling loops end; nothing
\* is promised about clients, operators, signals or crashes.
FairSpec == Spec /\ \A p \in Pids : WF_vars(ProcStep(p))

-----------------------------------------------------------------------------
(* Properties. *)

TypeOK ==
    /\ pidfile \in Pids \cup {NoFile, Empty}
    /\ proc \in [Pids -> Proc]

\* A process that serves (sshsvr_run from its loop to its exit) is the one the
\* pid file names. So there is at most one, and serverctl and the next launch
\* find it. Needs Serial and no disk faults.
ServerIsNamed == \A p \in Pids : Pc(p) \in Serving => pidfile = p

\* The pid that serves, if any; what the abstract SingleServer calls owner.
Owner == IF \E p \in Pids : Pc(p) \in Serving
         THEN CHOOSE p \in Pids : Pc(p) \in Serving ELSE NoPid

\* With Serial and no disk faults the launch protocol implements a single
\* server slot: a server ends before another begins, and while one is up the
\* pid file says so and does not change.
Slot == INSTANCE SingleServer WITH Names <- Pids \cup {NoFile, Empty},
                                   owner <- Owner, advert <- pidfile
ImplementsSlot == Slot!Spec

\* Only a server, or the child it has just forked, holds a listening socket:
\* sessions, which outlive a stopped server, never keep its port from the next.
ListenerHeldByServer ==
    \A p \in Pids : proc[p].lfd =>
        Pc(p) \in (Serving \ {"exiting"}) \cup {"trunc2", "write2", "child"}

\* A signal never cuts a server short: unless it crashes (or the console
\* does), a server that ends has closed its socket, and a daemon has removed
\* the pid file.
GracefulEnd ==
    [][\A p \in Pids : Pc(p) \in Serving /\ Pc(p)' = "zombie" => Dies(p)]_vars

\* Every launch and every serverctl command comes to an end: no poll of the
\* old instance and no bind retry goes on for ever.
LaunchSettles == \A p \in Pids : InFlight(p) ~> ~InFlight(p)

\* When no launch and no command is in progress, serverctl status does not say
\* "not running" or "stale" of a live server. With launches that race it does.
StatusTruthful ==
    /\ \A p \in Pids : ~InFlight(p)
    /\ \E p \in Pids : Pc(p) \in Serving
    => Status = "running"

\* A live instance is replaced only by a launch that was given -F (--force).
ReplacedOnlyByForce == \A p \in Pids : Pc(p) = "reap" => proc[p].args.F
=============================================================================
