----------------------------- MODULE ElfLoader -----------------------------
(***************************************************************************)
(* Running an ELF in a process of its own: elfldr_spawn() makes a child    *)
(* that executes a system program under ptrace, stops it at its entry,     *)
(* replaces its image by the ELF and lets it go; execelf waits for it,     *)
(* debugelf does not. Until it calls execve() the child runs on a stack in *)
(* the memory of its parent.                                               *)
(***************************************************************************)
EXTENDS Naturals

CONSTANTS
    Kids,           \* process ids for the children
    None

ASSUME ConstantsAssumption == None \notin Kids

VARIABLES
    pc,     \* where the command is
    cur,    \* the child being made
    debug,  \* debug_mode of do_exec_common()
    kid     \* the children

vars == <<pc, cur, debug, kid>>

\* A child is in elfldr_rfork_entry(), under ptrace, released to run on its own,
\* or dead and not yet collected. Under ptrace it runs, is stopped, is stopped
\* and nobody has waited for that, when ptrace() refuses every request, or
\* faults at each step it is made to take.
Traced == {"stopped", "unwaited", "running", "faulting"}
States == {"none", "entry", "released", "dead"} \cup Traced

\* What a child has of the ELF: its segments, its argument block, what is
\* written into the block, registers that point to both, and the address it
\* returns to. The code makes sure of three.
Parts == {"image", "block", "values", "entry", "return"}
Vital == {"image", "block", "entry"}

Kid == [st    : States,
        stack : {"none", "used", "freed"},  \* the stack it was forked on
        evt   : {"none", "armed", "fired"}, \* NOTE_EXEC in the kqueue
        brk   : BOOLEAN,                    \* int3 is in its code
        caps  : {"own", "all"},             \* its capabilities
        parts : SUBSET Parts,               \* what it has of the ELF
        cut   : BOOLEAN,                    \* its making was interrupted
        spared : BOOLEAN]                   \* a request to kill it failed

NoKid == [st |-> "none", stack |-> "none", evt |-> "none",
          brk |-> FALSE, caps |-> "own", parts |-> {}, cut |-> FALSE,
          spared |-> FALSE]

Dead == [NoKid EXCEPT !.st = "dead"]

\* Labels after execve() up to the release.
Loading == {"relocate", "heap", "plant", "continue", "trap", "restore", "dress",
            "environ", "cwd", "raise", "redirect", "load", "args", "regs",
            "lower", "detach"}

\* Those at which pt_syscall() or pt_call() steps the child, and those with a
\* pt_call(), to an address nobody has checked.
Remote  == {"relocate", "heap", "dress", "environ", "cwd", "redirect", "load", "args"}
Calling == Remote \ {"relocate", "redirect"}

\* Those whose errors end in pt_detach(pid, SIGKILL).
Checked == {"relocate", "plant", "continue", "restore", "raise", "lower"}

Init ==
    /\ pc = "idle" /\ cur = None /\ debug = FALSE
    /\ kid = [c \in Kids |-> NoKid]

-----------------------------------------------------------------------------
\* The current child, changed to k, and the next label.
To(label, k) ==
    /\ pc' = label
    /\ kid' = [kid EXCEPT ![cur] = k]
    /\ UNCHANGED <<cur, debug>>

\* do_exec_common() returns.
Return(k) ==
    /\ pc' = "idle" /\ cur' = None /\ debug' = FALSE
    /\ kid' = [kid EXCEPT ![cur] = k]

\* What pt_detach(pid, SIGKILL) can leave of a child. ptrace() refuses unless
\* the child is stopped and that was waited for, sys_ptrace() may fail before
\* it asks, and nobody looks at the result.
Killed(k) ==
    IF k.st \in {"none", "dead"} THEN {k}
    ELSE {[k EXCEPT !.spared = TRUE]} \cup (IF k.st = "stopped" THEN {Dead} ELSE {})

\* A step of elfldr_spawn() after execve() succeeds on a stopped child. Or it
\* fails, for whatever reason, and elfldr_spawn() returns -1.
Step(from, to, k) == pc = from /\ kid[cur].st = "stopped" /\ To(to, k)

\* The command is in pt_call() for as long as the child faults.
Free == kid[cur].st # "faulting"

\* Fault: an error return that leaves the child as it is.
AbortLeaving(from) == pc = from /\ Free /\ Return(kid[cur])

Abort(from) == pc = from /\ Free /\ \E k \in Killed(kid[cur]) : Return(k)

-----------------------------------------------------------------------------
(* elfldr_spawn() up to execve(). *)

\* kqueue(), malloc() and rfork_thread(); if one fails nothing has happened.
\* Fault: the stack is freed as soon as the child is there.
RforkFreeing(c, d) ==
    /\ pc = "idle"
    /\ kid[c].st = "none"
    /\ pc' = "register" /\ cur' = c /\ debug' = d
    /\ kid' = [kid EXCEPT ![c] = [NoKid EXCEPT !.st = "entry", !.stack = "freed"]]

Rfork(c, d) ==
    /\ pc = "idle"
    /\ kid[c].st = "none"
    /\ pc' = "register" /\ cur' = c /\ debug' = d
    /\ kid' = [kid EXCEPT ![c] = [NoKid EXCEPT !.st = "entry", !.stack = "used"]]

\* The child: budget, descriptors and PT_TRACE_ME, any of which may fail and
\* end it; execve() stops it under its tracer and fires an event that is armed.
EntryFails(c) ==
    /\ kid[c].st = "entry"
    /\ kid' = [kid EXCEPT ![c].st = "dead"]
    /\ UNCHANGED <<pc, cur, debug>>

Execs(c) ==
    /\ kid[c].st = "entry"
    /\ kid' = [kid EXCEPT ![c].st = "unwaited",
                          ![c].evt = IF @ = "armed" THEN "fired" ELSE @]
    /\ UNCHANGED <<pc, cur, debug>>

\* kevent() arms the event, for execve() calls to come. A child that is dead
\* by then cannot be watched: that is an event too, and nobody reads it.
Register ==
    /\ pc = "register"
    /\ IF kid[cur].st = "dead"
       THEN To("await", kid[cur])
       ELSE To("kevent", [kid[cur] EXCEPT !.evt = "armed"])

KeventReturns ==
    /\ pc = "kevent"
    /\ kid[cur].evt = "fired"
    /\ To("await", kid[cur])

\* waitpid() returns for a child that stopped or died; in both cases the stack
\* is freed and the loading begins.
Await ==
    /\ pc = "await"
    /\ kid[cur].st \in {"unwaited", "dead"}
    /\ To("relocate", IF kid[cur].st = "dead" THEN NoKid
                      ELSE [kid[cur] EXCEPT !.st = "stopped", !.stack = "freed",
                                            !.evt = "none"])

\* A signal interrupts kevent() or waitpid(): the stack is freed, the child
\* left.
SpawnInterrupted ==
    /\ pc \in {"kevent", "await"}
    /\ Return([kid[cur] EXCEPT !.stack = "freed", !.cut = TRUE])

-----------------------------------------------------------------------------
(* elfldr_spawn() after execve(). *)

\* A remote call is cut short between PT_STEP and the end of its waitpid(), by
\* a signal or by a sys_ptrace() that did what it was asked and reports an
\* error: nobody has waited for the child, and nobody will.
CallCut ==
    /\ pc \in Remote
    /\ kid[cur].st \in {"stopped", "faulting"}
    /\ To(pc, [kid[cur] EXCEPT !.st = "unwaited"])

\* pt_call() to an address that pt_resolve() did not find, or a function that
\* faults: the child stops at the same instruction after every step.
CallFaults ==
    /\ pc \in Calling
    /\ kid[cur].st = "stopped"
    /\ To(pc, [kid[cur] EXCEPT !.st = "faulting"])

\* sys_dynlib_process_needed_and_relocate.
Relocate == Step("relocate", "heap", kid[cur])

\* Nobody looks at the result of elfldr_set_heap_size().
Passes(from, to) == pc = from /\ Free /\ To(to, kid[cur])

SetHeapSize == Passes("heap", "plant")

\* Entry address, kernel_mprotect(), save the instruction, write int3.
\* Fault: int3 is not written.
PlantNothing == Step("plant", "continue", kid[cur])

Plant == Step("plant", "continue", [kid[cur] EXCEPT !.brk = TRUE])

Continue == Step("continue", "trap", [kid[cur] EXCEPT !.st = "running"])

\* pt_continue() reports an error although the child runs: it is no longer
\* stopped when pt_detach() is tried on it.
ContinueFailsLate ==
    /\ pc = "continue"
    /\ kid[cur].st = "stopped"
    /\ \E k \in Killed([kid[cur] EXCEPT !.st = "running"]) : Return(k)

\* The child runs into int3, or into something else that stops it.
Stops(c) ==
    /\ kid[c].st = "running"
    /\ kid' = [kid EXCEPT ![c].st = "unwaited"]
    /\ UNCHANGED <<pc, cur, debug>>

\* waitpid() returns when the child has stopped, at the breakpoint as it takes
\* it, or at the end of the child.
Trap ==
    /\ pc = "trap"
    /\ kid[cur].st \in {"unwaited", "dead"}
    /\ To("restore", IF kid[cur].st = "dead" THEN NoKid
                     ELSE [kid[cur] EXCEPT !.st = "stopped"])

\* A signal interrupts that wait, and pt_detach() is tried on the child.
TrapInterrupted ==
    /\ pc = "trap"
    /\ \E k \in Killed([kid[cur] EXCEPT !.cut = TRUE]) : Return(k)

Restore == Step("restore", "dress", [kid[cur] EXCEPT !.brk = FALSE])

\* Failures to set uid and name, environment and directory are ignored too.
SetProcname == Passes("dress", "environ")
SetEnviron  == Passes("environ", "cwd")
SetCwd      == Passes("cwd", "raise")

\* elfldr_debug(): capabilities up, which takes no ptrace(), stdin, stdout and
\* stderr, whose failures are ignored, then elfldr_prepare_exec(), then
\* capabilities down.
Raise ==
    /\ pc = "raise"
    /\ kid[cur].st \in {"stopped", "unwaited"}
    /\ To("redirect", [kid[cur] EXCEPT !.caps = "all"])

Redirect == Passes("redirect", "load")

\* Of what is written into the child, the values of the argument block and the
\* return address are written without a look at the result.
Prepared(from, to, part, unchecked) ==
    \E u \in SUBSET unchecked :
        Step(from, to, [kid[cur] EXCEPT !.parts = @ \cup {part} \cup u])

Load         == Prepared("load", "args", "image", {})
PayloadArgs  == Prepared("args", "regs", "block", {"values"})
SetRegisters == Prepared("regs", "lower", "entry", {"return"})

\* elfldr_prepare_exec() failed: capabilities down all the same.
PrepareFails == pc \in {"load", "args", "regs"} /\ Free /\ To("lower", kid[cur])

\* Fault: the error of elfldr_prepare_exec() is overwritten.
LowerAnyway == Step("lower", "detach", [kid[cur] EXCEPT !.caps = "own"])

Lower ==
    /\ Step("lower", "detach", [kid[cur] EXCEPT !.caps = "own"])
    /\ Vital \subseteq kid[cur].parts

\* Capabilities down, and elfldr_exec() answers the failed
\* elfldr_prepare_exec().
LowerFailed ==
    /\ pc = "lower"
    /\ ~(Vital \subseteq kid[cur].parts)
    /\ \E k \in Killed([kid[cur] EXCEPT !.caps = "own"]) : Return(k)

\* elfldr_exec(): the child runs on; execelf waits for it.
Detach ==
    /\ pc = "detach"
    /\ kid[cur].st = "stopped"
    /\ LET k == [kid[cur] EXCEPT !.st = "released"]
       IN IF debug THEN Return(k) ELSE To("run", k)

\* The final pt_detach() fails, and kill() takes its place.
DetachFails == pc = "detach" /\ Return(Dead)

Aborts == \E from \in Checked : Abort(from)

\* waitpid() of execelf collects the program, or is interrupted.
RunEnds ==
    /\ pc = "run"
    /\ kid[cur].st = "dead"
    /\ Return(NoKid)

RunInterrupted == pc = "run" /\ Return(kid[cur])

\* SIGKILL, or a normal end for a child that runs; a child left behind is
\* collected by a later wait() of the session.
Ends(c) ==
    /\ kid[c].st \in Traced \cup {"released"}
    /\ kid' = [kid EXCEPT ![c] = [Dead EXCEPT !.evt = kid[c].evt]]
    /\ UNCHANGED <<pc, cur, debug>>

Collected(c) ==
    /\ pc = "idle"
    /\ kid[c].st = "dead"
    /\ kid' = [kid EXCEPT ![c] = NoKid]
    /\ UNCHANGED <<pc, cur, debug>>

-----------------------------------------------------------------------------
LoaderStep ==
    \/ Register \/ KeventReturns \/ Await
    \/ Relocate \/ SetHeapSize \/ Plant \/ Continue \/ ContinueFailsLate \/ Trap \/ Restore
    \/ SetProcname \/ SetEnviron \/ SetCwd
    \/ Raise \/ Redirect \/ Load \/ PayloadArgs \/ SetRegisters \/ PrepareFails
    \/ Lower \/ LowerFailed \/ Detach \/ DetachFails
    \/ Aborts \/ RunEnds

KidStep(c) == EntryFails(c) \/ Execs(c)

Next ==
    \/ LoaderStep
    \/ SpawnInterrupted \/ TrapInterrupted \/ RunInterrupted
    \/ CallCut \/ CallFaults
    \/ \E c \in Kids : KidStep(c) \/ Stops(c) \/ Ends(c) \/ Collected(c)
    \/ \E c \in Kids, d \in BOOLEAN : Rfork(c, d)

Spec == Init /\ [][Next]_vars

\* The command is scheduled, and its child in elfldr_rfork_entry(). Nothing is
\* assumed of what the child runs from execve() on: neither the startup code of
\* the system program nor the ELF need come to an end.
FairSpec == Spec /\ WF_vars(LoaderStep) /\ \A c \in Kids : WF_vars(KidStep(c))

-----------------------------------------------------------------------------
(* Properties. *)

TypeOK ==
    /\ pc \in {"idle", "register", "kevent", "await", "run"} \cup Loading
    /\ cur \in Kids \cup {None} /\ (cur = None <=> pc = "idle")
    /\ debug \in BOOLEAN
    /\ kid \in [Kids -> Kid]

\* A process runs on its own only when it has the image, an argument block and
\* the registers that point to both, no breakpoint is left in its code, and its
\* capabilities are its own again. No checked failure, no death and no signal
\* on the way makes elfldr_spawn() release another. What the block holds, and
\* where the program returns to, the code does not make sure of.
ReleasedIsComplete ==
    \A c \in Kids : kid[c].st = "released"
                    => Vital \subseteq kid[c].parts /\ ~kid[c].brk /\ kid[c].caps = "own"

\* When elfldr_spawn() has returned, its child is not left in the middle: it
\* was released, or it is dead, or the request to kill it was made and failed.
\* Only a signal in kevent() or in a waitpid() of elfldr_spawn() makes it
\* return without that.
NotStranded ==
    pc = "idle" => \A c \in Kids : kid[c].st \in {"entry"} \cup Traced
                                  => kid[c].cut \/ kid[c].spared

\* The stack a child was forked on is not freed while the child, which shares
\* its parent's memory until execve(), runs on it; again up to a signal.
StackOutlivesUse ==
    \A c \in Kids : kid[c].stack = "freed" /\ ~kid[c].cut => kid[c].st # "entry"

\* The waits without an end that the code has: for an execve() event that was
\* missed or will not come, for startup code that does not reach the
\* breakpoint, and in pt_call() for a function that faults.
Stuck ==
    \/ pc = "kevent" /\ kid[cur].evt # "fired" /\ kid[cur].st # "entry"
    \/ pc = "trap" /\ kid[cur].st = "running" /\ kid[cur].brk
    \/ pc \in Calling /\ ~Free

\* elfldr_spawn() comes to an end, or is in one of these waits: no failure, no
\* signal and no death of the child makes it wait for anything else.
LoadingSettles == []<>(pc \in {"idle", "run"} \/ Stuck)
=============================================================================
