----------------------------- MODULE RemoteCall -----------------------------
(***************************************************************************)
(* A function called in the process under ptrace: pt_call() and            *)
(* pt_syscall() save its registers, set new ones, step it one instruction  *)
(* at a time until its stack pointer has passed where it was, and restore  *)
(* the registers. Each of these requests is a sys_ptrace(), which raises   *)
(* the credentials of the caller for the time of the system call. The      *)
(* process may die or fault, any call may fail, and a signal to the caller *)
(* interrupts its waitpid().                                               *)
(***************************************************************************)
EXTENDS Naturals

CONSTANTS
    MaxSp,      \* highest stack pointer
    MaxPush     \* bound on what a function pushes

ASSUME CallAssumption == MaxSp \in Nat \ {0} /\ MaxPush \in Nat

VARIABLES
    at,         \* where the caller is
    sub,        \* where its sys_ptrace() is
    ret,        \* what that returned
    cred,       \* credentials of the caller
    authid, caps,   \* sys_ptrace(): the saved ones
    slipped,    \* a kernel_set_ucred call has failed
    out,        \* what the call returned
    bak, jmp,   \* registers saved, registers last read
    st,         \* the process: its state, its registers
    regs,
    left,       \* what its function may still push
    runs, orig  \* how often it ran in this call; its registers before

caller   == <<at, ret, out, bak, jmp>>
ptrace   == <<sub, cred, authid, caps, slipped>>
process  == <<st, regs, left, runs>>
callVars == <<caller, ptrace, process, orig>>

Ids  == {"own", "debugger"}
Caps == {"own", "all"}
Own  == [authid |-> "own", caps |-> "own"]

\* A register set; ip is in the program, in the function, at an address whose
\* instruction faults, or behind the end of the function.
Regs == [sp : 0..MaxSp, ip : {"program", "function", "fault", "after"},
         ax : {"program", "number", "result"}]
Reset == [sp |-> 0, ip |-> "program", ax |-> "program"]

\* Labels at which a request is made.
Requests == {"getregs", "setregs", "step", "peek", "restore"}

CallInit ==
    /\ at = "idle" /\ ret = "none" /\ out = "none" /\ bak = Reset /\ jmp = Reset
    /\ sub = "out" /\ cred = Own /\ authid = "own" /\ caps = "own" /\ slipped = FALSE
    /\ st = "waited" /\ regs \in [sp : 0..MaxSp, ip : {"program"}, ax : {"program"}]
    /\ left = 0 /\ runs = 0 /\ orig = regs

-----------------------------------------------------------------------------
(* sys_ptrace(). *)

Enter ==
    /\ at \in Requests /\ sub = "out" /\ ret = "none"
    /\ sub' = "save"
    /\ UNCHANGED <<caller, cred, authid, caps, slipped, process, orig>>

\* It returns x to its caller.
Leave(x) == sub' = "out" /\ ret' = x /\ UNCHANGED <<at, out, bak, jmp>>

\* Fault: what kernel_get_ucred_authid() returns on an error is not noticed.
SaveUnchecked ==
    /\ sub = "save"
    /\ authid' \in {cred.authid, "zero"} /\ caps' = cred.caps /\ sub' = "raise authid"
    /\ UNCHANGED <<caller, cred, slipped, process, orig>>

Save ==
    /\ sub = "save"
    /\ authid' = cred.authid /\ caps' = cred.caps /\ sub' = "raise authid"
    /\ UNCHANGED <<caller, cred, slipped, process, orig>>

SaveFails ==
    /\ sub = "save"
    /\ Leave("error")
    /\ UNCHANGED <<cred, authid, caps, slipped, process, orig>>

RaiseAuthid ==
    /\ sub = "raise authid"
    /\ cred' = [cred EXCEPT !.authid = "debugger"] /\ sub' = "raise caps"
    /\ UNCHANGED <<caller, authid, caps, slipped, process, orig>>

RaiseCaps ==
    /\ sub = "raise caps"
    /\ cred' = [cred EXCEPT !.caps = "all"] /\ sub' = "request"
    /\ UNCHANGED <<caller, authid, caps, slipped, process, orig>>

LowerAuthid ==
    /\ sub = "lower authid"
    /\ cred' = [cred EXCEPT !.authid = authid] /\ sub' = "lower caps"
    /\ UNCHANGED <<caller, authid, caps, slipped, process, orig>>

LowerCaps ==
    /\ sub = "lower caps"
    /\ cred' = [cred EXCEPT !.caps = caps]
    /\ sub' = "out" /\ ret' = IF ret = "failed" THEN "error" ELSE "ok"
    /\ UNCHANGED <<at, out, bak, jmp, authid, caps, slipped, process, orig>>

\* One of the four fails: what was done so far stays.
CredFails ==
    /\ sub \in {"raise authid", "raise caps", "lower authid", "lower caps"}
    /\ Leave("error")
    /\ slipped' = TRUE
    /\ UNCHANGED <<cred, authid, caps, process, orig>>

\* The system call does its work, on a process that has been waited for.
Done == sub' = "lower authid" /\ UNCHANGED <<cred, authid, caps, slipped>>

\* Fault: an error of the system call is returned at once.
RequestFailsAtOnce ==
    /\ sub = "request"
    /\ Leave("error")
    /\ UNCHANGED <<cred, authid, caps, slipped, process, orig>>

\* It fails, for a process that runs or is dead always.
RequestFails ==
    /\ sub = "request"
    /\ ret' = "failed" /\ Done
    /\ UNCHANGED <<at, out, bak, jmp, process, orig>>

-----------------------------------------------------------------------------
(* pt_call() and pt_syscall(). *)

\* The next call; after one that failed the loader often goes on all the same.
Call ==
    /\ at = "idle"
    /\ regs.sp < MaxSp
    /\ at' = "resolve" /\ out' = "none" /\ runs' = 0 /\ orig' = regs
    /\ UNCHANGED <<ret, bak, jmp, ptrace, st, regs, left>>

\* The call returns.
CallEnds(x) == at' = "idle" /\ out' = x

\* pt_resolve() finds the function, or it does not and the callers of pt_call()
\* go on with the address 0.
Resolve ==
    /\ at = "resolve"
    /\ at' = "getregs"
    /\ UNCHANGED <<ret, out, bak, jmp, ptrace, process, orig>>

\* pt_syscall() looks at the address.
ResolveFails ==
    /\ at = "resolve"
    /\ CallEnds("error")
    /\ UNCHANGED <<ret, bak, jmp, ptrace, process, orig>>

\* The five requests, when they succeed.
GetRegs ==
    /\ sub = "request" /\ at = "getregs" /\ st = "waited"
    /\ bak' = regs /\ Done
    /\ UNCHANGED <<at, ret, out, jmp, process, orig>>

\* The new registers: for pt_syscall() the address it has checked and rax, for
\* pt_call() the function, or 0.
Targets == {[bak EXCEPT !.ip = "function", !.ax = "number"],
            [bak EXCEPT !.ip = "function"], [bak EXCEPT !.ip = "fault"]}

SetRegs ==
    /\ sub = "request" /\ at = "setregs" /\ st = "waited"
    /\ regs' \in Targets
    /\ jmp' = regs' /\ left' = MaxPush /\ Done
    /\ UNCHANGED <<at, ret, out, bak, st, runs, orig>>

SingleStep ==
    /\ sub = "request" /\ at = "step" /\ st = "waited"
    /\ st' = "stepping" /\ Done
    /\ UNCHANGED <<caller, regs, left, runs, orig>>

Peek ==
    /\ sub = "request" /\ at = "peek" /\ st = "waited"
    /\ jmp' = regs /\ Done
    /\ UNCHANGED <<at, ret, out, bak, process, orig>>

RestoreRegs ==
    /\ sub = "request" /\ at = "restore" /\ st = "waited"
    /\ regs' = bak /\ Done
    /\ UNCHANGED <<caller, st, left, runs, orig>>

\* Fault: the loop ends when the stack pointer is where it was.
RunningStrictly == jmp.sp < bak.sp

\* The loop goes on while the function has not returned.
Running == jmp.sp <= bak.sp

\* The next label after a request that succeeded.
Advance ==
    /\ sub = "out" /\ ret = "ok"
    /\ ret' = "none"
    /\ \/ at = "getregs" /\ at' = "setregs" /\ UNCHANGED out
       \/ at \in {"setregs", "peek"} /\ at' = (IF Running THEN "step" ELSE "restore")
          /\ UNCHANGED out
       \/ at = "step" /\ at' = "wait" /\ UNCHANGED out
       \/ at = "restore" /\ CallEnds(jmp.ax)
    /\ UNCHANGED <<bak, jmp, ptrace, process, orig>>

\* Fault: registers that cannot be read are read again.
GiveUpUnlessPeek ==
    /\ sub = "out" /\ ret = "error"
    /\ ret' = "none"
    /\ IF at = "peek" THEN UNCHANGED <<at, out>> ELSE CallEnds("error")
    /\ UNCHANGED <<bak, jmp, ptrace, process, orig>>

\* A request failed: the registers stay as they are.
GiveUp ==
    /\ sub = "out" /\ ret = "error"
    /\ ret' = "none" /\ CallEnds("error")
    /\ UNCHANGED <<bak, jmp, ptrace, process, orig>>

\* waitpid() of pt_step(): the instruction is done, or has faulted, or the
\* process is dead. The status is not looked at.
Wait ==
    /\ at = "wait"
    /\ st \in {"stopped", "dead"}
    /\ st' = IF st = "dead" THEN "gone" ELSE "waited"
    /\ at' = "peek"
    /\ UNCHANGED <<ret, out, bak, jmp, ptrace, regs, left, runs, orig>>

WaitInterrupted ==
    /\ at = "wait"
    /\ CallEnds("error")
    /\ UNCHANGED <<ret, bak, jmp, ptrace, process, orig>>

-----------------------------------------------------------------------------
(* The process; its function works below its frame and then returns. *)

Executes(r) ==
    /\ st = "stepping"
    /\ regs' = r /\ st' = "stopped"
    /\ UNCHANGED <<caller, ptrace, orig>>

Push ==
    /\ regs.ip = "function" /\ left > 0 /\ regs.sp > 0
    /\ left' = left - 1 /\ UNCHANGED runs
    /\ Executes([regs EXCEPT !.sp = @ - 1])

Pop ==
    /\ regs.ip = "function" /\ regs.sp < bak.sp
    /\ UNCHANGED <<left, runs>>
    /\ Executes([regs EXCEPT !.sp = @ + 1])

Returns ==
    /\ regs.ip = "function" /\ regs.sp = bak.sp
    /\ runs' = runs + 1 /\ UNCHANGED left
    /\ Executes([sp |-> regs.sp + 1, ip |-> "after", ax |-> "result"])

\* An instruction that faults changes nothing and stops the process like any
\* other step: pt_step() steps it again, without the signal.
Faults ==
    /\ regs.ip \in {"function", "fault"}
    /\ UNCHANGED <<left, runs>>
    /\ Executes([regs EXCEPT !.ip = "fault"])

\* SIGKILL.
Dies ==
    /\ st \notin {"dead", "gone"}
    /\ st' = "dead"
    /\ UNCHANGED <<caller, ptrace, regs, left, runs, orig>>

-----------------------------------------------------------------------------
CallerStep ==
    \/ Enter \/ Save \/ SaveFails \/ RaiseAuthid \/ RaiseCaps \/ LowerAuthid \/ LowerCaps
    \/ CredFails \/ RequestFails
    \/ Resolve \/ ResolveFails \/ GetRegs \/ SetRegs \/ SingleStep \/ Peek \/ RestoreRegs
    \/ Advance \/ GiveUp \/ Wait \/ WaitInterrupted

ProcessStep == Push \/ Pop \/ Returns \/ Faults

CallNext == CallerStep \/ ProcessStep \/ Call \/ Dies

CallSpec == CallInit /\ [][CallNext]_callVars

\* Both are scheduled. What a function pushes is bounded: it returns or faults.
FairCallSpec == CallSpec /\ WF_callVars(CallerStep) /\ WF_callVars(ProcessStep)

-----------------------------------------------------------------------------
(* Properties. *)

CallTypeOK ==
    /\ at \in {"idle", "resolve", "wait"} \cup Requests
    /\ sub \in {"out", "save", "raise authid", "raise caps", "request",
                "lower authid", "lower caps"}
    /\ sub # "out" => at \in Requests
    /\ ret \in {"none", "ok", "failed", "error"}
    /\ cred \in [authid : Ids, caps : Caps] /\ authid \in Ids /\ caps \in Caps
    /\ slipped \in BOOLEAN
    /\ out \in {"none", "error", "program", "number", "result"}
    /\ bak \in Regs /\ jmp \in Regs /\ regs \in Regs /\ orig \in Regs
    /\ st \in {"waited", "stepping", "stopped", "dead", "gone"}
    /\ left \in 0..MaxPush /\ runs \in Nat

\* A call that reports success ran the function once, to its end, returns its
\* result, and leaves the process with the registers it had.
CallIsClean ==
    at = "idle" /\ out \notin {"none", "error"}
    => out = "result" /\ runs = 1 /\ regs = orig

\* Outside of sys_ptrace() the caller has its own credentials, whatever the
\* request and its outcome, unless setting credentials itself has failed.
CredentialsLowered == sub = "out" /\ ~slipped => cred = Own

\* The loop of pt_call() is at an instruction that faults.
Faulting == at \in {"step", "wait", "peek"} /\ regs.ip = "fault" /\ st \notin {"dead", "gone"}

\* A call returns, also when the process dies under it, a request fails or the
\* wait is interrupted; only a fault is stepped for ever.
CallReturns == []<>(at = "idle" \/ Faulting)
=============================================================================
