---------------------------- MODULE LoaderProofs ----------------------------
(***************************************************************************)
(* Proofs about the loader. elfldr_spawn() releases only processes with    *)
(* the image, the argument block and the registers, whatever fails and     *)
(* whatever is interrupted; only an interruption, or a request to kill     *)
(* that failed, makes it leave a child half way, and only an interruption  *)
(* makes it free a stack in use.                                           *)
(* The remote calls it makes, pt_call() and pt_syscall(), report success   *)
(* only when their function ran once and the registers are restored, and   *)
(* sys_ptrace() gives back the credentials it takes.                       *)
(***************************************************************************)
EXTENDS ElfLoader, RemoteCall, TLAPS

-----------------------------------------------------------------------------
(* elfldr_spawn(). *)


Labels == {"idle", "register", "kevent", "await", "run"} \cup Loading

\* What a label says of the child the command works on: after execve() it is
\* no longer in elfldr_rfork_entry(); from "dress" on the breakpoint is gone;
\* only the continued child runs; what is about to be released is complete.
Clean    == {"dress", "environ", "cwd", "raise", "redirect", "load", "args",
             "regs", "lower", "detach"}
Complete(k) == Vital \subseteq k.parts /\ ~k.brk /\ k.caps = "own"

CurInv ==
    /\ pc \in Loading => kid[cur].st \in {"none", "dead"} \cup Traced
    /\ pc \in Loading \ {"trap"} => kid[cur].st # "running"
    /\ pc \in Clean => ~kid[cur].brk
    /\ pc = "detach" /\ kid[cur].st = "stopped" => Complete(kid[cur])
    /\ pc = "run" => kid[cur].st \in {"released", "dead"}

SpawnInv == TypeOK /\ ReleasedIsComplete /\ CurInv

\* What holds of a child the command has left, and of one it works on.
Settled(k) == k.st \in {"none", "released", "dead"} \/ k.cut \/ k.spared
StackOK(k) == k.stack = "freed" /\ ~k.cut => k.st # "entry"

OthersDone == \A c \in Kids : c # cur => Settled(kid[c])

QuietInv == SpawnInv /\ OthersDone /\ StackOutlivesUse

-----------------------------------------------------------------------------
LEMMA CurIsKid == ASSUME TypeOK, pc # "idle" PROVE cur \in Kids /\ kid[cur] \in Kid
BY DEF TypeOK

LEMMA NoKidIsKid == NoKid \in Kid
BY DEF NoKid, Kid, States, Traced, Parts

LEMMA DeadIsKid == Dead \in Kid /\ Dead.st = "dead" /\ ~Dead.brk
BY DEF Dead, NoKid, Kid, States, Traced, Parts

\* What the killing pt_detach() leaves: a dead child, or the same one, marked.
LEMMA KilledIs ==
    ASSUME NEW k \in Kid, NEW x \in Killed(k), k.st # "released", k.st # "entry"
    PROVE  x \in Kid /\ x.st # "released" /\ Settled(x) /\ StackOK(x)
<1>1. CASE x = Dead
  BY <1>1, DeadIsKid DEF Settled, StackOK
<1>2. CASE x = k /\ k.st \in {"none", "dead"}
  BY <1>2 DEF Settled, StackOK
<1>3. CASE x = [k EXCEPT !.spared = TRUE]
  <2>1. x \in Kid /\ x.st = k.st /\ x.spared
    BY <1>3 DEF Kid
  <2> QED
    BY <2>1 DEF Settled, StackOK
<1> QED
  BY <1>1, <1>2, <1>3 DEF Killed

\* A step of the command that goes on with its child.
LEMMA ToInv ==
    ASSUME SpawnInv, pc # "idle", NEW l \in Labels \ {"idle"}, NEW k \in Kid,
           To(l, k),
           k.st = "released" => Complete(k),
           l \in Loading => k.st \in {"none", "dead"} \cup Traced,
           l \in Loading \ {"trap"} => k.st # "running",
           l \in Clean => ~k.brk,
           l = "detach" /\ k.st = "stopped" => Complete(k),
           l = "run" => k.st \in {"released", "dead"}
    PROVE  SpawnInv'
<1>1. cur \in Kids /\ kid[cur] \in Kid
  BY CurIsKid DEF SpawnInv
<1>2. cur' = cur /\ pc' = l /\ debug' = debug
  BY DEF To
<1>3. kid' = [kid EXCEPT ![cur] = k] /\ kid \in [Kids -> Kid]
  BY DEF To, SpawnInv, TypeOK
<1>4. TypeOK'
  BY <1>1, <1>2, <1>3, ConstantsAssumption DEF SpawnInv, TypeOK, Labels
<1>5. kid'[cur'] = k
  BY <1>1, <1>2, <1>3
<1>6. CurInv'
  BY <1>2, <1>5 DEF CurInv, Complete
<1>7. ReleasedIsComplete'
  BY <1>1, <1>3 DEF SpawnInv, ReleasedIsComplete, Complete
<1> QED
  BY <1>4, <1>6, <1>7 DEF SpawnInv

\* The command returns, leaving its child as k.
LEMMA ReturnInv ==
    ASSUME SpawnInv, pc # "idle", NEW k \in Kid, Return(k),
           k.st = "released" => Complete(k)
    PROVE  SpawnInv'
<1>1. cur \in Kids /\ kid[cur] \in Kid
  BY CurIsKid DEF SpawnInv
<1>2. kid' = [kid EXCEPT ![cur] = k] /\ kid \in [Kids -> Kid]
  BY DEF Return, SpawnInv, TypeOK
<1>3. TypeOK'
  BY <1>1, <1>2, ConstantsAssumption DEF Return, SpawnInv, TypeOK
<1>4. CurInv'
  BY DEF Return, CurInv, Loading, Clean
<1>5. ReleasedIsComplete'
  BY <1>1, <1>2 DEF SpawnInv, ReleasedIsComplete, Complete
<1> QED
  BY <1>3, <1>4, <1>5 DEF SpawnInv

\* A step of child c itself, or of its environment.
LEMMA KidInv ==
    ASSUME SpawnInv, NEW c \in Kids, NEW k \in Kid,
           kid' = [kid EXCEPT ![c] = k], UNCHANGED <<pc, cur, debug>>,
           k.st \in {"unwaited", "dead"},
           k.st = "unwaited" => kid[c].st \in {"entry", "running"},
           k.brk => kid[c].brk
    PROVE  SpawnInv'
<1>1. kid \in [Kids -> Kid]
  BY DEF SpawnInv, TypeOK
<1>2. TypeOK'
  BY <1>1 DEF SpawnInv, TypeOK
<1>3. ReleasedIsComplete'
  BY <1>1 DEF SpawnInv, ReleasedIsComplete
<1>5. CASE c = cur
  <2>1. kid'[cur'] = k
    BY <1>1, <1>5
  <2>2. pc # "idle"
    BY <1>5, ConstantsAssumption DEF SpawnInv, TypeOK
  <2>4. pc = "run" => kid[cur].st \notin {"entry", "running"}
    BY DEF SpawnInv, CurInv
  <2> QED
    BY <1>2, <1>3, <1>5, <2>1, <2>4 DEF SpawnInv, CurInv, Traced
<1>6. CASE c # cur
  <2>1. cur \in Kids => kid'[cur'] = kid[cur]
    BY <1>1, <1>6
  <2>2. pc # "idle" => cur \in Kids
    BY DEF SpawnInv, TypeOK
  <2>3. CurInv'
    BY <2>1, <2>2 DEF SpawnInv, CurInv, Loading, Clean, Complete
  <2> QED
    BY <1>2, <1>3, <2>3 DEF SpawnInv
<1> QED
  BY <1>5, <1>6

-----------------------------------------------------------------------------
(* Released processes are complete: every step keeps SpawnInv. *)

\* The steps that kill the child, or try to.
LEMMA KillingSteps ==
    ASSUME SpawnInv, Aborts \/ ContinueFailsLate \/ LowerFailed \/ TrapInterrupted
    PROVE  /\ pc # "idle"
           /\ \E x \in Kid : Return(x) /\ x.st # "released" /\ Settled(x) /\ StackOK(x)
<1> USE DEF Loading
<1>1. /\ pc \in Loading
      /\ \E k : /\ \/ k = kid[cur]
                  \/ k = [kid[cur] EXCEPT !.st = "running"]
                  \/ k = [kid[cur] EXCEPT !.caps = "own"]
                  \/ k = [kid[cur] EXCEPT !.cut = TRUE]
               /\ \E x \in Killed(k) : Return(x)
  BY DEF Aborts, Abort, Checked, ContinueFailsLate, LowerFailed, TrapInterrupted
<1>2. PICK k : /\ \/ k = kid[cur]
                  \/ k = [kid[cur] EXCEPT !.st = "running"]
                  \/ k = [kid[cur] EXCEPT !.caps = "own"]
                  \/ k = [kid[cur] EXCEPT !.cut = TRUE]
               /\ \E x \in Killed(k) : Return(x)
  BY <1>1
<1>3. kid[cur] \in Kid /\ kid[cur].st \notin {"released", "entry"}
  BY <1>1, CurIsKid DEF SpawnInv, CurInv, Traced
<1>4. k \in Kid /\ k.st \notin {"released", "entry"}
  BY <1>2, <1>3 DEF Kid, States, Traced
<1> QED
  BY <1>1, <1>2, <1>4, KilledIs

LEMMA LoaderInv == ASSUME SpawnInv, LoaderStep PROVE SpawnInv'
<1> USE DEF Labels, Loading, Clean
<1>a. pc # "idle" => cur \in Kids /\ kid[cur] \in Kid
  BY CurIsKid DEF SpawnInv
<1>b. cur \in Kids => (kid[cur].st = "released" => Complete(kid[cur]))
  BY DEF SpawnInv, ReleasedIsComplete, Complete
<1>1. CASE Register
  <2>1. pc = "register" /\ kid[cur] \in Kid
    BY <1>1, <1>a DEF Register
  <2>2. [kid[cur] EXCEPT !.evt = "armed"] \in Kid
    BY <2>1 DEF Kid
  <2> QED
    BY <1>1, <1>a, <1>b, <2>1, <2>2, ToInv DEF Register, Kid, Complete
<1>2. CASE KeventReturns
  BY <1>2, <1>a, <1>b, ToInv DEF KeventReturns
<1>3. CASE Await
  <2>1. pc = "await" /\ kid[cur] \in Kid
    BY <1>3, <1>a DEF Await
  <2> DEFINE k == [kid[cur] EXCEPT !.st = "stopped", !.stack = "freed", !.evt = "none"]
  <2>2. k \in Kid /\ k.st = "stopped"
    BY <2>1 DEF Kid, States, Traced
  <2>3. CASE kid[cur].st = "dead"
    <3>1. To("relocate", NoKid) /\ NoKid.st = "none"
      BY <1>3, <2>3 DEF Await, NoKid
    <3> QED
      BY <2>1, <3>1, NoKidIsKid, ToInv
  <2>4. CASE kid[cur].st = "unwaited"
    <3>1. To("relocate", k)
      BY <1>3, <2>4 DEF Await
    <3> QED
      BY <2>1, <2>2, <3>1, ToInv DEF Traced
  <2> QED
    BY <1>3, <2>3, <2>4 DEF Await
<1>4. CASE Relocate
  BY <1>4, <1>a, ToInv DEF Relocate, Step, Traced
<1>17. CASE SetHeapSize
  <2>1. pc = "heap" /\ To("plant", kid[cur])
    BY <1>17 DEF SetHeapSize, Passes
  <2>2. kid[cur].st \in {"none", "dead"} \cup Traced /\ kid[cur].st # "running"
    BY <2>1 DEF SpawnInv, CurInv
  <2> QED
    BY <2>1, <2>2, <1>a, ToInv DEF Traced
<1>5. CASE Plant
  <2>1. [kid[cur] EXCEPT !.brk = TRUE] \in Kid
    BY <1>5, <1>a DEF Plant, Step, Kid
  <2> QED
    BY <1>5, <1>a, <2>1, ToInv DEF Plant, Step, Kid, Traced
<1>6. CASE Continue
  <2>1. [kid[cur] EXCEPT !.st = "running"] \in Kid
    BY <1>6, <1>a DEF Continue, Step, Kid, States, Traced
  <2> QED
    BY <1>6, <1>a, <2>1, ToInv DEF Continue, Step, Kid, Traced
<1>7. CASE Trap
  <2> DEFINE k == [kid[cur] EXCEPT !.st = "stopped"]
  <2>1. NoKid.st = "none"
    BY DEF NoKid
  <2>2. pc = "trap" /\ kid[cur] \in Kid /\ (To("restore", NoKid) \/ To("restore", k))
    BY <1>7, <1>a DEF Trap
  <2>3. k \in Kid /\ k.st = "stopped"
    BY <2>2 DEF Kid, States, Traced
  <2> QED
    BY <2>1, <2>2, <2>3, NoKidIsKid, ToInv DEF Traced
<1>8. CASE Restore
  <2>1. [kid[cur] EXCEPT !.brk = FALSE] \in Kid
    BY <1>8, <1>a DEF Restore, Step, Kid
  <2> QED
    BY <1>8, <1>a, <2>1, ToInv DEF Restore, Step, Kid, Traced
<1>9. CASE SetProcname \/ SetEnviron \/ SetCwd \/ Redirect \/ PrepareFails
  <2>1. /\ pc \in {"dress", "environ", "cwd", "redirect", "load", "args", "regs"}
        /\ \E l \in {"environ", "cwd", "raise", "load", "lower"} : To(l, kid[cur])
    BY <1>9 DEF SetProcname, SetEnviron, SetCwd, Redirect, PrepareFails, Passes
  <2>2. /\ kid[cur].st \in {"none", "dead"} \cup Traced
        /\ kid[cur].st # "running" /\ ~kid[cur].brk
    BY <2>1 DEF SpawnInv, CurInv
  <2> QED
    BY <2>1, <2>2, <1>a, ToInv DEF Traced
<1>10. CASE Raise
  <2> DEFINE k == [kid[cur] EXCEPT !.caps = "all"]
  <2>1. /\ pc = "raise" /\ kid[cur] \in Kid /\ To("redirect", k)
        /\ kid[cur].st \in {"stopped", "unwaited"}
    BY <1>10, <1>a DEF Raise
  <2>2. k \in Kid /\ k.st = kid[cur].st /\ k.brk = kid[cur].brk
    BY <2>1 DEF Kid
  <2>3. ~kid[cur].brk
    BY <2>1 DEF SpawnInv, CurInv
  <2> QED
    BY <2>1, <2>2, <2>3, ToInv DEF Traced
<1>11. CASE Load \/ PayloadArgs \/ SetRegisters
  <2>1. PICK from \in {"load", "args", "regs"}, to \in {"args", "regs", "lower"},
             part \in Parts, un \in SUBSET Parts : Prepared(from, to, part, un)
    BY <1>11 DEF Load, PayloadArgs, SetRegisters, Parts
  <2>5. PICK u \in SUBSET un :
           Step(from, to, [kid[cur] EXCEPT !.parts = @ \cup {part} \cup u])
    BY <2>1 DEF Prepared
  <2> DEFINE k == [kid[cur] EXCEPT !.parts = @ \cup {part} \cup u]
  <2>2. pc = from /\ kid[cur] \in Kid /\ kid[cur].st = "stopped" /\ To(to, k)
    BY <2>5, <1>a DEF Step
  <2>3. k \in Kid /\ k.st = "stopped" /\ k.brk = kid[cur].brk
    BY <2>2 DEF Kid
  <2>4. ~kid[cur].brk
    BY <2>2 DEF SpawnInv, CurInv
  <2> QED
    BY <2>2, <2>3, <2>4, ToInv DEF Traced
<1>12. CASE Lower
  <2> DEFINE k == [kid[cur] EXCEPT !.caps = "own"]
  <2>1. /\ pc = "lower" /\ kid[cur].st = "stopped" /\ Vital \subseteq kid[cur].parts
        /\ To("detach", k)
    BY <1>12 DEF Lower, Step
  <2>2. /\ k \in Kid /\ k.st = "stopped" /\ k.brk = kid[cur].brk
        /\ k.parts = kid[cur].parts /\ k.caps = "own"
    BY <2>1, <1>a DEF Kid
  <2>3. ~kid[cur].brk
    BY <2>1 DEF SpawnInv, CurInv
  <2> QED
    BY <2>1, <2>2, <2>3, ToInv DEF Complete, Traced
<1>13. CASE Detach
  <2> DEFINE k == [kid[cur] EXCEPT !.st = "released"]
  <2>1. pc = "detach" /\ kid[cur].st = "stopped" /\ kid[cur] \in Kid
    BY <1>13, <1>a DEF Detach
  <2>2. Complete(kid[cur])
    BY <2>1 DEF SpawnInv, CurInv
  <2>3. k \in Kid /\ k.st = "released" /\ Complete(k)
    BY <2>1, <2>2 DEF Kid, States, Complete
  <2>4. CASE debug
    BY <1>13, <2>1, <2>3, <2>4, ReturnInv DEF Detach
  <2>5. CASE ~debug
    <3>1. To("run", k)
      BY <1>13, <2>5 DEF Detach
    <3> QED
      BY <2>1, <2>3, <3>1, ToInv
  <2> QED
    BY <2>4, <2>5
<1>14. CASE Aborts \/ ContinueFailsLate \/ LowerFailed
  BY <1>14, KillingSteps, ReturnInv
<1>16. CASE DetachFails
  BY <1>16, DeadIsKid, ReturnInv DEF DetachFails
<1>15. CASE RunEnds
  <2>1. NoKid.st = "none"
    BY DEF NoKid
  <2> QED
    BY <1>15, <2>1, NoKidIsKid, ReturnInv DEF RunEnds
<1> QED
  BY <1>1, <1>2, <1>3, <1>4, <1>5, <1>6, <1>7, <1>8, <1>9, <1>10, <1>11, <1>12,
     <1>13, <1>14, <1>15, <1>16, <1>17 DEF LoaderStep

LEMMA InterruptedInv ==
    ASSUME SpawnInv,
           SpawnInterrupted \/ TrapInterrupted \/ RunInterrupted \/ CallCut \/ CallFaults
    PROVE  SpawnInv'
<1>1. CASE SpawnInterrupted
  <2> DEFINE k == [kid[cur] EXCEPT !.stack = "freed", !.cut = TRUE]
  <2>1. pc # "idle" /\ cur \in Kids /\ kid[cur] \in Kid /\ Return(k)
    BY <1>1, CurIsKid DEF SpawnInterrupted, SpawnInv
  <2>2. /\ k \in Kid /\ k.st = kid[cur].st
        /\ Complete(kid[cur]) => Complete(k)
    BY <2>1 DEF Kid, Complete
  <2> QED
    BY <2>1, <2>2, ReturnInv DEF SpawnInv, ReleasedIsComplete, Complete
<1>2. CASE TrapInterrupted
  BY <1>2, KillingSteps, ReturnInv
<1>3. CASE RunInterrupted
  <2>1. pc = "run" /\ cur \in Kids /\ kid[cur] \in Kid /\ Return(kid[cur])
    BY <1>3, CurIsKid DEF RunInterrupted, SpawnInv
  <2> QED
    BY <2>1, ReturnInv DEF SpawnInv, ReleasedIsComplete, Complete
<1>4. CASE CallCut \/ CallFaults
  <2>1. PICK t \in {"unwaited", "faulting"} :
           pc \in Remote /\ To(pc, [kid[cur] EXCEPT !.st = t])
    BY <1>4 DEF CallCut, CallFaults, Calling
  <2> DEFINE k == [kid[cur] EXCEPT !.st = t]
  <2>2. pc \in Loading \ {"trap"} /\ pc \in Labels \ {"idle"} /\ pc # "detach" /\ pc # "run"
    BY <2>1 DEF Remote, Loading, Labels
  <2>3. kid[cur] \in Kid
    BY <2>2, CurIsKid DEF SpawnInv, Labels
  <2>4. k \in Kid /\ k.st = t /\ k.brk = kid[cur].brk
    BY <2>3 DEF Kid, States, Traced
  <2>5. pc \in Clean => ~k.brk
    BY <2>4 DEF SpawnInv, CurInv
  <2> HIDE DEF k
  <2> QED
    BY <2>1, <2>2, <2>4, <2>5, ToInv DEF k, Traced
<1> QED
  BY <1>1, <1>2, <1>3, <1>4

\* The children's own steps, Ends included.
LEMMA KidStepInv ==
    ASSUME SpawnInv, NEW c \in Kids, KidStep(c) \/ Stops(c) \/ Ends(c)
    PROVE  SpawnInv'
<1> DEFINE k == kid'[c]
<1>a. kid \in [Kids -> Kid] /\ kid[c] \in Kid
  BY DEF SpawnInv, TypeOK
<1>1. CASE EntryFails(c)
  <2>1. k = [kid[c] EXCEPT !.st = "dead"] /\ kid' = [kid EXCEPT ![c] = k]
    BY <1>1, <1>a DEF EntryFails
  <2>2. k \in Kid /\ k.st = "dead" /\ k.brk = kid[c].brk
    BY <1>a, <2>1 DEF Kid, States
  <2> QED
    BY <1>1, <2>1, <2>2, KidInv DEF EntryFails
<1>2. CASE Execs(c)
  <2>1. /\ kid' = [kid EXCEPT ![c] = k]
        /\ k = [kid[c] EXCEPT !.st = "unwaited",
                              !.evt = IF @ = "armed" THEN "fired" ELSE @]
    BY <1>2, <1>a DEF Execs
  <2>2. k \in Kid /\ k.st = "unwaited" /\ k.brk = kid[c].brk
    BY <1>a, <2>1 DEF Kid, States, Traced
  <2>3. kid[c].st = "entry" /\ UNCHANGED <<pc, cur, debug>>
    BY <1>2 DEF Execs
  <2>4. kid' = [kid EXCEPT ![c] = k]
    BY <2>1
  <2> HIDE DEF k
  <2> QED
    BY <2>2, <2>3, <2>4, KidInv
<1>3. CASE Stops(c)
  <2>1. k = [kid[c] EXCEPT !.st = "unwaited"] /\ kid' = [kid EXCEPT ![c] = k]
    BY <1>3, <1>a DEF Stops
  <2>2. k \in Kid /\ k.st = "unwaited" /\ k.brk = kid[c].brk
    BY <1>a, <2>1 DEF Kid, States, Traced
  <2> QED
    BY <1>3, <2>1, <2>2, KidInv DEF Stops
<1>4. CASE Ends(c)
  <2>1. k = [Dead EXCEPT !.evt = kid[c].evt] /\ kid' = [kid EXCEPT ![c] = k]
    BY <1>4, <1>a DEF Ends
  <2>2. k \in Kid /\ k.st = "dead" /\ ~k.brk
    BY <1>a, <2>1, DeadIsKid DEF Kid
  <2>3. UNCHANGED <<pc, cur, debug>>
    BY <1>4 DEF Ends
  <2> HIDE DEF k
  <2> QED
    BY <2>1, <2>2, <2>3, KidInv
<1> QED
  BY <1>1, <1>2, <1>3, <1>4 DEF KidStep

\* Between commands: a dead child is collected, a new one made.
LEMMA IdleInv ==
    ASSUME SpawnInv, NEW c \in Kids,
           Collected(c) \/ \E d \in BOOLEAN : Rfork(c, d)
    PROVE  SpawnInv'
<1>a. kid \in [Kids -> Kid]
  BY DEF SpawnInv, TypeOK
<1>1. CASE Collected(c)
  <2>1. TypeOK'
    BY <1>1, <1>a, NoKidIsKid DEF Collected, SpawnInv, TypeOK
  <2>2. NoKid.st = "none"
    BY DEF NoKid
  <2>3. ReleasedIsComplete'
    BY <1>1, <1>a, <2>2 DEF Collected, SpawnInv, ReleasedIsComplete
  <2> QED
    BY <1>1, <2>1, <2>3 DEF Collected, SpawnInv, CurInv, Loading, Clean
<1>2. ASSUME NEW d \in BOOLEAN, Rfork(c, d) PROVE SpawnInv'
  <2> DEFINE k == [NoKid EXCEPT !.st = "entry", !.stack = "used"]
  <2>1. k \in Kid /\ k.st = "entry"
    BY DEF NoKid, Kid, States, Parts
  <2>2. pc' = "register" /\ cur' = c /\ debug' = d /\ kid' = [kid EXCEPT ![c] = k]
    BY <1>2 DEF Rfork
  <2>3. TypeOK'
    BY <1>a, <2>1, <2>2, ConstantsAssumption DEF TypeOK
  <2>4. ReleasedIsComplete'
    BY <1>a, <2>1, <2>2 DEF SpawnInv, ReleasedIsComplete
  <2> QED
    BY <2>2, <2>3, <2>4 DEF SpawnInv, CurInv, Loading, Clean
<1> QED
  BY <1>1, <1>2

LEMMA SpawnInductive == SpawnInv /\ [Next]_vars => SpawnInv'
<1> SUFFICES ASSUME SpawnInv, [Next]_vars PROVE SpawnInv'
  OBVIOUS
<1>1. CASE UNCHANGED vars
  BY <1>1 DEF vars, SpawnInv, TypeOK, ReleasedIsComplete, CurInv, Complete
<1>2. CASE Next
  BY <1>2, LoaderInv, InterruptedInv, KidStepInv, IdleInv DEF Next
<1> QED
  BY <1>1, <1>2

LEMMA SpawnInitial == Init => SpawnInv
<1>1. NoKid.st = "none"
  BY DEF NoKid
<1> QED
  BY <1>1, NoKidIsKid, ConstantsAssumption
     DEF Init, SpawnInv, TypeOK, ReleasedIsComplete, CurInv, Loading, Clean

\* Whatever fails, dies or is interrupted, elfldr_spawn() lets a process run on
\* its own only when it has the image, an argument block and the registers that
\* point to both, no breakpoint in its code and its own capabilities.
THEOREM CompleteRelease == Spec => []ReleasedIsComplete
<1>1. SpawnInv => ReleasedIsComplete
  BY DEF SpawnInv
<1> QED
  BY <1>1, SpawnInitial, SpawnInductive, PTL DEF Spec

-----------------------------------------------------------------------------
(* No child half way but by an interruption or a failed request to kill it,  *)
(* no stack freed in use but by an interruption: every step keeps QuietInv.  *)

LEMMA ToQuiet ==
    ASSUME QuietInv, pc # "idle", NEW l, NEW k \in Kid, To(l, k), StackOK(k)
    PROVE  OthersDone' /\ StackOutlivesUse'
BY CurIsKid DEF QuietInv, SpawnInv, TypeOK, To, OthersDone, StackOutlivesUse, StackOK

LEMMA ReturnQuiet ==
    ASSUME QuietInv, pc # "idle", NEW k \in Kid, Return(k), StackOK(k), Settled(k)
    PROVE  OthersDone' /\ StackOutlivesUse'
BY CurIsKid, ConstantsAssumption
   DEF QuietInv, SpawnInv, TypeOK, Return, OthersDone, StackOutlivesUse, StackOK, Settled

LEMMA LoaderQuiet == ASSUME QuietInv, LoaderStep PROVE OthersDone' /\ StackOutlivesUse'
<1> USE DEF Loading
<1>a. pc # "idle" => cur \in Kids /\ kid[cur] \in Kid /\ StackOK(kid[cur])
  BY CurIsKid DEF QuietInv, SpawnInv, StackOutlivesUse, StackOK
<1>b. NoKid \in Kid /\ StackOK(NoKid) /\ Settled(NoKid)
  BY NoKidIsKid DEF NoKid, StackOK, Settled
<1>1. CASE Register
  <2>1. pc = "register" /\ kid[cur] \in Kid /\ StackOK(kid[cur])
    BY <1>1, <1>a DEF Register
  <2>2. [kid[cur] EXCEPT !.evt = "armed"] \in Kid /\ StackOK([kid[cur] EXCEPT !.evt = "armed"])
    BY <2>1 DEF Kid, StackOK
  <2> QED
    BY <1>1, <2>1, <2>2, ToQuiet DEF Register
<1>2. CASE KeventReturns \/ SetHeapSize \/ SetProcname \/ SetEnviron \/ SetCwd \/ Redirect \/ PrepareFails \/ Relocate
  <2>1. pc # "idle" /\ \E l \in Loading \cup {"await"} : To(l, kid[cur])
    BY <1>2 DEF KeventReturns, SetHeapSize, SetProcname, SetEnviron, SetCwd, Redirect, PrepareFails,
                Relocate, Step, Passes
  <2> QED
    BY <2>1, <1>a, ToQuiet
<1>3. CASE Await
  <2> DEFINE k == [kid[cur] EXCEPT !.st = "stopped", !.stack = "freed", !.evt = "none"]
  <2>1. pc = "await" /\ kid[cur] \in Kid
    BY <1>3, <1>a DEF Await
  <2>2. CASE kid[cur].st = "dead"
    BY <1>3, <1>b, <2>1, <2>2, ToQuiet DEF Await
  <2>3. CASE kid[cur].st = "unwaited"
    <3>1. k \in Kid /\ StackOK(k)
      BY <2>1 DEF Kid, States, Traced, StackOK
    <3>2. To("relocate", k)
      BY <1>3, <2>3 DEF Await
    <3> QED
      BY <2>1, <3>1, <3>2, ToQuiet
  <2> QED
    BY <1>3, <2>2, <2>3 DEF Await
<1>4. CASE Plant \/ Continue \/ Restore \/ Raise \/ Lower
  <2>1. PICK k : /\ pc # "idle" /\ kid[cur].st \in {"stopped", "unwaited"}
                 /\ \E l \in Loading : To(l, k)
                 /\ \/ k = [kid[cur] EXCEPT !.brk = TRUE]
                    \/ k = [kid[cur] EXCEPT !.st = "running"]
                    \/ k = [kid[cur] EXCEPT !.brk = FALSE]
                    \/ k = [kid[cur] EXCEPT !.caps = "all"]
                    \/ k = [kid[cur] EXCEPT !.caps = "own"]
    BY <1>4 DEF Plant, Continue, Restore, Raise, Lower, Step
  <2>2. k \in Kid /\ StackOK(k)
    BY <1>a, <2>1 DEF Kid, States, Traced, StackOK
  <2> QED
    BY <2>1, <2>2, ToQuiet
<1>5. CASE Load \/ PayloadArgs \/ SetRegisters
  <2>1. PICK part \in Parts, u \in SUBSET Parts :
           /\ pc # "idle" /\ kid[cur].st = "stopped"
           /\ \E l \in Loading : To(l, [kid[cur] EXCEPT !.parts = @ \cup {part} \cup u])
    BY <1>5 DEF Load, PayloadArgs, SetRegisters, Prepared, Step, Parts
  <2> DEFINE k == [kid[cur] EXCEPT !.parts = @ \cup {part} \cup u]
  <2>2. k \in Kid /\ StackOK(k)
    BY <1>a, <2>1 DEF Kid, StackOK
  <2> QED
    BY <2>1, <2>2, ToQuiet
<1>6. CASE Trap
  <2> DEFINE k == [kid[cur] EXCEPT !.st = "stopped"]
  <2>1. pc = "trap" /\ kid[cur] \in Kid /\ (To("restore", NoKid) \/ To("restore", k))
    BY <1>6, <1>a DEF Trap
  <2>2. k \in Kid /\ StackOK(k)
    BY <2>1 DEF Kid, States, Traced, StackOK
  <2> QED
    BY <1>b, <2>1, <2>2, ToQuiet
<1>7. CASE Detach
  <2> DEFINE k == [kid[cur] EXCEPT !.st = "released"]
  <2>1. pc = "detach" /\ kid[cur] \in Kid
    BY <1>7, <1>a DEF Detach
  <2>2. k \in Kid /\ StackOK(k) /\ Settled(k)
    BY <2>1 DEF Kid, States, StackOK, Settled
  <2>3. Return(k) \/ To("run", k)
    BY <1>7 DEF Detach
  <2> QED
    BY <2>1, <2>2, <2>3, ToQuiet, ReturnQuiet
<1>8. CASE Aborts \/ ContinueFailsLate \/ LowerFailed
  BY <1>8, KillingSteps, ReturnQuiet DEF QuietInv
<1>10. CASE DetachFails
  BY <1>10, DeadIsKid, ReturnQuiet DEF DetachFails, StackOK, Settled
<1>9. CASE RunEnds
  BY <1>9, <1>b, ReturnQuiet DEF RunEnds
<1> QED
  BY <1>1, <1>2, <1>3, <1>4, <1>5, <1>6, <1>7, <1>8, <1>9, <1>10 DEF LoaderStep

\* An interruption leaves the child marked, a call that fails leaves it with the
\* command.
LEMMA InterruptedQuiet ==
    ASSUME QuietInv,
           SpawnInterrupted \/ TrapInterrupted \/ RunInterrupted \/ CallCut \/ CallFaults
    PROVE  OthersDone' /\ StackOutlivesUse'
<1>a. pc # "idle" => cur \in Kids /\ kid[cur] \in Kid /\ StackOK(kid[cur])
  BY CurIsKid DEF QuietInv, SpawnInv, StackOutlivesUse, StackOK
<1>1. CASE SpawnInterrupted
  <2> DEFINE k == [kid[cur] EXCEPT !.stack = "freed", !.cut = TRUE]
  <2>1. pc # "idle" /\ kid[cur] \in Kid /\ Return(k)
    BY <1>1, <1>a DEF SpawnInterrupted
  <2>2. k \in Kid /\ StackOK(k) /\ Settled(k)
    BY <2>1 DEF Kid, StackOK, Settled
  <2> QED
    BY <2>1, <2>2, ReturnQuiet
<1>2. CASE TrapInterrupted
  BY <1>2, KillingSteps, ReturnQuiet DEF QuietInv
<1>3. CASE RunInterrupted
  <2>1. pc = "run" /\ Return(kid[cur])
    BY <1>3 DEF RunInterrupted
  <2>2. Settled(kid[cur])
    BY <2>1 DEF QuietInv, SpawnInv, CurInv, Settled
  <2> QED
    BY <1>a, <2>1, <2>2, ReturnQuiet
<1>4. CASE CallCut \/ CallFaults
  <2>1. PICK t \in {"unwaited", "faulting"} :
           pc # "idle" /\ To(pc, [kid[cur] EXCEPT !.st = t])
    BY <1>4 DEF CallCut, CallFaults, Calling, Remote
  <2>2. [kid[cur] EXCEPT !.st = t] \in Kid /\ StackOK([kid[cur] EXCEPT !.st = t])
    BY <1>a, <2>1 DEF Kid, States, Traced, StackOK
  <2> QED
    BY <2>1, <2>2, ToQuiet
<1> QED
  BY <1>1, <1>2, <1>3, <1>4

\* A child that moves by itself is the one being made, was left by an
\* interruption, or dies.
LEMMA KidQuiet ==
    ASSUME QuietInv, NEW c \in Kids,
           KidStep(c) \/ Stops(c) \/ Ends(c) \/ Collected(c) \/ \E d \in BOOLEAN : Rfork(c, d)
    PROVE  OthersDone' /\ StackOutlivesUse'
<1>a. kid \in [Kids -> Kid] /\ kid[c] \in Kid
  BY DEF QuietInv, SpawnInv, TypeOK
<1>1. CASE KidStep(c) \/ Stops(c)
  <2>1. kid[c].st \in {"entry", "running"}
    BY <1>1 DEF KidStep, EntryFails, Execs, Stops
  <2>2. /\ kid'[c].st \in {"dead", "unwaited"} /\ cur' = cur
        /\ kid'[c].cut = kid[c].cut /\ kid'[c].spared = kid[c].spared
    BY <1>1, <1>a DEF KidStep, EntryFails, Execs, Stops, Kid
  <2>3. \A x \in Kids \ {c} : kid'[x] = kid[x]
    BY <1>1, <1>a DEF KidStep, EntryFails, Execs, Stops
  <2> QED
    BY <2>1, <2>2, <2>3 DEF QuietInv, OthersDone, Settled, StackOutlivesUse
<1>2. CASE Ends(c)
  <2>1. kid'[c].st = "dead" /\ cur' = cur /\ \A x \in Kids \ {c} : kid'[x] = kid[x]
    BY <1>2, <1>a DEF Ends, Dead, NoKid
  <2> QED
    BY <2>1 DEF QuietInv, OthersDone, Settled, StackOutlivesUse
<1>3. CASE Collected(c)
  <2>1. kid'[c].st = "none" /\ cur' = cur /\ \A x \in Kids \ {c} : kid'[x] = kid[x]
    BY <1>3, <1>a DEF Collected, NoKid
  <2> QED
    BY <2>1 DEF QuietInv, OthersDone, Settled, StackOutlivesUse
<1>4. ASSUME NEW d \in BOOLEAN, Rfork(c, d) PROVE OthersDone' /\ StackOutlivesUse'
  <2>1. kid'[c].stack = "used" /\ cur' = c /\ \A x \in Kids \ {c} : kid'[x] = kid[x]
    BY <1>4, <1>a DEF Rfork, NoKid
  <2>2. cur = None
    BY <1>4 DEF Rfork, QuietInv, SpawnInv, TypeOK
  <2>3. \A x \in Kids : Settled(kid[x])
    BY <2>2, ConstantsAssumption DEF QuietInv, OthersDone
  <2> QED
    BY <2>1, <2>3 DEF QuietInv, OthersDone, StackOutlivesUse
<1> QED
  BY <1>1, <1>2, <1>3, <1>4

LEMMA QuietInductive == QuietInv /\ [Next]_vars => QuietInv'
<1> SUFFICES ASSUME QuietInv, [Next]_vars PROVE QuietInv'
  OBVIOUS
<1>1. SpawnInv'
  BY SpawnInductive DEF QuietInv
<1>2. CASE UNCHANGED vars
  BY <1>1, <1>2 DEF vars, QuietInv, OthersDone, Settled, StackOutlivesUse
<1>3. CASE Next
  <2>1. OthersDone' /\ StackOutlivesUse'
    BY <1>3, LoaderQuiet, InterruptedQuiet, KidQuiet DEF Next
  <2> QED
    BY <1>1, <2>1 DEF QuietInv
<1> QED
  BY <1>2, <1>3

LEMMA QuietInitial == Init => QuietInv
<1>1. NoKid.st = "none" /\ NoKid.stack = "none"
  BY DEF NoKid
<1> QED
  BY <1>1, SpawnInitial DEF Init, QuietInv, OthersDone, Settled, StackOutlivesUse

\* elfldr_spawn() returns only after its child was released or is dead, or after
\* a request to kill it, whichever of its steps failed; unless a signal cut one
\* of its own waits short.
THEOREM NoneStranded == Spec => []NotStranded
<1>1. QuietInv => NotStranded
  BY ConstantsAssumption
     DEF QuietInv, SpawnInv, TypeOK, OthersDone, Settled, NotStranded, Traced
<1> QED
  BY <1>1, QuietInductive, QuietInitial, PTL DEF Spec

\* elfldr_spawn() frees the stack only after the child it shares its memory
\* with has left it, unless a signal cut one of its waits short.
THEOREM StackSafe == Spec => []StackOutlivesUse
<1>1. QuietInv => StackOutlivesUse
  BY DEF QuietInv
<1> QED
  BY <1>1, QuietInductive, QuietInitial, PTL DEF Spec

-----------------------------------------------------------------------------
(* Remote calls. *)


Lowering == {"lower authid", "lower caps"}

\* What sys_ptrace() knows at each of its steps, if no credentials failed to be
\* set: what it has saved is the caller's own, and what it has lowered so far.
CredInv ==
    ~slipped =>
        /\ sub \in {"out", "save", "raise authid"} => cred = Own
        /\ sub \notin {"out", "save"} => authid = "own" /\ caps = "own"
        /\ sub = "lower caps" => cred.authid = "own"

CredTypes ==
    /\ cred \in [authid : Ids, caps : Caps] /\ authid \in Ids /\ caps \in Caps
    /\ sub \in {"out", "save", "raise authid", "raise caps", "request"} \cup Lowering

PtraceInv == CredTypes /\ CredInv

LEMMA PtraceInitial == CallInit => PtraceInv
BY DEF CallInit, PtraceInv, CredTypes, CredInv, Own, Ids, Caps

LEMMA PtraceInductive == PtraceInv /\ [CallNext]_callVars => PtraceInv'
<1> SUFFICES ASSUME PtraceInv, [CallNext]_callVars PROVE PtraceInv'
  OBVIOUS
<1> USE DEF PtraceInv, CredTypes, CredInv, Own, Ids, Caps, Lowering, caller, process
<1>1. Own.authid = "own" /\ Own.caps = "own"
  OBVIOUS
<1>2. CASE Save
  BY <1>1, <1>2 DEF Save
<1>3. CASE SaveFails
  BY <1>3 DEF SaveFails, Leave
<1>4. CASE RaiseAuthid
  BY <1>4 DEF RaiseAuthid
<1>5. CASE RaiseCaps
  BY <1>5 DEF RaiseCaps
<1>6. CASE LowerAuthid \/ LowerCaps \/ CredFails
  BY <1>6 DEF LowerAuthid, LowerCaps, CredFails, Leave
<1>7. CASE Enter \/ RequestFails \/ GetRegs \/ SetRegs \/ SingleStep \/ Peek \/ RestoreRegs
  BY <1>7 DEF Enter, RequestFails, GetRegs, SetRegs, SingleStep, Peek, RestoreRegs, Done
<1>8. CASE UNCHANGED ptrace
  BY <1>8 DEF ptrace
<1>9. CASE Resolve \/ ResolveFails \/ Advance \/ GiveUp \/ Wait \/ WaitInterrupted \/ Call
  BY <1>8, <1>9 DEF Resolve, ResolveFails, Advance, GiveUp, Wait, WaitInterrupted, Call
<1>10. CASE ProcessStep \/ Dies
  BY <1>8, <1>10 DEF ProcessStep, Push, Pop, Returns, Faults, Executes, Dies
<1>11. CASE UNCHANGED callVars
  BY <1>8, <1>11 DEF callVars
<1> QED
  BY <1>2, <1>3, <1>4, <1>5, <1>6, <1>7, <1>9, <1>10, <1>11 DEF CallNext, CallerStep

\* sys_ptrace() returns with the credentials its caller had, whatever the
\* request and its outcome, unless setting credentials has failed.
THEOREM CredentialsReturn == CallSpec => []CredentialsLowered
<1>1. PtraceInv => CredentialsLowered
  BY DEF PtraceInv, CredInv, CredentialsLowered
<1> QED
  BY <1>1, PtraceInitial, PtraceInductive, PTL DEF CallSpec

-----------------------------------------------------------------------------
\* The request the caller is at has been made and has succeeded.
Made == ret = "ok" \/ (sub \in Lowering /\ ret = "none")

\* It has not been made yet.
Unmade == ret = "none" /\ sub \notin Lowering

\* Between the request and its answer nothing else is answered.
AnswerInv ==
    /\ sub \in {"save", "raise authid", "raise caps", "request"} => ret = "none"
    /\ sub \in Lowering => ret \in {"none", "failed"}
    /\ sub = "out" => ret # "failed"
    /\ at \notin Requests => sub = "out" /\ ret = "none"

Entered == {"function", "fault"}
InFunction == regs.ip \in Entered /\ runs = 0 /\ regs.sp <= bak.sp
HasReturned == /\ regs.ip = "after" /\ runs = 1 /\ regs.ax = "result"
               /\ regs.sp > bak.sp
Halted == {"waited", "dead", "gone"}

\* What the caller knows at each label of the process, as long as that is alive.
FrameInv ==
    /\ bak.sp < MaxSp
    /\ at \in {"resolve", "getregs"} /\ st = "waited"
         => runs = 0 /\ regs = orig /\ regs.sp < MaxSp
    /\ at = "getregs" /\ Made => bak = orig /\ st \in Halted
    /\ at \in {"setregs", "step", "wait", "peek", "restore"} => bak = orig
    /\ at = "setregs" => st \in Halted
    /\ at = "setregs" /\ Unmade /\ st = "waited" => runs = 0
    /\ at = "setregs" /\ Made => jmp.sp = bak.sp /\ (st = "waited" => InFunction)
    /\ at = "step" /\ Unmade => st \in Halted /\ (st = "waited" => InFunction)
    /\ (at = "step" /\ Made) \/ at = "wait"
         => /\ st # "waited" /\ (st = "stepping" => InFunction)
            /\ st = "stopped" => InFunction \/ HasReturned
    /\ at = "peek" => st \in Halted /\ (st = "waited" => InFunction \/ HasReturned)
    /\ at = "peek" /\ Made =>
         /\ st = "waited" => jmp = regs
         /\ jmp.sp > bak.sp => runs = 1 /\ jmp.ax = "result"
    /\ at = "restore" => st \in Halted /\ runs = 1 /\ jmp.ax = "result"
    /\ at = "restore" /\ Made => regs = orig

ResultInv ==
    at = "idle" /\ out \notin {"none", "error"}
    => out = "result" /\ runs = 1 /\ regs = orig /\ st \in Halted

CallInv == CallTypeOK /\ AnswerInv /\ FrameInv /\ ResultInv

LEMMA CallInitial == CallInit => CallInv
<1> SUFFICES ASSUME CallInit PROVE CallInv
  OBVIOUS
<1>1. Reset \in Regs /\ Reset.sp = 0
  BY CallAssumption DEF Reset, Regs
<1>2. regs \in Regs
  BY DEF CallInit, Regs
<1>3. Own \in [authid : Ids, caps : Caps]
  BY DEF Own, Ids, Caps
<1>4. authid \in Ids /\ caps \in Caps /\ left \in 0..MaxPush /\ runs \in Nat
  BY CallAssumption DEF CallInit, Ids, Caps
<1>5. CallTypeOK
  BY <1>1, <1>2, <1>3, <1>4 DEF CallInit, CallTypeOK
<1> QED
  BY <1>1, <1>5, CallAssumption
     DEF CallInit, CallInv, AnswerInv, FrameInv, ResultInv, Made, Unmade, Lowering, Requests

\* The registers, as the arithmetic below needs them.
LEMMA RegsType ==
    ASSUME NEW r \in Regs
    PROVE  /\ r.sp \in Nat /\ r.sp <= MaxSp
           /\ r.ip \in {"program", "function", "fault", "after"}
           /\ r.ax \in {"program", "number", "result"}
BY CallAssumption DEF Regs

LEMMA MovedRegs ==
    ASSUME NEW r \in Regs, NEW m \in 0..MaxSp
    PROVE  /\ [r EXCEPT !.sp = m] \in Regs
           /\ [r EXCEPT !.sp = m].sp = m
           /\ [r EXCEPT !.sp = m].ip = r.ip
BY DEF Regs

LEMMA ReturnedRegs ==
    ASSUME NEW m \in 0..MaxSp
    PROVE  [sp |-> m, ip |-> "after", ax |-> "result"] \in Regs
BY DEF Regs

\* Steps within sys_ptrace() before and after the system call.
LEMMA PtraceSteps ==
    ASSUME CallInv,
           Enter \/ Save \/ SaveFails \/ RaiseAuthid \/ RaiseCaps \/ LowerAuthid
           \/ LowerCaps \/ CredFails \/ RequestFails
    PROVE  CallInv'
<1> USE DEF caller, process
<1>1. cred' \in [authid : Ids, caps : Caps] /\ authid' \in Ids /\ caps' \in Caps
  BY DEF CallInv, CallTypeOK, Ids, Caps, Enter, Save, SaveFails, RaiseAuthid, RaiseCaps,
         LowerAuthid, LowerCaps, CredFails, RequestFails, Leave, Done
<1>2. CallTypeOK'
  <2>1. slipped' \in BOOLEAN /\ ret' \in {"none", "ok", "failed", "error"}
    BY DEF CallInv, CallTypeOK, Enter, Save, SaveFails, RaiseAuthid, RaiseCaps, LowerAuthid,
           LowerCaps, CredFails, RequestFails, Leave, Done
  <2>2. /\ sub' \in {"out", "save", "raise authid", "raise caps", "request",
                    "lower authid", "lower caps"}
        /\ sub' # "out" => at' \in Requests
    BY DEF CallInv, CallTypeOK, Enter, Save, SaveFails, RaiseAuthid, RaiseCaps, LowerAuthid,
           LowerCaps, CredFails, RequestFails, Leave, Done
  <2>3. UNCHANGED <<at, out, bak, jmp, process, orig>>
    BY DEF Enter, Save, SaveFails, RaiseAuthid, RaiseCaps, LowerAuthid, LowerCaps,
           CredFails, RequestFails, Leave
  <2> QED
    BY <1>1, <2>1, <2>2, <2>3 DEF CallInv, CallTypeOK
<1>3. UNCHANGED <<at, out, bak, jmp, process, orig>>
  BY DEF Enter, Save, SaveFails, RaiseAuthid, RaiseCaps, LowerAuthid, LowerCaps,
         CredFails, RequestFails, Leave
<1>4. AnswerInv'
  BY DEF CallInv, CallTypeOK, AnswerInv, Lowering, Enter, Save, SaveFails, RaiseAuthid,
         RaiseCaps, LowerAuthid, LowerCaps, CredFails, RequestFails, Leave, Done
<1>5. (Made' => Made) /\ (Unmade' => Unmade)
  BY DEF CallInv, AnswerInv, Made, Unmade, Lowering, Enter, Save, SaveFails, RaiseAuthid,
         RaiseCaps, LowerAuthid, LowerCaps, CredFails, RequestFails, Leave, Done
<1>6. FrameInv' /\ ResultInv'
  BY <1>3, <1>5 DEF CallInv, FrameInv, ResultInv, InFunction, HasReturned
<1> QED
  BY <1>2, <1>4, <1>6 DEF CallInv

\* The system call does its work.
LEMMA RequestSteps ==
    ASSUME CallInv, GetRegs \/ SetRegs \/ SingleStep \/ Peek \/ RestoreRegs
    PROVE  CallInv'
<1> USE DEF caller, process, Done
<1>1. regs \in Regs /\ bak \in Regs /\ jmp \in Regs
  BY DEF CallInv, CallTypeOK
<1>2. Unmade /\ at \in Requests /\ sub = "request" /\ ret = "none"
  BY DEF CallInv, AnswerInv, Unmade, Lowering, Requests, GetRegs, SetRegs, SingleStep, Peek, RestoreRegs
<1>3. Made' /\ ~Unmade' /\ AnswerInv'
  BY <1>2 DEF Made, Unmade, AnswerInv, Lowering, GetRegs, SetRegs, SingleStep, Peek, RestoreRegs
<1>4. SetRegs => /\ regs' \in Regs /\ regs'.sp = bak.sp /\ regs'.ip \in Entered
                 /\ left' \in 0..MaxPush
  <2> SUFFICES ASSUME SetRegs PROVE regs' \in Regs /\ regs'.sp = bak.sp /\ regs'.ip \in Entered
                                    /\ left' \in 0..MaxPush
    OBVIOUS
  <2>1. PICK x \in {bak.ax, "number"}, i \in Entered :
           regs' = [bak EXCEPT !.ip = i, !.ax = x]
    <3>1. regs' \in Targets
      BY DEF SetRegs
    <3>2. /\ [bak EXCEPT !.ip = "function"] = [bak EXCEPT !.ip = "function", !.ax = bak.ax]
          /\ [bak EXCEPT !.ip = "fault"] = [bak EXCEPT !.ip = "fault", !.ax = bak.ax]
      BY <1>1 DEF Regs
    <3> QED
      BY <3>1, <3>2 DEF Targets, Entered
  <2>2. x \in {"program", "number", "result"} /\ i \in {"function", "fault"}
    BY <1>1, RegsType DEF Entered
  <2>3. left' \in 0..MaxPush
    <3>1. left' = MaxPush
      BY Zenon DEF SetRegs
    <3> QED
      BY <3>1, CallAssumption
  <2> QED
    BY <1>1, <2>1, <2>2, <2>3 DEF Regs, Entered
<1>5. CallTypeOK'
  <2>1. regs' \in Regs /\ bak' \in Regs /\ jmp' \in Regs /\ left' \in 0..MaxPush
    BY <1>1, <1>4 DEF GetRegs, SetRegs, SingleStep, Peek, RestoreRegs, CallInv, CallTypeOK
  <2>2. st' \in {"waited", "stepping", "stopped", "dead", "gone"} /\ sub' = "lower authid"
        /\ UNCHANGED <<at, ret, out, cred, authid, caps, slipped, runs, orig>>
    BY DEF GetRegs, SetRegs, SingleStep, Peek, RestoreRegs, CallInv, CallTypeOK
  <2> QED
    BY <1>2, <2>1, <2>2 DEF CallInv, CallTypeOK
<1>6. ResultInv'
  BY <1>2 DEF ResultInv, Requests, GetRegs, SetRegs, SingleStep, Peek, RestoreRegs
<1>7. CASE GetRegs
  BY <1>2, <1>3, <1>5, <1>6, <1>7
     DEF GetRegs, CallInv, FrameInv, Halted, InFunction, HasReturned
<1>8. CASE SetRegs
  <2>1. regs'.sp = bak.sp /\ regs'.ip \in Entered /\ bak.sp \in Nat
    BY <1>1, <1>4, <1>8, RegsType
  <2>2. at = "setregs" /\ st = "waited" /\ jmp' = regs' /\ UNCHANGED <<at, bak, st, runs, orig>>
    BY <1>8 DEF SetRegs
  <2>3. InFunction' /\ jmp'.sp = bak'.sp
    BY <1>2, <2>1, <2>2 DEF CallInv, FrameInv, InFunction
  <2> QED
    BY <1>3, <1>5, <1>6, <2>2, <2>3 DEF CallInv, FrameInv, Halted
<1>9. CASE SingleStep
  BY <1>2, <1>3, <1>5, <1>6, <1>9
     DEF SingleStep, CallInv, FrameInv, Halted, InFunction, HasReturned
<1>10. CASE Peek
  <2>1. InFunction => ~(regs.sp > bak.sp)
    BY <1>1, RegsType DEF InFunction
  <2> QED
    BY <1>2, <1>3, <1>5, <1>6, <1>10, <2>1
       DEF Peek, CallInv, FrameInv, Halted, InFunction, HasReturned
<1>11. CASE RestoreRegs
  BY <1>2, <1>3, <1>5, <1>6, <1>11
     DEF RestoreRegs, CallInv, FrameInv, Halted, InFunction, HasReturned
<1> QED
  BY <1>7, <1>8, <1>9, <1>10, <1>11

\* The steps of pt_call() and pt_syscall() between two requests.
LEMMA CallerSteps ==
    ASSUME CallInv, Call \/ Resolve \/ ResolveFails \/ Advance \/ GiveUp \/ Wait \/ WaitInterrupted
    PROVE  CallInv'
<1> USE DEF ptrace, process
<1>1. bak \in Regs /\ jmp \in Regs /\ bak.sp \in Nat /\ jmp.sp \in Nat
      /\ jmp.ax \in {"program", "number", "result"}
  BY RegsType DEF CallInv, CallTypeOK
<1>2. CallTypeOK'
  <2>1. at' \in {"idle", "resolve", "wait"} \cup Requests /\ (sub' # "out" => at' \in Requests)
    BY DEF CallInv, CallTypeOK, AnswerInv, Requests, Call, Resolve, ResolveFails, Advance, GiveUp,
           Wait, WaitInterrupted, CallEnds
  <2>2. out' \in {"none", "error", "program", "number", "result"}
    BY <1>1 DEF CallInv, CallTypeOK, Call, Resolve, ResolveFails, Advance, GiveUp, Wait,
           WaitInterrupted, CallEnds
  <2>3. runs' \in Nat /\ orig' \in Regs
    <3>1. runs' \in {0, runs} /\ orig' \in {regs, orig}
      BY DEF Call, Resolve, ResolveFails, Advance, GiveUp, Wait, WaitInterrupted
    <3>2. runs \in Nat /\ orig \in Regs /\ regs \in Regs
      BY DEF CallInv, CallTypeOK
    <3> QED
      BY <3>1, <3>2
  <2>5. /\ ret' \in {"none", "ok", "failed", "error"}
        /\ st' \in {"waited", "stepping", "stopped", "dead", "gone"}
    BY DEF CallInv, CallTypeOK, Call, Resolve, ResolveFails, Advance, GiveUp, Wait, WaitInterrupted
  <2>4. UNCHANGED <<ptrace, bak, jmp, regs, left>>
    BY DEF Call, Resolve, ResolveFails, Advance, GiveUp, Wait, WaitInterrupted
  <2> QED
    BY <2>1, <2>2, <2>3, <2>4, <2>5 DEF CallInv, CallTypeOK
<1>3. AnswerInv'
  BY DEF CallInv, CallTypeOK, AnswerInv, Requests, Call, Resolve, ResolveFails, Advance, GiveUp,
         Wait, WaitInterrupted, CallEnds, Lowering
<1>4. CASE Call
  BY <1>2, <1>3, <1>4
     DEF Call, CallInv, AnswerInv, FrameInv, ResultInv, Requests
<1>5. CASE Resolve \/ ResolveFails
  BY <1>2, <1>3, <1>5
     DEF Resolve, ResolveFails, CallEnds, CallInv, AnswerInv, FrameInv, ResultInv, Made, Unmade,
         Lowering, Requests
<1>6. CASE Advance
  <2>1. Made /\ ~Made' /\ Unmade'
    BY <1>6 DEF Advance, Made, Unmade, Lowering
  <2>2. CASE at = "getregs"
    BY <1>2, <1>3, <1>6, <2>1, <2>2
       DEF Advance, CallInv, FrameInv, ResultInv, Halted, InFunction, HasReturned
  <2>3. CASE at = "setregs"
    BY <1>1, <1>2, <1>3, <1>6, <2>1, <2>3
       DEF Advance, Running, CallInv, FrameInv, ResultInv, Halted, InFunction, HasReturned
  <2>4. CASE at = "step"
    BY <1>2, <1>3, <1>6, <2>1, <2>4
       DEF Advance, CallInv, FrameInv, ResultInv, Halted, InFunction, HasReturned
  <2>5. CASE at = "peek"
    BY <1>1, <1>2, <1>3, <1>6, <2>1, <2>5
       DEF Advance, Running, CallInv, FrameInv, ResultInv, Halted, InFunction, HasReturned
  <2>6. CASE at = "restore"
    BY <1>2, <1>3, <1>6, <2>1, <2>6
       DEF Advance, CallEnds, CallInv, FrameInv, ResultInv, Halted
  <2> QED
    BY <1>6, <2>2, <2>3, <2>4, <2>5, <2>6 DEF Advance
<1>7. CASE GiveUp \/ WaitInterrupted
  BY <1>2, <1>3, <1>7 DEF GiveUp, WaitInterrupted, CallEnds, CallInv, FrameInv, ResultInv
<1>8. CASE Wait
  BY <1>2, <1>3, <1>8
     DEF Wait, CallInv, AnswerInv, FrameInv, ResultInv, Made, Unmade, Lowering, Requests,
         Halted, InFunction, HasReturned
<1> QED
  BY <1>4, <1>5, <1>6, <1>7, <1>8

\* The process executes an instruction, or dies.
LEMMA ProcessSteps ==
    ASSUME CallInv, ProcessStep \/ Dies
    PROVE  CallInv'
<1> USE DEF caller, ptrace
<1>1. UNCHANGED <<caller, ptrace, orig>>
  BY DEF ProcessStep, Push, Pop, Returns, Faults, Dies, Executes
<1>2. AnswerInv' /\ (Made' <=> Made) /\ (Unmade' <=> Unmade)
  BY <1>1 DEF CallInv, AnswerInv, Made, Unmade
<1>3. /\ regs \in Regs /\ regs.sp \in Nat /\ regs.sp <= MaxSp
      /\ bak.sp \in Nat /\ bak.sp < MaxSp /\ MaxSp \in Nat /\ runs \in Nat
      /\ left \in 0..MaxPush /\ MaxPush \in Nat
  BY RegsType, CallAssumption DEF CallInv, CallTypeOK, FrameInv
<1>4. CASE Dies
  <2>1. CallTypeOK'
    BY <1>1, <1>4 DEF Dies, CallInv, CallTypeOK
  <2> QED
    BY <1>1, <1>2, <1>4, <2>1
       DEF Dies, CallInv, FrameInv, ResultInv, Halted, InFunction, HasReturned
<1>5. CASE ProcessStep
  <2>1. st = "stepping" /\ st' = "stopped"
    BY <1>5 DEF ProcessStep, Push, Pop, Returns, Faults, Executes
  <2>2. /\ regs' \in Regs /\ left' \in 0..MaxPush /\ runs' \in Nat
        /\ InFunction => (InFunction \/ HasReturned)'
    <3>1. CASE Push
      BY <1>1, <1>3, <3>1, MovedRegs DEF Push, Executes, InFunction
    <3>2. CASE Pop
      BY <1>1, <1>3, <3>2, MovedRegs DEF Pop, Executes, InFunction
    <3>3. CASE Returns
      BY <1>1, <1>3, <3>3, ReturnedRegs DEF Returns, Executes, InFunction, HasReturned
    <3>4. CASE Faults
      <4>1. /\ [regs EXCEPT !.ip = "fault"] \in Regs
            /\ [regs EXCEPT !.ip = "fault"].sp = regs.sp
            /\ [regs EXCEPT !.ip = "fault"].ip = "fault"
        BY <1>3 DEF Regs
      <4> QED
        BY <1>1, <1>3, <3>4, <4>1 DEF Faults, Executes, InFunction, Entered
    <3> QED
      BY <1>5, <3>1, <3>2, <3>3, <3>4 DEF ProcessStep
  <2>3. CallTypeOK'
    BY <1>1, <2>1, <2>2 DEF CallInv, CallTypeOK
  <2>4. FrameInv'
    BY <1>1, <1>2, <2>1, <2>2 DEF CallInv, FrameInv, Halted
  <2>5. ResultInv'
    BY <1>1, <2>1 DEF CallInv, ResultInv, Halted
  <2> QED
    BY <1>2, <2>3, <2>4, <2>5 DEF CallInv
<1> QED
  BY <1>4, <1>5

LEMMA CallInductive == CallInv /\ [CallNext]_callVars => CallInv'
<1> SUFFICES ASSUME CallInv, [CallNext]_callVars PROVE CallInv'
  OBVIOUS
<1>1. CASE UNCHANGED callVars
  <2> USE <1>1 DEF callVars, caller, ptrace, process
  <2>1. CallTypeOK'
    BY DEF CallInv, CallTypeOK
  <2>2. AnswerInv' /\ ResultInv'
    BY DEF CallInv, AnswerInv, ResultInv
  <2>3. FrameInv'
    BY DEF CallInv, FrameInv, Made, Unmade, InFunction, HasReturned
  <2> QED
    BY <2>1, <2>2, <2>3 DEF CallInv
<1> QED
  BY <1>1, PtraceSteps, RequestSteps, CallerSteps, ProcessSteps DEF CallNext, CallerStep

\* The registers, credentials and labels of a remote call keep their types; the
\* stack pointer of a function that returns stays in range.
THEOREM CallTypes == CallSpec => []CallTypeOK
<1>1. CallInv => CallTypeOK
  BY DEF CallInv
<1> QED
  BY <1>1, CallInitial, CallInductive, PTL DEF CallSpec

\* A remote call reports success only if its function ran once, to its end,
\* and the process has the registers back that it had before: whichever
\* requests fail and whenever the process dies or a step is interrupted.
THEOREM CleanCall == CallSpec => []CallIsClean
<1>1. CallInv => CallIsClean
  BY DEF CallInv, ResultInv, CallIsClean
<1> QED
  BY <1>1, CallInitial, CallInductive, PTL DEF CallSpec
=============================================================================
