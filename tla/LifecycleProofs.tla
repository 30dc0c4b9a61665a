-------------------------- MODULE LifecycleProofs --------------------------
(***************************************************************************)
(* Theorems about Lifecycle, for any number of processes and ports.        *)
(***************************************************************************)
EXTENDS Lifecycle, TLAPS

-----------------------------------------------------------------------------
(* Type correctness, the listening socket and the signal handlers. None is  *)
(* inductive by itself: a retry adds one to the attempts, so they must be   *)
(* below the limit wherever a retry is possible; what was forked or goes on *)
(* keeps its socket, so none may be open before bind() and none left open   *)
(* after close(); and handlers are not removed, so they are in place        *)
(* wherever a server can be from sigaction() on.                            *)

Exhausted == {"unbound", "left"}
Holding   == (Serving \ {"exiting"}) \cup {"trunc2", "write2", "child"}
Armed     == Serving \cup {"bind", "trunc2", "write2"}

GoodEntry(e) ==
    /\ e \in Proc
    /\ e.tries = BindAttempts => e.pc \in Exhausted
    /\ e.lfd => e.pc \in Holding
    /\ e.pc \in Armed => e.handling

\* An entry may go from label l to label m and change nothing else.
Follows(l, m) ==
    /\ l \in Exhausted => m \in Exhausted
    /\ l \in Holding => m \in Holding
    /\ m \in Armed => l \in Armed

Good(t) ==
    /\ t \in [Pids -> Proc]
    /\ \A q \in Pids : GoodEntry(t[q])

TypeInv ==
    /\ pidfile \in Pids \cup {NoFile, Empty}
    /\ Good(proc)

USE DEF Labels, Launching, Controlling, Serving

LEMMA BlankGood ==
    \A l \in {"free", "zombie", "busy"} : GoodEntry(Blank(l)) /\ Blank(l).pc = l
BY ConstantsAssumption DEF Blank, Proc, Args, GoodEntry, Armed

LEMMA LabelGood ==
    ASSUME NEW e, GoodEntry(e), NEW l \in Labels, Follows(e.pc, l)
    PROVE  GoodEntry([e EXCEPT !.pc = l])
BY DEF GoodEntry, Proc, Follows

LEMMA PutGood ==
    ASSUME NEW t, Good(t), NEW p \in Pids, NEW e, GoodEntry(e)
    PROVE  Good([t EXCEPT ![p] = e])
BY DEF Good, GoodEntry

LEMMA GotoGood ==
    ASSUME Good(proc), NEW p \in Pids, NEW l \in Labels,
           Follows(Pc(p), l)
    PROVE  Good(Goto(p, l))
<1>1. GoodEntry([proc[p] EXCEPT !.pc = l])
  BY LabelGood DEF Good, Pc
<1> QED
  BY <1>1, PutGood DEF Goto

LEMMA GotoType ==
    ASSUME Good(proc), NEW p \in Pids, NEW l \in Labels
    PROVE  Goto(p, l) \in [Pids -> Proc]
BY DEF Good, Goto, Proc

LEMMA ExitGood ==
    ASSUME Good(proc), NEW p \in Pids, NEW l, Exit(p, l)
    PROVE  Good(proc')
BY BlankGood, PutGood DEF Exit

LEMMA CaughtGood ==
    ASSUME NEW e, GoodEntry(e)
    PROVE  GoodEntry(Caught(e))
<1>1. GoodEntry(Blank("zombie"))
  BY BlankGood
<1>2. GoodEntry([e EXCEPT !.stopping = TRUE,
                          !.pc = IF @ = "accept" THEN "closing" ELSE @])
  BY DEF GoodEntry, Proc, Exhausted, Holding, Armed
<1> QED
  BY <1>1, <1>2 DEF Caught

LEMMA SignalGood ==
    ASSUME NEW S, NEW t, Good(t), Signal(S, t)
    PROVE  Good(proc')
<1>1. GoodEntry(Blank("zombie"))
  BY BlankGood
<1>2. \A q \in Pids : GoodEntry(t[q]) /\ GoodEntry(Caught(t[q]))
  BY CaughtGood DEF Good
<1>3. \A q \in Pids : GoodEntry(proc'[q])
  BY <1>1, <1>2 DEF Signal
<1>4. proc' = [q \in Pids |-> proc'[q]]
  BY DEF Signal
<1> QED
  BY <1>3, <1>4 DEF Good, GoodEntry

LEMMA ReturnedGood ==
    ASSUME Good(proc), NEW s \in Pids
    PROVE  Good(Returned(s))
<1> DEFINE b == Blank("busy")
           e == [b EXCEPT !.handling = proc[s].handling,
                          !.stopping = proc[s].stopping,
                          !.named = proc[s].named]
<1>1. GoodEntry(b) /\ b.pc = "busy"
  BY BlankGood
<1>2. proc[s] \in Proc
  BY DEF Good
<1>3. GoodEntry(e)
  <2> HIDE DEF b
  <2>1. e \in Proc
    BY <1>1, <1>2 DEF GoodEntry, Proc
  <2>2. e.pc = b.pc /\ e.tries = b.tries /\ e.lfd = b.lfd
    BY <1>1 DEF GoodEntry, Proc
  <2> HIDE DEF e
  <2> QED BY <1>1, <2>1, <2>2 DEF GoodEntry, Armed
<1> QED
  BY <1>3, PutGood DEF Returned

LEMMA ForkGood ==
    ASSUME Good(proc), NEW p \in Pids, NEW c \in Pids, NEW l \in Labels,
           NEW m \in Labels, Follows(Pc(p), l), Follows(Pc(p), m),
           Fork(p, c, l, m)
    PROVE  Good(proc')
<1>1. Good(Goto(p, l))
  BY GotoGood
<1>2. GoodEntry([proc[p] EXCEPT !.pc = m])
  BY LabelGood DEF Good, Pc
<1>3. Good([Goto(p, l) EXCEPT ![c] = [proc[p] EXCEPT !.pc = m]])
  BY <1>1, <1>2, PutGood
<1> QED
  BY <1>3 DEF Fork, Goto

LEMMA MoveGood ==
    ASSUME TypeInv, NEW p \in Pids, NEW l, NEW m \in Labels,
           Follows(l, m), Move(p, l, m)
    PROVE  TypeInv'
BY GotoGood DEF TypeInv, Move, Pc

LEMMA RemoveGood ==
    ASSUME TypeInv, NEW p \in Pids, NEW l, NEW m \in Labels,
           Follows(l, m), RemovePidfile(p, l, m)
    PROVE  TypeInv'
BY GotoGood DEF TypeInv, RemovePidfile, Pc

\* The launch steps keep the table good, ...
LEMMA LaunchType ==
    ASSUME TypeInv, NEW p \in Pids, LaunchStep(p)
    PROVE  TypeInv'
<1> USE DEF Follows, Exhausted, Holding, Armed
<1>e. GoodEntry(proc[p])
  BY DEF TypeInv, Good
<1>1. CASE Main(p)
  <2>1. GoodEntry([proc[p] EXCEPT !.pc = "single",
                                  !.force = proc[p].args.F \/ pidfile # NoFile])
    BY <1>1, <1>e DEF Main, Pc, GoodEntry, Proc, Args
  <2> QED BY <1>1, <2>1, PutGood DEF Main, TypeInv
<1>2. CASE SingleRead(p)
  <2>1. GoodEntry([proc[p] EXCEPT !.pc = "probe", !.old = pidfile])
    BY <1>2, <1>e DEF SingleRead, ReadPid, Pc, GoodEntry, Proc
  <2> QED BY <1>2, <2>1, PutGood DEF SingleRead, ReadPid, TypeInv
<1>3. CASE SingleNone(p)
  <2>1. Good(Goto(p, "go"))
    BY <1>3, GotoGood DEF SingleNone, TypeInv
  <2> QED BY <1>3, <2>1, SignalGood DEF SingleNone, TypeInv
<1>4. CASE ProbeGone(p) \/ OldGone(p)
  BY <1>4, MoveGood DEF ProbeGone, OldGone
<1>5. CASE ProbeRefused(p) \/ OldStillAlive(p) \/ DaemonizeFails(p)
  BY <1>5, ExitGood
     DEF ProbeRefused, OldStillAlive, DaemonizeFails, Exit, TypeInv
<1>6. CASE ProbeReplace(p)
  <2>1. Good(Goto(p, "reap"))
    BY <1>6, GotoGood DEF ProbeReplace, TypeInv
  <2> QED BY <1>6, <2>1, SignalGood DEF ProbeReplace, TypeInv
<1>7. CASE ClearPidfile(p)
  BY <1>7, RemoveGood DEF ClearPidfile
<1>8. CASE TakeName(p)
  <2> DEFINE l == IF proc[p].args.daemon THEN "fork" ELSE "sigact"
             e == [proc[p] EXCEPT !.pc = l, !.named = TRUE, !.old = NoPid]
  <2>1. GoodEntry(e)
    BY <1>8, <1>e DEF TakeName, Pc, GoodEntry, Proc
  <2>2. proc' = [proc EXCEPT ![p] = e]
    BY <1>8 DEF TakeName, Goto, TypeInv, Good
  <2>3. Good(proc')
    <3> HIDE DEF e
    <3> QED BY <2>1, <2>2, PutGood DEF TypeInv
  <2> QED BY <1>8, <2>3 DEF TakeName, TypeInv
<1>9. CASE \E c \in Pids : Daemonize(p, c)
  BY <1>9, ForkGood DEF Daemonize, TypeInv, Fork
<1>10. CASE TruncatePidfile(p)
  BY <1>10, GotoGood DEF TruncatePidfile, TypeInv
<1>11. CASE FillPidfile(p)
  <2>1. AfterWrite[Pc(p)] \in {"sigact", "loop"}
    BY <1>11 DEF FillPidfile, AfterWrite
  <2> QED BY <1>11, <2>1, GotoGood DEF FillPidfile, AfterWrite, TypeInv
<1>12. CASE WritePidfileFails(p)
  <2>1. AfterWrite[Pc(p)] \in {"sigact", "loop"}
    BY <1>12 DEF WritePidfileFails, AfterWrite
  <2> QED BY <1>12, <2>1, MoveGood DEF WritePidfileFails, AfterWrite
<1>13. CASE InstallHandlers(p)
  <2>1. GoodEntry([proc[p] EXCEPT !.pc = "bind", !.handling = TRUE])
    BY <1>13, <1>e DEF InstallHandlers, Pc, GoodEntry, Proc
  <2> QED BY <1>13, <2>1, PutGood DEF InstallHandlers, TypeInv
<1>14. CASE Bind(p)
  <2> DEFINE a == [proc[p].args EXCEPT !.F = FALSE]
             e == [proc[p] EXCEPT !.pc = "trunc2", !.lfd = TRUE, !.args = a,
                                  !.force = FALSE, !.tries = 0]
  <2>1. a \in Args
    BY <1>e DEF GoodEntry, Proc, Args
  <2>0. 0 \in 0..BindAttempts /\ 0 # BindAttempts
    BY ConstantsAssumption
  <2>2. proc' = [proc EXCEPT ![p] = e]
    BY <1>14 DEF Bind, TypeInv, Good
  <2>3. GoodEntry(e)
    <3> HIDE DEF a
    <3> QED BY <1>14, <2>0, <2>1, <1>e DEF Bind, Pc, GoodEntry, Proc
  <2>4. Good(proc')
    <3> HIDE DEF e
    <3> QED BY <2>2, <2>3, PutGood DEF TypeInv
  <2> QED BY <1>14, <2>4 DEF Bind, TypeInv
<1>15. CASE BindRetry(p)
  <2> DEFINE n == proc[p].tries + 1
             l == IF n < BindAttempts THEN "bind" ELSE "unbound"
             e == [proc[p] EXCEPT !.pc = l, !.tries = n]
  <2>1. proc[p].tries \in 0..BindAttempts /\ proc[p].tries # BindAttempts
    BY <1>15, <1>e DEF BindRetry, Retry, Pc, GoodEntry, Proc
  <2>2. n \in 0..BindAttempts /\ (n = BindAttempts => l = "unbound")
    BY <2>1, ConstantsAssumption
  <2>3. l \in {"bind", "unbound"}
    OBVIOUS
  <2>4. [Goto(p, l) EXCEPT ![p].tries = n] = [proc EXCEPT ![p] = e]
    BY DEF Goto, TypeInv, Good
  <2>5. GoodEntry(e)
    <3> HIDE DEF n, l
    <3> QED BY <1>15, <2>2, <2>3, <1>e DEF BindRetry, Retry, Pc, GoodEntry, Proc
  <2>6. Good([Goto(p, l) EXCEPT ![p].tries = n])
    <3> HIDE DEF n, l, e
    <3> QED BY <2>4, <2>5, PutGood DEF TypeInv
  <2> QED BY <1>15, <2>6, SignalGood DEF BindRetry, Retry, TypeInv
<1>16. CASE BindFails(p)
  BY <1>16, MoveGood DEF BindFails
<1>17. CASE Unbound(p)
  BY <1>17, MoveGood, RemoveGood DEF Unbound, Leave
<1> QED
  BY <1>1, <1>2, <1>3, <1>4, <1>5, <1>6, <1>7, <1>8, <1>9, <1>10, <1>11,
     <1>12, <1>13, <1>14, <1>15, <1>16, <1>17 DEF LaunchStep

\* ... so do those of the server and the session ...
LEMMA ServeType ==
    ASSUME TypeInv, NEW p \in Pids, ServeStep(p)
    PROVE  TypeInv'
<1> USE DEF Follows, Exhausted, Holding, Armed
<1>1. CASE CheckRunning(p) \/ EnterAccept(p) \/ ForkSessionFails(p)
  BY <1>1, MoveGood DEF CheckRunning, EnterAccept, ForkSessionFails
<1>2. CASE SessionBegins(p)
  BY <1>2, ReturnedGood DEF SessionBegins, TypeInv
<1>3. CASE \E c \in Pids : ForkSession(p, c)
  BY <1>3, ForkGood DEF ForkSession, TypeInv, Fork
<1>4. CASE CloseListener(p)
  <2> DEFINE e == [proc[p] EXCEPT !.pc = "exiting", !.lfd = FALSE]
  <2>0. GoodEntry(proc[p]) /\ proc[p].pc = "closing"
    BY <1>4 DEF CloseListener, Pc, TypeInv, Good
  <2>1. GoodEntry(e)
    <3>1. e \in Proc
      BY <2>0 DEF GoodEntry, Proc
    <3>2. /\ e.pc = "exiting" /\ e.lfd = FALSE
          /\ e.tries = proc[p].tries /\ e.handling = proc[p].handling
      BY <2>0 DEF GoodEntry, Proc
    <3> HIDE DEF e
    <3> QED BY <2>0, <3>1, <3>2 DEF GoodEntry
  <2> QED BY <1>4, <2>1, PutGood DEF CloseListener, TypeInv
<1>5. CASE Shutdown(p)
  BY <1>5, MoveGood, RemoveGood DEF Shutdown, Leave
<1>6. CASE ProcessEnds(p)
  BY <1>6, ExitGood DEF ProcessEnds, Exit, TypeInv
<1> QED
  BY <1>1, <1>2, <1>3, <1>4, <1>5, <1>6 DEF ServeStep

LEMMA ControlType ==
    ASSUME TypeInv, NEW s \in Pids, ControlStep(s)
    PROVE  TypeInv'
<1> USE DEF Follows, Exhausted, Holding, Armed
<1>e. GoodEntry(proc[s]) /\ Good(Returned(s))
  BY ReturnedGood DEF TypeInv, Good
<1>a. Pc(s) \in Controlling => Good(AfterStop(s))
  BY <1>e, GotoGood DEF AfterStop, TypeInv
<1>1. CASE StopRead(s)
  <2>1. GoodEntry([proc[s] EXCEPT !.pc = "stopkill", !.old = pidfile])
    BY <1>1, <1>e DEF StopRead, ReadPid, Pc, GoodEntry, Proc
  <2> QED BY <1>1, <2>1, PutGood DEF StopRead, ReadPid, TypeInv
<1>2. CASE StopNone(s) \/ StopUnlink(s)
  BY <1>2, <1>a DEF StopNone, StopUnlink, TypeInv
<1>3. CASE StopKill(s)
  <2>1. Good(Goto(s, "stopwait"))
    BY <1>3, GotoGood DEF StopKill, TypeInv
  <2> QED BY <1>3, <1>a, <2>1, SignalGood DEF StopKill, TypeInv
<1>4. CASE StopWait(s)
  <2>1. Good(Goto(s, "unlink"))
    BY <1>4, GotoGood DEF StopWait, TypeInv
  <2> QED BY <1>4, <1>a, <2>1 DEF StopWait, TypeInv
<1>5. CASE StartFails(s)
  BY <1>5, <1>e DEF StartFails, TypeInv
<1>6. CASE \E c \in Pids : StartFork(s, c)
  <2>1. PICK c \in Pids : StartFork(s, c)
    BY <1>6
  <2>2. GoodEntry([proc[s] EXCEPT !.pc = "single"])
    BY <2>1, <1>e, LabelGood DEF StartFork, Pc
  <2> QED BY <2>1, <2>2, <1>e, PutGood DEF StartFork, TypeInv
<1>7. CASE Prompt(s)
  BY <1>7, MoveGood DEF Prompt
<1> QED
  BY <1>1, <1>2, <1>3, <1>4, <1>5, <1>6, <1>7 DEF ControlStep

\* ... and the environment's.
LEMMA EnvType ==
    ASSUME TypeInv, NEW p \in Pids, EnvStep(p)
    PROVE  TypeInv'
<1> USE DEF Follows, Exhausted, Holding, Armed
<1>1. CASE Reap(p) \/ OtherStarts(p) \/ Accept(p) \/ AcceptFails(p) \/ RunCommand(p)
  BY <1>1, MoveGood DEF Reap, OtherStarts, Accept, AcceptFails, RunCommand
<1>2. CASE Dies(p)
  BY <1>2, ExitGood DEF Dies, Exit, TypeInv
<1>3. CASE \E a \in Args : Launch(p, a)
  <2>1. PICK a \in Args : Launch(p, a)
    BY <1>3
  <2> DEFINE e == [proc[p] EXCEPT !.pc = "main", !.args = a]
  <2>0. GoodEntry(proc[p]) /\ proc[p].pc = "free"
    BY <2>1 DEF Launch, Pc, TypeInv, Good
  <2>2. GoodEntry(e)
    <3>1. e \in Proc
      BY <2>0 DEF GoodEntry, Proc
    <3>2. /\ e.pc = "main" /\ e.lfd = proc[p].lfd
          /\ e.tries = proc[p].tries
      BY <2>0 DEF GoodEntry, Proc
    <3> HIDE DEF e
    <3> QED BY <2>0, <3>1, <3>2 DEF GoodEntry
  <2> QED BY <2>1, <2>2, PutGood DEF Launch, TypeInv
<1>4. CASE \E verb \in Verbs, a \in {b \in Args : b.daemon} : Serverctl(p, verb, a)
  <2>1. PICK verb \in Verbs, a \in Args : Serverctl(p, verb, a)
    BY <1>4
  <2> DEFINE l == IF verb = "start" THEN "start" ELSE "stop"
             r == (verb = "restart")
             e == [proc[p] EXCEPT !.pc = l, !.restart = r,
                                  !.args = a, !.force = a.F]
  <2>2. GoodEntry(e)
    <3>1. /\ GoodEntry(proc[p])
          /\ proc[p].tries # BindAttempts /\ ~proc[p].lfd
      BY <2>1 DEF Serverctl, Pc, TypeInv, Good, GoodEntry
    <3>2. l \in Labels \ Armed /\ r \in BOOLEAN /\ a.F \in BOOLEAN
      BY DEF Args
    <3> HIDE DEF l, r, Labels
    <3>3. e \in Proc
      BY <3>1, <3>2 DEF GoodEntry, Proc
    <3>4. e.tries = proc[p].tries /\ e.lfd = proc[p].lfd /\ e.pc = l
      BY <3>1 DEF GoodEntry, Proc
    <3> HIDE DEF e, Armed
    <3> QED BY <3>1, <3>2, <3>3, <3>4 DEF GoodEntry
  <2>3. proc' = [proc EXCEPT ![p] = e]
    BY <2>1 DEF Serverctl, Goto, TypeInv, Good
  <2> HIDE DEF e
  <2> QED BY <2>1, <2>2, <2>3, PutGood DEF Serverctl, TypeInv
<1>5. CASE \E q \in Pids : KillCommand(p, q)
  <2>1. Pc(p) = "session" => Good(Goto(p, "busy"))
    BY GotoGood DEF TypeInv
  <2> QED BY <1>5, <2>1, SignalGood DEF KillCommand, TypeInv
<1> QED
  BY <1>1, <1>2, <1>3, <1>4, <1>5 DEF EnvStep

LEMMA TypeInductive == TypeInv /\ [Next]_vars => TypeInv'
<1> SUFFICES ASSUME TypeInv, [Next]_vars PROVE TypeInv'
  OBVIOUS
<1>1. ASSUME NEW p \in Pids, ProcStep(p) \/ EnvStep(p) PROVE TypeInv'
  BY <1>1, LaunchType, ServeType, ControlType, EnvType DEF ProcStep
<1>2. CASE KillTool
  BY <1>2, SignalGood DEF KillTool, TypeInv
<1>3. CASE Reboot
  BY <1>3, BlankGood DEF Reboot, TypeInv, Good, GoodEntry
<1>4. CASE UNCHANGED vars
  BY <1>4 DEF vars, TypeInv, Good, GoodEntry
<1> QED
  BY <1>1, <1>2, <1>3, <1>4 DEF Next

\* Every variable keeps its type; in particular no launch ever counts more
\* than BindAttempts bind attempts (bind_with_retry's loop bound).
THEOREM TypeCorrect == Spec => []TypeOK
<1>1. Init => TypeInv
  BY BlankGood DEF Init, TypeInv, Good, GoodEntry
<1>2. TypeInv => TypeOK
  BY DEF TypeInv, TypeOK, Good
<1> QED
  BY <1>1, <1>2, TypeInductive, PTL DEF Spec

\* Whatever launches, signals, forks and crashes interleave, a listening socket
\* is open only in a server, from its bind() to its close(), and in the child
\* it has just forked: no session, and no server started from a session, has
\* inherited one.
THEOREM ListenerOnlyInServer == Spec => []ListenerHeldByServer
<1>1. Init => TypeInv
  BY BlankGood DEF Init, TypeInv, Good, GoodEntry
<1>2. TypeInv => ListenerHeldByServer
  BY DEF TypeInv, Good, GoodEntry, Holding, ListenerHeldByServer, Pc
<1> QED
  BY <1>1, <1>2, TypeInductive, PTL DEF Spec

-----------------------------------------------------------------------------
(* The server is named. By itself this is not inductive: a launch that is   *)
(* past its search for an old instance must know that no server is left,    *)
(* and one that still searches must be looking at the right process.        *)

Committed == {"clear", "go", "fork", "trunc1", "write1", "sigact", "bind",
              "unbound", "trunc2", "write2", "unlink"}
Finding   == {"probe", "reap", "stopkill", "stopwait"}

NoneServing == \A q \in Pids : Pc(q) \notin Serving

SlotInv ==
    /\ \A p, q \in Pids : InFlight(p) /\ InFlight(q) => p = q
    /\ ServerIsNamed
    /\ \A p \in Pids : Pc(p) \in Committed => NoneServing
    /\ \A p, q \in Pids : Pc(p) \in Finding /\ Pc(q) \in Serving
                          => proc[p].old = q

\* What a step must do: keep the invariant, and let a server begin only when
\* none serves.
SlotStep ==
    /\ SlotInv'
    /\ \A q \in Pids : Pc(q)' \in Serving => Pc(q) \in Serving \/ NoneServing

\* What a step does to a process that is not the one in flight after it.
Calm(q) ==
    \/ Pc(q)' = Pc(q) /\ proc'[q].old = proc[q].old
    \/ Pc(q)' \notin Launching \cup Controlling \cup Serving
    \/ Pc(q) \in Serving /\ Pc(q)' \in Serving

\* A step in which nobody comes into flight or moves on in it ...
LEMMA CalmStep ==
    ASSUME SlotInv, \A q \in Pids : Calm(q),
           pidfile' = pidfile \/ NoneServing'
    PROVE  SlotStep
BY DEF SlotStep, SlotInv, Calm, ServerIsNamed, InFlight, NoneServing,
       Committed, Finding

\* ... and one after which c, and only c, is in flight.
LEMMA FlightStep ==
    ASSUME SlotInv, NEW c \in Pids, InFlight(c)',
           \A q \in Pids \ {c} : Calm(q) /\ ~InFlight(q)',
           Pc(c)' \in Committed => NoneServing,
           Pc(c)' \in Finding =>
               \A q \in Pids : Pc(q) \in Serving => proc'[c].old = q,
           pidfile' = pidfile \/ NoneServing
    PROVE  SlotStep
<1>1. \A q \in Pids : Pc(q)' \in Serving => q # c /\ Pc(q) \in Serving
  BY DEF Calm, InFlight
<1>2. ServerIsNamed'
  BY <1>1 DEF SlotInv, ServerIsNamed, NoneServing
<1>3. \A p, q \in Pids : InFlight(p)' /\ InFlight(q)' => p = q
  OBVIOUS
<1>4. \A p \in Pids : Pc(p)' \in Committed \cup Finding => p = c
  BY DEF InFlight, Committed, Finding
<1>5. \A p \in Pids : Pc(p)' \in Committed => NoneServing'
  BY <1>1, <1>4 DEF NoneServing
<1>6. \A p, q \in Pids : Pc(p)' \in Finding /\ Pc(q)' \in Serving
                         => proc'[p].old = q
  BY <1>1, <1>4
<1> QED
  BY <1>1, <1>2, <1>3, <1>5, <1>6 DEF SlotStep, SlotInv

\* What the ways to build a process table do to labels and pids read.
LEMMA GotoPc ==
    ASSUME TypeInv, NEW p \in Pids, NEW l
    PROVE  \A q \in Pids : /\ Goto(p, l)[q].pc = (IF q = p THEN l ELSE Pc(q))
                           /\ Goto(p, l)[q].old = proc[q].old
BY DEF Goto, Pc, TypeInv, Good, Proc

LEMMA ReturnedPc ==
    ASSUME TypeInv, NEW s \in Pids
    PROVE  /\ Returned(s)[s].pc = "busy"
           /\ \A q \in Pids \ {s} : Returned(s)[q] = proc[q]
<1>1. Returned(s)[s] = [Blank("busy") EXCEPT !.handling = proc[s].handling,
                                             !.stopping = proc[s].stopping,
                                             !.named = proc[s].named]
  BY DEF Returned, TypeInv, Good
<1>2. Returned(s)[s].pc = "busy"
  BY <1>1 DEF Blank
<1> QED
  BY <1>2 DEF Returned, TypeInv, Good

LEMMA SignalPc ==
    ASSUME NEW S, NEW t \in [Pids -> Proc], Signal(S, t)
    PROVE  \A q \in Pids :
              \/ proc'[q].pc = t[q].pc /\ proc'[q].old = t[q].old
              \/ proc'[q].pc = "zombie"
              \/ t[q].pc = "accept" /\ proc'[q].pc = "closing"
<1>1. Blank("zombie").pc = "zombie"
  BY DEF Blank
<1>2. \A e \in Proc : \/ Caught(e).pc = e.pc /\ Caught(e).old = e.old
                      \/ Caught(e).pc = "zombie"
                      \/ e.pc = "accept" /\ Caught(e).pc = "closing"
  BY <1>1 DEF Caught, Proc
<1> QED
  BY <1>1, <1>2 DEF Signal

LEMMA ExitPc ==
    ASSUME TypeInv, NEW p \in Pids, NEW l, Exit(p, l)
    PROVE  /\ proc'[p].pc = "zombie"
           /\ \A q \in Pids \ {p} : proc'[q] = proc[q]
BY DEF Exit, Blank, TypeInv, Good

\* The kinds of step the actions are made of.
LEMMA MoveCalm ==
    ASSUME TypeInv, SlotInv, NEW p \in Pids, NEW l, NEW m, Move(p, l, m),
           \/ m \notin Launching \cup Controlling \cup Serving
           \/ l \in Serving /\ m \in Serving
    PROVE  SlotStep
<1>1. \A q \in Pids : Calm(q)
  BY GotoPc DEF Move, Calm, Pc
<1> QED
  BY <1>1, CalmStep DEF Move

LEMMA ExitCalm ==
    ASSUME TypeInv, SlotInv, NEW p \in Pids, NEW l, Exit(p, l)
    PROVE  SlotStep
<1>1. \A q \in Pids : Calm(q)
  BY ExitPc DEF Calm, Pc
<1> QED
  BY <1>1, CalmStep DEF Exit

LEMMA SignalCalm ==
    ASSUME SlotInv, NEW S, NEW t \in [Pids -> Proc], Signal(S, t),
           pidfile' = pidfile,
           \A q \in Pids :
              \/ t[q].pc = Pc(q) /\ t[q].old = proc[q].old
              \/ t[q].pc \notin Launching \cup Controlling \cup Serving
    PROVE  SlotStep
<1>1. \A q \in Pids : Calm(q)
  BY SignalPc DEF Calm, Pc
<1> QED
  BY <1>1, CalmStep

\* p, the one in flight, goes on to m and may signal others, or itself.
LEMMA SignalFlight ==
    ASSUME SlotInv, NEW p \in Pids, InFlight(p),
           NEW m \in Launching \cup Controlling,
           NEW S, NEW t \in [Pids -> Proc], Signal(S, t),
           \A q \in Pids : /\ t[q].pc = (IF q = p THEN m ELSE Pc(q))
                           /\ t[q].old = proc[q].old,
           m \in Committed => NoneServing,
           m \in Finding => \A q \in Pids : Pc(q) \in Serving => proc[p].old = q,
           pidfile' = pidfile
    PROVE  SlotStep
<1>1. \A q \in Pids \ {p} : Calm(q) /\ ~InFlight(q)'
  BY SignalPc DEF Calm, Pc, InFlight, SlotInv
<1>2. CASE Pc(p)' = m /\ proc'[p].old = proc[p].old
  BY <1>1, <1>2, FlightStep DEF InFlight
<1>3. CASE Pc(p)' = "zombie"
  BY <1>1, <1>3, CalmStep DEF Calm
<1> QED
  BY <1>2, <1>3, SignalPc DEF Pc

LEMMA GotoFlight ==
    ASSUME TypeInv, SlotInv, NEW p \in Pids, InFlight(p),
           NEW m \in Launching \cup Controlling, proc' = Goto(p, m),
           m \in Committed => NoneServing,
           m \in Finding => \A q \in Pids : Pc(q) \in Serving => proc[p].old = q,
           pidfile' = pidfile \/ NoneServing
    PROVE  SlotStep
<1>1. \A q \in Pids \ {p} : Calm(q) /\ ~InFlight(q)'
  BY GotoPc DEF Calm, Pc, InFlight, SlotInv
<1>2. Pc(p)' = m /\ proc'[p].old = proc[p].old
  BY GotoPc DEF Pc
<1> QED
  BY <1>1, <1>2, FlightStep DEF InFlight

LEMMA ReturnedCalm ==
    ASSUME TypeInv, SlotInv, NEW s \in Pids, proc' = Returned(s),
           pidfile' = pidfile \/ NoneServing
    PROVE  SlotStep
<1>1. \A q \in Pids : Calm(q)
  BY ReturnedPc DEF Calm, Pc
<1>2. NoneServing => NoneServing'
  BY ReturnedPc DEF NoneServing, Pc
<1> QED
  BY <1>1, <1>2, CalmStep

LEMMA ForkPc ==
    ASSUME TypeInv, NEW p \in Pids, NEW c \in Pids, NEW l, NEW m,
           Pc(p) # "free", Fork(p, c, l, m)
    PROVE  /\ p # c /\ Pc(c) = "free"
           /\ Pc(p)' = l /\ Pc(c)' = m
           /\ \A q \in Pids \ {p, c} : proc'[q] = proc[q]
BY DEF Fork, Pc, TypeInv, Good, Proc

LEMMA LaunchSlot ==
    ASSUME TypeInv, SlotInv, ~DiskFaults, NEW p \in Pids, LaunchStep(p)
    PROVE  SlotStep
<1>t. proc \in [Pids -> Proc] /\ \A l \in Labels : Goto(p, l) \in [Pids -> Proc]
  BY GotoType DEF TypeInv, Good
<1> USE DEF Committed, Finding
<1>f. ASSUME Pc(p) \in Finding, ~Exists(proc[p].old) PROVE NoneServing
  BY <1>f DEF SlotInv, NoneServing, Exists
<1>c. Pc(p) \in Committed => NoneServing
  BY DEF SlotInv
<1>1. CASE Main(p)
  <2>1. \A q \in Pids \ {p} : proc'[q] = proc[q]
    BY <1>1 DEF Main, TypeInv, Good
  <2>2. Pc(p)' = "single"
    BY <1>1, <1>t DEF Main, Pc, Proc
  <2>3. InFlight(p)
    BY <1>1 DEF Main, InFlight
  <2>4. \A q \in Pids \ {p} : Calm(q) /\ ~InFlight(q)'
    BY <2>1, <2>3 DEF Calm, InFlight, Pc, SlotInv
  <2> QED BY <1>1, <2>2, <2>4, FlightStep DEF Main, InFlight
<1>2. CASE SingleRead(p)
  <2>1. \A q \in Pids \ {p} : proc'[q] = proc[q]
    BY <1>2 DEF SingleRead, ReadPid, TypeInv, Good
  <2>2. Pc(p)' = "probe" /\ proc'[p].old = pidfile
    BY <1>2, <1>t DEF SingleRead, ReadPid, Pc, Proc
  <2>3. InFlight(p)
    BY <1>2 DEF SingleRead, ReadPid, InFlight
  <2>4. \A q \in Pids \ {p} : Calm(q) /\ ~InFlight(q)'
    BY <2>1, <2>3 DEF Calm, InFlight, Pc, SlotInv
  <2>5. \A q \in Pids : Pc(q) \in Serving => proc'[p].old = q
    BY <2>2 DEF SlotInv, ServerIsNamed
  <2> QED BY <1>2, <2>2, <2>4, <2>5, FlightStep DEF SingleRead, ReadPid, InFlight
<1>3. CASE SingleNone(p)
  <2>1. NoneServing
    BY <1>3 DEF SingleNone, SlotInv, ServerIsNamed, NoneServing
  <2>2. InFlight(p) /\ Goto(p, "go") \in [Pids -> Proc]
    BY <1>3, <1>t DEF SingleNone, InFlight
  <2> QED BY <1>3, <2>1, <2>2, GotoPc, SignalFlight DEF SingleNone
<1>4. CASE ProbeGone(p) \/ OldGone(p)
  <2>1. NoneServing
    BY <1>4, <1>f DEF ProbeGone, OldGone, Move
  <2> QED BY <1>4, <2>1, GotoFlight DEF ProbeGone, OldGone, Move, InFlight
<1>5. CASE ProbeRefused(p) \/ OldStillAlive(p) \/ DaemonizeFails(p)
  BY <1>5, ExitCalm DEF ProbeRefused, OldStillAlive, DaemonizeFails
<1>6. CASE ProbeReplace(p)
  <2>1. InFlight(p) /\ Goto(p, "reap") \in [Pids -> Proc]
    BY <1>6, <1>t DEF ProbeReplace, InFlight
  <2>2. \A q \in Pids : Pc(q) \in Serving => proc[p].old = q
    BY <1>6 DEF ProbeReplace, SlotInv
  <2> QED BY <1>6, <2>1, <2>2, GotoPc, SignalFlight DEF ProbeReplace
<1>7. CASE ClearPidfile(p)
  BY <1>7, <1>c, GotoFlight DEF ClearPidfile, RemovePidfile, InFlight
<1>8. CASE TakeName(p)
  <2>1. \A q \in Pids \ {p} : proc'[q] = proc[q]
    BY <1>8 DEF TakeName, Goto, TypeInv, Good
  <2>2. Pc(p)' \in {"fork", "sigact"}
    BY <1>8, <1>t DEF TakeName, Goto, Pc, Proc
  <2>3. InFlight(p) /\ NoneServing
    BY <1>8, <1>c DEF TakeName, InFlight
  <2>4. \A q \in Pids \ {p} : Calm(q) /\ ~InFlight(q)'
    BY <2>1, <2>3 DEF Calm, InFlight, Pc, SlotInv
  <2> QED BY <1>8, <2>2, <2>3, <2>4, FlightStep DEF TakeName, InFlight
<1>9. CASE \E c \in Pids : Daemonize(p, c)
  <2>1. PICK c \in Pids : Daemonize(p, c)
    BY <1>9
  <2>2. /\ p # c /\ Pc(p)' = "left" /\ Pc(c)' = "trunc1"
        /\ \A q \in Pids \ {p, c} : proc'[q] = proc[q]
    BY <2>1, ForkPc DEF Daemonize
  <2>3. InFlight(p) /\ NoneServing
    BY <2>1, <1>c DEF Daemonize, InFlight
  <2>4. \A q \in Pids \ {c} : Calm(q) /\ ~InFlight(q)'
    BY <2>2, <2>3 DEF Calm, InFlight, Pc, SlotInv
  <2> QED BY <2>1, <2>2, <2>3, <2>4, FlightStep DEF Daemonize, Fork, InFlight
<1>10. CASE TruncatePidfile(p)
  BY <1>10, <1>c, GotoFlight DEF TruncatePidfile, InFlight
<1>11. CASE FillPidfile(p) /\ Pc(p) = "write1"
  BY <1>11, <1>c, GotoFlight DEF FillPidfile, InFlight, AfterWrite
<1>12. CASE FillPidfile(p) /\ Pc(p) = "write2"
  <2>1. InFlight(p) /\ NoneServing
    BY <1>12, <1>c DEF InFlight
  <2>2. proc' = Goto(p, "loop") /\ pidfile' = p
    BY <1>12 DEF FillPidfile, AfterWrite
  <2>3. Pc(p)' = "loop" /\ \A q \in Pids \ {p} : Pc(q)' = Pc(q)
    BY <2>2, GotoPc DEF Pc
  <2>4. \A q \in Pids : ~InFlight(q)'
    BY <2>1, <2>3 DEF InFlight, SlotInv
  <2>5. ServerIsNamed'
    BY <2>1, <2>2, <2>3 DEF ServerIsNamed, NoneServing
  <2> QED BY <2>1, <2>4, <2>5 DEF SlotStep, SlotInv, InFlight
<1>13. CASE WritePidfileFails(p)
  BY <1>13 DEF WritePidfileFails
<1>14. CASE InstallHandlers(p)
  <2>1. \A q \in Pids \ {p} : proc'[q] = proc[q]
    BY <1>14 DEF InstallHandlers, TypeInv, Good
  <2>2. Pc(p)' = "bind"
    BY <1>14, <1>t DEF InstallHandlers, Pc, Proc
  <2>3. InFlight(p) /\ NoneServing
    BY <1>14, <1>c DEF InstallHandlers, InFlight
  <2>4. \A q \in Pids \ {p} : Calm(q) /\ ~InFlight(q)'
    BY <2>1, <2>3 DEF Calm, InFlight, Pc, SlotInv
  <2> QED BY <1>14, <2>2, <2>3, <2>4, FlightStep DEF InstallHandlers, InFlight
<1>15. CASE Bind(p)
  <2>1. \A q \in Pids \ {p} : proc'[q] = proc[q]
    BY <1>15 DEF Bind, TypeInv, Good
  <2>2. Pc(p)' = "trunc2"
    BY <1>15, <1>t DEF Bind, Pc, Proc
  <2>3. InFlight(p) /\ NoneServing
    BY <1>15, <1>c DEF Bind, InFlight
  <2>4. \A q \in Pids \ {p} : Calm(q) /\ ~InFlight(q)'
    BY <2>1, <2>3 DEF Calm, InFlight, Pc, SlotInv
  <2> QED BY <1>15, <2>2, <2>3, <2>4, FlightStep DEF Bind, InFlight
<1>16. CASE BindRetry(p)
  <2> DEFINE n == proc[p].tries + 1
             m == IF n < BindAttempts THEN "bind" ELSE "unbound"
             t == [Goto(p, m) EXCEPT ![p].tries = n]
  <2>1. InFlight(p) /\ NoneServing
    BY <1>16, <1>c DEF BindRetry, Retry, InFlight
  <2>2. t \in [Pids -> Proc]
    <3>1. GoodEntry(proc[p]) /\ Pc(p) = "bind"
      BY <1>16 DEF BindRetry, Retry, TypeInv, Good
    <3>2. n \in 0..BindAttempts
      BY <3>1, ConstantsAssumption DEF GoodEntry, Proc, Pc, Exhausted
    <3>3. Goto(p, m) \in [Pids -> Proc]
      BY <3>1, <1>t
    <3> HIDE DEF n, m
    <3> QED BY <3>2, <3>3 DEF Proc
  <2>3. \A q \in Pids : /\ t[q].pc = Goto(p, m)[q].pc
                        /\ t[q].old = Goto(p, m)[q].old
    <3> HIDE DEF n, m
    <3> QED BY DEF Goto, TypeInv, Good, Proc
  <2>4. \A q \in Pids : /\ t[q].pc = (IF q = p THEN m ELSE Pc(q))
                        /\ t[q].old = proc[q].old
    <3> HIDE DEF t, n, m
    <3>1. \A q \in Pids : /\ Goto(p, m)[q].pc = (IF q = p THEN m ELSE Pc(q))
                          /\ Goto(p, m)[q].old = proc[q].old
      BY GotoPc
    <3> QED BY <2>3, <3>1
  <2>5. m \in {"bind", "unbound"}
    OBVIOUS
  <2>6. \E S : Signal(S, t) /\ pidfile' = pidfile
    BY <1>16 DEF BindRetry, Retry
  <2> HIDE DEF t, n, m
  <2> QED BY <2>1, <2>2, <2>4, <2>5, <2>6, SignalFlight
<1>17. CASE BindFails(p)
  BY <1>17, <1>c, GotoFlight DEF BindFails, Move, InFlight
<1>18. CASE Unbound(p)
  <2>1. proc' = Goto(p, "left") /\ Pc(p) = "unbound"
    BY <1>18 DEF Unbound, Leave, Move, RemovePidfile
  <2>2. \A q \in Pids : Calm(q)
    BY <2>1, GotoPc DEF Calm, Pc
  <2>3. NoneServing'
    BY <2>1, <1>c, GotoPc DEF NoneServing, Pc
  <2> QED BY <2>2, <2>3, CalmStep
<1> QED
  BY <1>1, <1>2, <1>3, <1>4, <1>5, <1>6, <1>7, <1>8, <1>9, <1>10, <1>11,
     <1>12, <1>13, <1>14, <1>15, <1>16, <1>17, <1>18
     DEF LaunchStep, FillPidfile

LEMMA ServeSlot ==
    ASSUME TypeInv, SlotInv, NEW p \in Pids, ServeStep(p)
    PROVE  SlotStep
<1>1. CASE CheckRunning(p) \/ EnterAccept(p) \/ ForkSessionFails(p)
  BY <1>1, MoveCalm DEF CheckRunning, EnterAccept, ForkSessionFails
<1>2. CASE SessionBegins(p)
  BY <1>2, ReturnedCalm DEF SessionBegins
<1>3. CASE \E c \in Pids : ForkSession(p, c)
  <2>1. PICK c \in Pids : ForkSession(p, c)
    BY <1>3
  <2>2. /\ p # c /\ Pc(p)' = "loop" /\ Pc(c)' = "child"
        /\ \A q \in Pids \ {p, c} : proc'[q] = proc[q]
    BY <2>1, ForkPc DEF ForkSession
  <2>3. \A q \in Pids : Calm(q)
    BY <2>1, <2>2 DEF ForkSession, Calm, Pc
  <2> QED BY <2>1, <2>3, CalmStep DEF ForkSession, Fork
<1>4. CASE CloseListener(p)
  <2>1. /\ Pc(p)' = "exiting"
        /\ \A q \in Pids \ {p} : proc'[q] = proc[q]
    BY <1>4 DEF CloseListener, Pc, TypeInv, Good, Proc
  <2>2. \A q \in Pids : Calm(q)
    BY <1>4, <2>1 DEF CloseListener, Calm, Pc
  <2> QED BY <1>4, <2>2, CalmStep DEF CloseListener
<1>5. CASE Shutdown(p)
  <2>1. proc' = Goto(p, "left") /\ Pc(p) = "exiting"
    BY <1>5 DEF Shutdown, Leave, Move, RemovePidfile
  <2>2. \A q \in Pids : Pc(q) \in Serving => q = p
    BY <2>1 DEF SlotInv, ServerIsNamed
  <2>3. NoneServing'
    BY <2>1, <2>2, GotoPc DEF NoneServing, Pc
  <2>4. \A q \in Pids : Calm(q)
    BY <2>1, GotoPc DEF Calm, Pc
  <2> QED BY <2>3, <2>4, CalmStep
<1>6. CASE ProcessEnds(p)
  BY <1>6, ExitCalm DEF ProcessEnds
<1> QED
  BY <1>1, <1>2, <1>3, <1>4, <1>5, <1>6 DEF ServeStep

LEMMA ControlSlot ==
    ASSUME TypeInv, SlotInv, NEW s \in Pids, ControlStep(s)
    PROVE  SlotStep
<1> USE DEF Committed, Finding
<1>c. Pc(s) \in Committed => NoneServing
  BY DEF SlotInv
\* serverctl_stop() returns to the session, or goes on to the start.
<1>a. ASSUME Pc(s) \in Controlling, proc' = AfterStop(s),
             pidfile' = pidfile \/ NoneServing
      PROVE  SlotStep
  <2>1. CASE proc[s].restart
    BY <1>a, <2>1, GotoFlight DEF AfterStop, InFlight
  <2>2. CASE ~proc[s].restart
    BY <1>a, <2>2, ReturnedCalm DEF AfterStop
  <2> QED BY <2>1, <2>2
<1>1. CASE StopRead(s)
  <2>1. \A q \in Pids \ {s} : proc'[q] = proc[q]
    BY <1>1 DEF StopRead, ReadPid, TypeInv, Good
  <2>2. Pc(s)' = "stopkill" /\ proc'[s].old = pidfile
    BY <1>1 DEF StopRead, ReadPid, Pc, TypeInv, Good, Proc
  <2>3. InFlight(s)
    BY <1>1 DEF StopRead, ReadPid, InFlight
  <2>4. \A q \in Pids \ {s} : Calm(q) /\ ~InFlight(q)'
    BY <2>1, <2>3 DEF Calm, InFlight, Pc, SlotInv
  <2>5. \A q \in Pids : Pc(q) \in Serving => proc'[s].old = q
    BY <2>2 DEF SlotInv, ServerIsNamed
  <2> QED BY <1>1, <2>2, <2>4, <2>5, FlightStep DEF StopRead, ReadPid, InFlight
<1>2. CASE StopNone(s)
  BY <1>2, <1>a DEF StopNone
<1>3. CASE StopKill(s) /\ Exists(proc[s].old)
  <2>1. InFlight(s) /\ Goto(s, "stopwait") \in [Pids -> Proc]
    BY <1>3, GotoType DEF StopKill, InFlight, TypeInv
  <2>2. \A q \in Pids : Pc(q) \in Serving => proc[s].old = q
    BY <1>3 DEF StopKill, SlotInv
  <2>3. \A q \in Pids : /\ Goto(s, "stopwait")[q].pc =
                              (IF q = s THEN "stopwait" ELSE Pc(q))
                        /\ Goto(s, "stopwait")[q].old = proc[q].old
    BY GotoPc
  <2> QED BY <1>3, <2>1, <2>2, <2>3, SignalFlight DEF StopKill
<1>4. CASE StopKill(s) /\ ~Exists(proc[s].old)
  BY <1>4, <1>a DEF StopKill
<1>5. CASE StopWait(s) /\ Exists(proc[s].old)
  BY <1>5, <1>a DEF StopWait
<1>6. CASE StopWait(s) /\ ~Exists(proc[s].old)
  <2>1. NoneServing
    BY <1>6 DEF StopWait, SlotInv, NoneServing, Exists
  <2> QED BY <1>6, <2>1, GotoFlight DEF StopWait, InFlight
<1>7. CASE StopUnlink(s)
  BY <1>7, <1>c, <1>a DEF StopUnlink
<1>8. CASE StartFails(s)
  BY <1>8, ReturnedCalm DEF StartFails
<1>9. CASE \E c \in Pids : StartFork(s, c)
  <2>1. PICK c \in Pids : StartFork(s, c)
    BY <1>9
  <2>2. s # c /\ InFlight(s)
    BY <2>1 DEF StartFork, InFlight
  <2>3. Returned(s) \in [Pids -> Proc]
    BY ReturnedGood DEF TypeInv, Good
  <2>4. \A q \in Pids \ {c} : proc'[q] = Returned(s)[q]
    BY <2>1, <2>3 DEF StartFork
  <2>5. Pc(c)' = "single"
    BY <2>1, <2>3 DEF StartFork, Pc, TypeInv, Good, Proc
  <2>6. Pc(s)' = "busy" /\ \A q \in Pids \ {s, c} : proc'[q] = proc[q]
    BY <2>2, <2>4, ReturnedPc DEF Pc
  <2>7. \A q \in Pids \ {c} : Calm(q) /\ ~InFlight(q)'
    BY <2>2, <2>6 DEF Calm, InFlight, Pc, SlotInv
  <2> QED BY <2>1, <2>5, <2>7, FlightStep DEF StartFork, InFlight
<1>10. CASE Prompt(s)
  BY <1>10, MoveCalm DEF Prompt
<1> QED
  BY <1>1, <1>2, <1>3, <1>4, <1>5, <1>6, <1>7, <1>8, <1>9, <1>10 DEF ControlStep

LEMMA EnvSlot ==
    ASSUME TypeInv, SlotInv, Serial, NEW p \in Pids, EnvStep(p)
    PROVE  SlotStep
<1> USE DEF Committed, Finding
\* A launch or a command begins: p comes into flight alone.
<1>b. ASSUME MayBegin, Pc(p)' \in {"main", "start", "stop"},
             \A q \in Pids \ {p} : proc'[q] = proc[q], pidfile' = pidfile
      PROVE  SlotStep
  <2>1. \A q \in Pids \ {p} : Calm(q) /\ ~InFlight(q)'
    BY <1>b DEF MayBegin, Calm, InFlight, Pc
  <2> QED BY <1>b, <2>1, FlightStep DEF InFlight
<1>1. CASE Reap(p) \/ OtherStarts(p) \/ Accept(p) \/ AcceptFails(p) \/ RunCommand(p)
  BY <1>1, MoveCalm DEF Reap, OtherStarts, Accept, AcceptFails, RunCommand
<1>2. CASE Dies(p)
  BY <1>2, ExitCalm DEF Dies
<1>3. CASE \E a \in Args : Launch(p, a)
  <2>1. Pc(p)' = "main" /\ \A q \in Pids \ {p} : proc'[q] = proc[q]
    BY <1>3 DEF Launch, Pc, TypeInv, Good, Proc
  <2> QED BY <1>3, <2>1, <1>b DEF Launch
<1>4. CASE \E verb \in Verbs, a \in {b \in Args : b.daemon} : Serverctl(p, verb, a)
  <2>1. PICK verb \in Verbs, a \in Args : Serverctl(p, verb, a)
    BY <1>4
  <2>2. /\ Pc(p)' \in {"start", "stop"}
        /\ \A q \in Pids \ {p} : proc'[q] = proc[q]
    BY <2>1 DEF Serverctl, Goto, Pc, TypeInv, Good, Proc
  <2> QED BY <2>1, <2>2, <1>b DEF Serverctl
<1>5. CASE \E q \in Pids : KillCommand(p, q)
  <2>1. Pc(p) = "session" /\ Goto(p, "busy") \in [Pids -> Proc]
    BY <1>5, GotoType DEF KillCommand, TypeInv
  <2>2. \A q \in Pids : /\ Goto(p, "busy")[q].pc = (IF q = p THEN "busy" ELSE Pc(q))
                        /\ Goto(p, "busy")[q].old = proc[q].old
    BY GotoPc
  <2> QED BY <1>5, <2>1, <2>2, SignalCalm DEF KillCommand
<1> QED
  BY <1>1, <1>2, <1>3, <1>4, <1>5 DEF EnvStep

LEMMA SlotInductive ==
    ASSUME Serial, ~DiskFaults
    PROVE  TypeInv /\ SlotInv /\ [Next]_vars => SlotStep
<1> SUFFICES ASSUME TypeInv, SlotInv, [Next]_vars PROVE SlotStep
  OBVIOUS
<1>1. ASSUME NEW p \in Pids, ProcStep(p) \/ EnvStep(p) PROVE SlotStep
  BY <1>1, LaunchSlot, ServeSlot, ControlSlot, EnvSlot DEF ProcStep
<1>2. CASE KillTool
  BY <1>2, SignalCalm DEF KillTool, TypeInv, Good, Pc
<1>3. CASE Reboot
  <2>1. \A q \in Pids : Pc(q)' = "free"
    BY <1>3 DEF Reboot, Blank, Pc
  <2> QED BY <1>3, <2>1, CalmStep DEF Reboot, Calm
<1>4. CASE UNCHANGED vars
  BY <1>4, CalmStep DEF vars, Calm, Pc
<1> QED
  BY <1>1, <1>2, <1>3, <1>4 DEF Next

LEMMA SlotInitial == Init => TypeInv /\ SlotInv /\ NoneServing
<1>1. Init => TypeInv
  BY BlankGood DEF Init, TypeInv, Good, GoodEntry
<1>2. Init => \A q \in Pids : Pc(q) = "free"
  BY BlankGood DEF Init, Pc
<1> QED
  BY <1>1, <1>2
     DEF SlotInv, InFlight, ServerIsNamed, NoneServing, Committed, Finding

\* However many processes there are, and whatever crashes, signals, stale pid
\* files and restarts do: if launches and commands are not started while
\* another is under way, and the pid file can be written, a serving process is
\* the one the pid file names, and so is the only one.
THEOREM ServerNamed == Serial /\ ~DiskFaults /\ Spec => []ServerIsNamed
<1> SUFFICES ASSUME Serial, ~DiskFaults PROVE Spec => []ServerIsNamed
  OBVIOUS
<1>1. SlotInv => ServerIsNamed
  BY DEF SlotInv
<1>2. TypeInv /\ SlotInv /\ [Next]_vars => SlotInv'
  BY SlotInductive DEF SlotStep
<1> QED
  BY <1>1, <1>2, SlotInitial, TypeInductive, PTL DEF Spec

\* Without races and disk faults, serverctl status finds a live server: the pid
\* file it reads names the process, and the process exists.
THEOREM StatusFindsServer == Serial /\ ~DiskFaults /\ Spec => []StatusTruthful
<1> SUFFICES ASSUME Serial, ~DiskFaults PROVE Spec => []StatusTruthful
  OBVIOUS
<1>1. ServerIsNamed => StatusTruthful
  BY DEF ServerIsNamed, StatusTruthful, Status, Exists, Serving
<1> QED
  BY <1>1, ServerNamed, PTL

-----------------------------------------------------------------------------
(* The launch protocol implements the abstract server slot. *)

LEMMA OwnerIs ==
    ASSUME ServerIsNamed
    PROVE  /\ \A p \in Pids : Pc(p) \in Serving => Owner = p
           /\ NoneServing => Owner = NoPid
BY DEF Owner, ServerIsNamed, NoneServing

\* Under the same conditions every step is one of the abstract slot, or leaves
\* it as it is: a server is gone before the next one begins, and nobody writes
\* or removes the pid file of a server that is up.
THEOREM SlotImplemented == Serial /\ ~DiskFaults /\ Spec => ImplementsSlot
<1> SUFFICES ASSUME Serial, ~DiskFaults PROVE Spec => Slot!Spec
  BY DEF ImplementsSlot
<1>1. Init => Slot!Init
  BY SlotInitial, OwnerIs DEF Slot!Init, SlotInv, TypeInv
<1>2. ASSUME TypeInv, TypeInv', SlotInv, [Next]_vars
      PROVE  [Slot!Next]_<<Owner, pidfile>>
  <2>1. SlotStep
    BY <1>2, SlotInductive
  <2>2. ServerIsNamed /\ ServerIsNamed'
    BY <1>2, <2>1 DEF SlotStep, SlotInv
  <2>3. pidfile' \in Pids \cup {NoFile, Empty}
    BY <1>2 DEF TypeInv
  <2>4. NoneServing' => Owner' = NoPid
    BY <2>2 DEF Owner, NoneServing
  <2>5. \A p \in Pids : Pc(p)' \in Serving => Owner' = p /\ pidfile' = p
    BY <2>2 DEF Owner, ServerIsNamed
  <2>6. NoPid \notin Pids
    BY ConstantsAssumption
  <2>7. CASE NoneServing /\ NoneServing'
    BY <2>2, <2>3, <2>4, <2>7, OwnerIs DEF Slot!Next, Slot!Rewrite
  <2>8. CASE NoneServing /\ ~NoneServing'
    <3>1. PICK p \in Pids : Pc(p)' \in Serving
      BY <2>8 DEF NoneServing
    <3>2. Owner = NoPid /\ Owner' = p /\ pidfile' = p
      BY <3>1, <2>2, <2>5, <2>8, OwnerIs
    <3> QED BY <3>2 DEF Slot!Next, Slot!Take
  <2>9. CASE ~NoneServing /\ NoneServing'
    <3>1. PICK p \in Pids : Pc(p) \in Serving
      BY <2>9 DEF NoneServing
    <3>2. Owner # NoPid /\ Owner' = NoPid
      BY <3>1, <2>2, <2>4, <2>6, <2>9, OwnerIs
    <3> QED BY <3>2, <2>3 DEF Slot!Next, Slot!Release
  <2>10. CASE ~NoneServing /\ ~NoneServing'
    <3>1. PICK p \in Pids : Pc(p)' \in Serving
      BY <2>10 DEF NoneServing
    <3>2. Pc(p) \in Serving
      BY <3>1, <2>1, <2>10 DEF SlotStep
    <3>3. Owner = p /\ pidfile = p /\ Owner' = p /\ pidfile' = p
      BY <3>1, <3>2, <2>2, <2>5, OwnerIs DEF ServerIsNamed
    <3> QED BY <3>3
  <2> QED BY <2>7, <2>8, <2>9, <2>10
<1>3. TypeInv /\ SlotInv /\ [Next]_vars => SlotInv'
  BY SlotInductive DEF SlotStep
<1> QED
  BY <1>1, <1>2, <1>3, SlotInitial, TypeInductive, PTL DEF Spec, Slot!Spec

-----------------------------------------------------------------------------
(* A server ends in order: by the type invariant it has its handlers, and a *)
(* process with handlers dies of a signal only while it reads at a prompt.  *)

Spared == \A p \in Pids : Pc(p) \in Serving /\ Pc(p)' = "zombie" => Dies(p)

\* A step of p alone, and one in which p, no server, signals others.
LEMMA AloneSpared ==
    ASSUME NEW p \in Pids, \A q \in Pids \ {p} : proc'[q] = proc[q],
           Pc(p) \notin Serving \/ Pc(p)' # "zombie"
    PROVE  Spared
BY DEF Spared, Pc

LEMMA SignalSpared ==
    ASSUME TypeInv, NEW S, NEW t, Signal(S, t),
           \A q \in Pids : Pc(q) \in Serving => t[q] = proc[q]
    PROVE  Spared
<1>1. \A e \in Proc : e.pc \in Serving => Caught(e).pc # "zombie"
  BY DEF Caught, Proc
<1>2. \A q \in Pids : Pc(q) \in Serving =>
          proc[q] \in Proc /\ t[q] = proc[q] /\ proc[q].handling
  BY DEF TypeInv, Good, GoodEntry, Armed, Pc
<1>3. \A q \in Pids : Pc(q) \in Serving => proc'[q] \in {proc[q], Caught(proc[q])}
  BY <1>2 DEF Signal
<1> QED
  BY <1>1, <1>2, <1>3 DEF Spared, Pc

LEMMA ToldSpared ==
    ASSUME TypeInv, NEW p \in Pids, Pc(p) \notin Serving, NEW l, NEW S,
           Signal(S, Goto(p, l))
    PROVE  Spared
<1>1. \A q \in Pids \ {p} : Goto(p, l)[q] = proc[q]
  BY DEF Goto, TypeInv, Good
<1> QED
  BY <1>1, SignalSpared

LEMMA GotoSpared ==
    ASSUME TypeInv, NEW p \in Pids, NEW l, l # "zombie", proc' = Goto(p, l)
    PROVE  Spared
<1>1. \A q \in Pids \ {p} : proc'[q] = proc[q]
  BY DEF Goto, TypeInv, Good
<1>2. Pc(p)' = l
  BY GotoPc DEF Pc
<1> QED
  BY <1>1, <1>2, AloneSpared

LEMMA ExitSpared ==
    ASSUME TypeInv, NEW p \in Pids, NEW l, l \notin Serving, Exit(p, l)
    PROVE  Spared
BY ExitPc, AloneSpared DEF Exit

LEMMA ReturnedSpared ==
    ASSUME TypeInv, NEW s \in Pids, proc' = Returned(s)
    PROVE  Spared
<1>1. Pc(s)' = "busy" /\ \A q \in Pids \ {s} : proc'[q] = proc[q]
  BY ReturnedPc DEF Pc
<1> QED
  BY <1>1, AloneSpared

LEMMA LaunchSpared ==
    ASSUME TypeInv, NEW p \in Pids, LaunchStep(p)
    PROVE  Spared
<1>a. \A l : l # "zombie" /\ proc' = Goto(p, l) => Spared
  BY GotoSpared
\* Steps that write other fields of p besides its label.
<1>1. CASE Main(p) \/ SingleRead(p) \/ TakeName(p) \/ InstallHandlers(p) \/ Bind(p)
  <2>1. \A q \in Pids \ {p} : proc'[q] = proc[q]
    BY <1>1 DEF Main, SingleRead, ReadPid, TakeName, Goto, InstallHandlers,
                Bind, TypeInv, Good
  <2>2. Pc(p) \notin Serving
    BY <1>1 DEF Main, SingleRead, ReadPid, TakeName, InstallHandlers, Bind
  <2> QED BY <2>1, <2>2, AloneSpared
<1>2. CASE SingleNone(p) \/ ProbeReplace(p)
  BY <1>2, ToldSpared DEF SingleNone, ProbeReplace
<1>3. CASE ProbeGone(p) \/ OldGone(p) \/ ClearPidfile(p) \/ BindFails(p) \/ Unbound(p)
  BY <1>3, <1>a DEF ProbeGone, OldGone, ClearPidfile, BindFails, Unbound, Leave,
                    Move, RemovePidfile
<1>4. CASE ProbeRefused(p) \/ OldStillAlive(p) \/ DaemonizeFails(p)
  BY <1>4, ExitSpared DEF ProbeRefused, OldStillAlive, DaemonizeFails
<1>5. CASE \E c \in Pids : Daemonize(p, c)
  <2>1. PICK c \in Pids : Daemonize(p, c)
    BY <1>5
  <2>2. /\ Pc(p)' = "left" /\ Pc(c)' = "trunc1"
        /\ \A q \in Pids \ {p, c} : proc'[q] = proc[q]
    BY <2>1, ForkPc DEF Daemonize
  <2> QED BY <2>2 DEF Spared, Pc
<1>6. CASE TruncatePidfile(p) \/ FillPidfile(p) \/ WritePidfileFails(p)
  BY <1>6, <1>a DEF TruncatePidfile, FillPidfile, WritePidfileFails, Move, AfterWrite
<1>7. CASE BindRetry(p)
  <2> DEFINE n == proc[p].tries + 1
             m == IF n < BindAttempts THEN "bind" ELSE "unbound"
             t == [Goto(p, m) EXCEPT ![p].tries = n]
  <2>1. \E S : Signal(S, t)
    BY <1>7 DEF BindRetry, Retry
  <2>2. \A q \in Pids \ {p} : t[q] = proc[q]
    <3> HIDE DEF n, m
    <3> QED BY DEF Goto, TypeInv, Good
  <2>3. Pc(p) \notin Serving
    BY <1>7 DEF BindRetry, Retry
  <2> HIDE DEF t, n, m
  <2> QED BY <2>1, <2>2, <2>3, SignalSpared
<1> QED
  BY <1>1, <1>2, <1>3, <1>4, <1>5, <1>6, <1>7 DEF LaunchStep

LEMMA ServeSpared ==
    ASSUME TypeInv, NEW p \in Pids, ServeStep(p)
    PROVE  Spared
<1>a. \A l : l # "zombie" /\ proc' = Goto(p, l) => Spared
  BY GotoSpared
<1>1. CASE CheckRunning(p) \/ EnterAccept(p) \/ ForkSessionFails(p) \/ Shutdown(p)
  BY <1>1, <1>a DEF CheckRunning, EnterAccept, ForkSessionFails, Shutdown, Leave,
                    Move, RemovePidfile
<1>2. CASE SessionBegins(p)
  BY <1>2, ReturnedSpared DEF SessionBegins
<1>3. CASE \E c \in Pids : ForkSession(p, c)
  <2>1. PICK c \in Pids : ForkSession(p, c)
    BY <1>3
  <2>2. /\ Pc(p)' = "loop" /\ Pc(c)' = "child"
        /\ \A q \in Pids \ {p, c} : proc'[q] = proc[q]
    BY <2>1, ForkPc DEF ForkSession
  <2> QED BY <2>2 DEF Spared, Pc
<1>4. CASE CloseListener(p)
  <2>1. /\ Pc(p)' = "exiting"
        /\ \A q \in Pids \ {p} : proc'[q] = proc[q]
    BY <1>4 DEF CloseListener, Pc, TypeInv, Good, Proc
  <2> QED BY <2>1, AloneSpared
<1>5. CASE ProcessEnds(p)
  BY <1>5, ExitSpared DEF ProcessEnds
<1> QED
  BY <1>1, <1>2, <1>3, <1>4, <1>5 DEF ServeStep

LEMMA ControlSpared ==
    ASSUME TypeInv, NEW s \in Pids, ControlStep(s)
    PROVE  Spared
<1>a. proc' = AfterStop(s) => Spared
  BY GotoSpared, ReturnedSpared DEF AfterStop
<1>1. CASE StopRead(s)
  <2>1. Pc(s) \notin Serving /\ \A q \in Pids \ {s} : proc'[q] = proc[q]
    BY <1>1 DEF StopRead, ReadPid, TypeInv, Good
  <2> QED BY <2>1, AloneSpared
<1>2. CASE StopNone(s) \/ StopUnlink(s)
  BY <1>2, <1>a DEF StopNone, StopUnlink
<1>3. CASE StopKill(s)
  BY <1>3, <1>a, ToldSpared DEF StopKill
<1>4. CASE StopWait(s)
  BY <1>4, <1>a, GotoSpared DEF StopWait
<1>5. CASE StartFails(s)
  BY <1>5, ReturnedSpared DEF StartFails
<1>6. CASE \E c \in Pids : StartFork(s, c)
  <2>1. PICK c \in Pids : StartFork(s, c)
    BY <1>6
  <2>2. \A q \in Pids \ {s, c} : proc'[q] = proc[q]
    BY <2>1, ReturnedPc DEF StartFork, Returned, TypeInv, Good
  <2>3. Pc(s) \notin Serving /\ Pc(c) \notin Serving
    BY <2>1 DEF StartFork
  <2> QED BY <2>2, <2>3 DEF Spared, Pc
<1>7. CASE Prompt(s)
  BY <1>7, GotoSpared DEF Prompt, Move
<1> QED
  BY <1>1, <1>2, <1>3, <1>4, <1>5, <1>6, <1>7 DEF ControlStep

LEMMA EnvSpared ==
    ASSUME TypeInv, NEW p \in Pids, EnvStep(p)
    PROVE  Spared
<1>1. CASE Reap(p) \/ OtherStarts(p) \/ Accept(p) \/ AcceptFails(p) \/ RunCommand(p)
  <2>1. \E l \in Labels \ {"zombie"} : proc' = Goto(p, l)
    BY <1>1 DEF Reap, OtherStarts, Accept, AcceptFails, RunCommand, Move
  <2> QED BY <2>1, GotoSpared
<1>2. CASE Dies(p)
  BY <1>2, ExitPc DEF Dies, Spared, Pc
<1>3. CASE \E a \in Args : Launch(p, a)
  <2>1. Pc(p) \notin Serving /\ \A q \in Pids \ {p} : proc'[q] = proc[q]
    BY <1>3 DEF Launch, TypeInv, Good
  <2> QED BY <2>1, AloneSpared
<1>4. CASE \E verb \in Verbs, a \in {b \in Args : b.daemon} : Serverctl(p, verb, a)
  <2>1. Pc(p) \notin Serving /\ \A q \in Pids \ {p} : proc'[q] = proc[q]
    BY <1>4 DEF Serverctl, Goto, TypeInv, Good
  <2> QED BY <2>1, AloneSpared
<1>5. CASE \E q \in Pids : KillCommand(p, q)
  BY <1>5, ToldSpared DEF KillCommand
<1> QED
  BY <1>1, <1>2, <1>3, <1>4, <1>5 DEF EnvStep

\* No SIGTERM, from kill, serverctl, a forced launch or the kill tool, ends a
\* server half way: from its loop on it is cut short only by a crash, however
\* launches race and whether or not the pid file can be written.
THEOREM ServerEndsInOrder == Spec => GracefulEnd
<1>1. Init => TypeInv
  BY BlankGood DEF Init, TypeInv, Good, GoodEntry
<1>2. TypeInv /\ [Next]_vars => [Spared]_vars
  <2> SUFFICES ASSUME TypeInv, Next PROVE Spared
    OBVIOUS
  <2>1. ASSUME NEW p \in Pids, ProcStep(p) \/ EnvStep(p) PROVE Spared
    BY <2>1, LaunchSpared, ServeSpared, ControlSpared, EnvSpared DEF ProcStep
  <2>2. CASE KillTool
    BY <2>2, SignalSpared DEF KillTool
  <2>3. CASE Reboot
    BY <2>3 DEF Reboot, Blank, Spared, Pc
  <2> QED BY <2>1, <2>2, <2>3 DEF Next
<1>3. Spec => [][Spared]_vars
  BY <1>1, <1>2, TypeInductive, PTL DEF Spec
<1> QED
  BY <1>3 DEF GracefulEnd, Spared
=============================================================================
