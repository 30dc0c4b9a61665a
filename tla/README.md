# Verification of ps5-ssh-srvr

TLA+ models of the pseudo-SSH server payload, checked with TLC on small
instances. Every safety property the passing runs check is also proved with TLAPS,
for every value of the constants.

## The system

The payload is one program. A launch looks for a running instance through a pid
file, may replace it, daemonizes, binds a TCP port and forks a session for every
client. A session reads command lines and runs them: built-in commands in the
session itself, pipelines in children. Nothing but the pid file, the process
table, signals, descriptors and ports is shared; there are no threads (the
loader's child shares memory until it calls `execve()`).

| Component | State | Operations | Interacts through | What is hard |
|---|---|---|---|---|
| Lifecycle (`src/sshsvr.c`) | pid file, `g_running`, listening socket | launch, single-instance check, daemonize, bind with retry, accept loop, shutdown | pid file, SIGTERM, `kill(pid, 0)`, ports | launches that race, recycled pids, reboot, a signal in the wrong place |
| serverctl, kill (`src/builtins.c`) | none of its own | start, stop, restart, status, kill | as above | time-outs, stop and start as two halves |
| kill tool (`tools/kill_sshsvr.c`) | none | SIGTERM by process name | signals | |
| Session (`src/session.c`) | line, tokens, commands, pipes, children | read a line, tokenize, build_pipeline, pipe, fork, wait | descriptors, `wait()` | limits of its arrays, quoting, end of file, `wait()` that takes any child, failing `fork()` |
| install (`src/builtins.c`) | seconds idle, line so far, result | ask two services, watch the kernel log | TCP to etaHEN services | late answers, time-outs, lines missed, lines in pieces |
| Transfer (`put`, `get`, `base64.c`) | none | encode, decode, read, write | stdin of the session | segments that are not lines; what is left of an upload is read as commands |
| File commands (`src/builtins.c`) | none | rm, cp, mv, mkdir; ls, cat, cd, pwd | the file system, shared by all sessions | links, trees that change, calls that fail half way |
| ELF loader (`shsrv/elfldr.c`) | the child being made, its memory | rfork, kevent, ptrace, load, release | ptrace, shared stack | event armed late, a failure half way, signals, sizes and page boundaries |
| ptrace wrappers (`shsrv/pt.c`) | credentials while a call lasts | remote calls, single steps | ptrace, ucred of the process | a process that dies, a step interrupted, credentials left raised |

## Modules

| Module | Models |
|---|---|
| `Lifecycle` | Every process: launching, serving, sessions, control commands, kill tool, crashes, reboots, unrelated programs. One record per process id. |
| `SingleServer` | The abstract promise: a slot for one server and a nameplate. |
| `LifecycleProofs` | Theorems about `Lifecycle`. |
| `CommandLine` | One session reading characters, cutting them into tokens, and grouping those into commands. |
| `Pipeline` | One session running command lines: pipe ends held by each process, children, waits. |
| `Install` | The install command against two services and a log. |
| `Base64` | `b64_encode_block()` and `b64_decode_block()` as functions on sequences. |
| `Transfer` | `get`, a client, `put` and the prompt after it. |
| `FileOps` | Sessions running rm, cp, mv and mkdir on one file system, a system call at a time. |
| `ElfLoader` | `execelf` and `debugelf`: `elfldr_spawn()` and its child. |
| `ElfMemory` | `elfldr_set_environ()` and `elfldr_load()`: sizes, places, protections, clean-up. |
| `RemoteCall` | `pt_call()` and `pt_syscall()` by single steps, and `sys_ptrace()` beneath them. |
| `CommandLineProofs`, `PipelineProofs`, `InstallProofs`, `TransferProofs`, `FileOpsProofs`, `ElfMemoryProofs` | Theorems about the module each is named after. |
| `LoaderProofs` | Theorems about `ElfLoader` and `RemoteCall`. |
| `MC*` | Instances for TLC; each extends the module and adds at most a symmetry set, or, for `FileOps`, the commands and disks tried. |

Definitions named after a fault and commented `Fault:` are never used by the
specifications. Each is what a plausible mistake would make of the definition
that follows it, and shows that a property can be broken.

### Lifecycle

A process is at a label between two accesses to shared state: `main`, `single`,
`probe`, `reap`, `clear` are `main()` and `ensure_single_instance()`; `go`, `fork`,
`trunc1`, `write1`, `sigact`, `bind`, `trunc2`, `write2` are `sshsvr_run()` up to
its loop; `loop`, `enter`, `accept`, `serve`, `closing`, `exiting` the loop and
its end; `child` a session just forked, `session` one blocked at the prompt,
`busy` one that is not; `stop`, `stopkill`, `stopwait`, `unlink`, `start` are
`serverctl`. `Signal` gives SIGTERM its effect: default action, or
`g_running = 0` and, in a blocked call, EINTR.

`write_pidfile()` is two steps since `fopen("wb")` truncates and the number is
written at `fclose()`. `while(g_running)` and `accept()` are two steps since a
signal fits in between. The polls of an old instance, 200 in a launch and 40 in a
stop, are one step each that finds it gone or gives up. A pid may be
recycled as soon as its process is collected, and the pid file survives a
`Reboot`. After it has bound, a process's launch options are not read again, and
are reset.

`Serial` says that a launch or a control command begins only when no other is in
progress: the protocol uses no lock, and its guarantees hold only then.
`DiskFaults` lets opening the pid file for writing fail.

### CommandLine

A character is a blank, a quote, `|`, `>` or any other one; a word is what it is
made of. `ReadChar` and `EndLine` are `read_line()`, which cuts a line at
`MAX_LINE` and leaves the rest for the next; then the actions follow the loops of
`tokenize()` and `build_pipeline()` character by character and token by token.
`over` names the arrays written past their end, and `heap` counts the
blocks a line has allocated. The properties compare the result with a grammar that
counts quotes and adjacent signs and has no position of its own
(`Starts`, `Extent`, `Groups`).

### Pipeline

`ends` is the set of open pipe ends, as (process, pipe, direction); a child
inherits all of the session's. A stage reads its input to the end and writes
`Output` units into pipes that hold `Cap`; it may also quit at any time. A line is
here its number of stages, which `CommandLine` computes. Background children
(state `job`) stand for what `serverctl start` and `debugelf` leave in the session:
they hold no pipe and need not end. `lost` counts the stages of a line that
`fork()` failed to make, for each of which one wait too many is made.

### Install

The services may take up a queued request at any time, also after the command
has stopped waiting. A reply is the text the first `read()` returns, which may end
right behind the key `res`, or have a word there, or have `SUCCESS` within a longer word;
`Res` and `Taken` are what `atoi()` and `strstr()` make of it. The log is a
sequence of pieces, and a status line is two of them followed by a newline. A
`read()` takes any number of pieces that have arrived; what it took is appended to
the line so far, up to `LineMax` pieces, and processed at each newline. `ScanHex`
models what `sscanf("%x")` does with the characters at the offset the code
computes.

### Base64 and Transfer

`Base64` works with numbers below 64 for the digits, so the tables of the code are
the identity, and all shifts and masks are as in the code. In `Transfer`, `get` reads blocks
of any length up to `GetBuf`, the client relays and ends lines with LF or CR LF,
and each `read()` of `put` returns any part of what has arrived. `whole`
records whether each was a line with its newline: what `put` relies on and TCP
does not promise. A `read()` that finds the client gone (`Hangup`) and one
interrupted by a signal (`Interrupted`) end `put` alike, but after the second the
upload goes on. What is on the wire when `put` is over, `read_line()` takes for commands.

### FileOps

A file system maps paths to directories, files (with an inode, so that a file
open for reading can be the one being written) and links. A session has a stack
of directories being read, as the recursion has. Each system call is one step and
may fail; when `stat()` does, `mkdir()` is tried all the same. `readdir()` returns what was
there when the directory was opened and still is, and perhaps what came or went
later. `start` is the file system when the command began, and `others` what other
sessions have changed since: nothing, made directories, or anything. A disk is
assumed to be a tree (`IsTree`): a root, and everything else in a directory. The
contents of a file are a sequence of `Blocks`, and of holes where a write went past
the end.

### ElfLoader

`kid` holds each child's state under ptrace, the stack it was forked on, the
`NOTE_EXEC` event, and what has been done to it. Under ptrace a child runs, is
`stopped`, has stopped without anybody having waited for it (`unwaited`: `ptrace()`
refuses every request), or is `faulting` at an instruction that `pt_call()` steps
again and again. Every remote call can fail; `Abort` is the error return with
`pt_detach(pid, SIGKILL)`. `Killed` has all that this request can leave: a dead child,
or, since `sys_ptrace()` can fail and its result is not looked at, the child as it
was, marked `spared`; a child that is not `stopped` is spared in any case. Writes of which the
code does not look at the result (the values of the argument block, the
return address) may or may not have happened when the next step begins. `SetEnviron` and `Load` are single steps here, whose insides
are `ElfMemory`; each remote call is a step whose inside is `RemoteCall`. Of `kevent()` the model assumes
what its manual says: an event reports calls made after it was armed, arming it
for a process that has ended yields an error event, and a process that ends
without `execve()` does not report one. A signal may interrupt `kevent()` and every
`waitpid()` of `elfldr_spawn()` and of `execelf`; a child whose making was
interrupted is marked `cut`. A wait within a remote call may be interrupted too
(`CallCut`): the call fails and leaves the child `unwaited`.

### ElfMemory

Addresses and sizes are numbers modulo `Word`, in pages of `PageSize`. An ELF is
reduced to its program headers, ordered as the format wants them; `hi` is
the end of what was written to the mirror, and `prot` says which header's flags a
page has. Whichever call fails, the actions follow the error path of the code:
each mapping is followed to the end.

### RemoteCall

The registers of the stopped process are its stack pointer, where its instruction
pointer is, and what its `rax` holds. Its function pushes and pops and returns, one
instruction per `PT_STEP`; in between it may be killed. An instruction that faults,
the first one at the address 0 of a function that `pt_resolve()` did not find included,
is a stop like any other: `pt_step()` does not look at the status, and steps again.
Each request goes through
`sys_ptrace()`: two credentials saved, raised, lowered, and each of these can fail.
A signal may interrupt the wait for a step.

## Runs

Passing runs:

| Run | Bounds | Shows |
|---|---|---|
| `lifecycle_serial` | 3 pids, 1 port, serial | `ServerIsNamed`: the process that serves is named by the pid file; `StatusTruthful`: status finds it; `ImplementsSlot`: refinement of `SingleServer` |
| `lifecycle_racing` | 2 pids, 1 port, races, disk faults | `ListenerHeldByServer`, `GracefulEnd`, `LaunchSettles` |
| `command_line` | lines of up to 6 characters, 4 tokens, 2 commands | `ScannedAsWritten`, `GroupedAsWritten`: the line means what it says; `StoredInBounds`, `WellFormedFreed`: memory; `ParsingEnds` |
| `pipeline` | 3 children, 2 pipes, lines of up to 3 stages, 2 units through pipes of 1, 1 disturbance | `LeftBehind`, `LineCompletes` |
| `install` | time-out 2, 5 pieces queued, lines of 2 pieces, 2 of noise | `StartedAsAnswered`, `SeenAsSent`, `Returns` |
| `transfer` | files of up to 4 bytes out of 3 values, lines of up to 8 characters | `CopiedAsSent`, `DataNotRun`, `PutReturns` |
| `file_ops` | 2 sessions, a command each out of 12, on 10 disks of depth 3 (306,402 states) | `RemovesOnlyItsTree`, `CopiesAsFound`, `MakesWholePath`, `CommandsEnd` |
| `elf_loader` | 2 children | `ReleasedIsComplete`, `NotStranded`, `StackOutlivesUse`, `LoadingSettles` |
| `elf_memory` | pages of 4 in a space of 32, 3 strings, 3 headers | `EnvironFits`, `WithinReserve`, `FlagsOfSegment`, `NothingLeft` |
| `remote_call` | stack of 4, 3 pushes | `CallIsClean`, `CredentialsLowered`, `CallReturns` |

`TypeOK` is checked too, but for `lifecycle_racing`, `transfer` and `file_ops`, and
`elf_loader`, where it is part of a proved invariant. Process ids are
symmetric in `lifecycle_serial`, which checks invariants and a step-by-step
refinement; the runs that check liveness use no symmetry.

Why the bounds suffice: two pids give an old and a new server, or a server and
its session that starts another; the third gives a server, a launch and an
unrelated program or a daemon's parent at once. Two bind attempts distinguish the
first, a middle and the last round. Three stages have a first, an inner and a last
command, and a line of two leaves the third child for a background one. Two units through a pipe
of one make a writer block. Two children let one spawn follow another whose child
still runs. Six characters hold two commands, a redirection and a blank, four
quotes around a sign, and one token more than fits. Four bytes are a full triple and a padded one, and the
values 0, 90 and 255 have bits of every kind in each group of six. A line of
eight characters does not fit a read of seven, as 4096 do not fit one of 4095.
Depth 3 has a directory within a directory and a file in it; the disks have a
link out of a tree, one to a file, one to nothing and one back to the root, a file
where the copy of an empty directory belongs, and a file with two names. Three headers give a segment
with two neighbours, at page boundaries and off them.

Runs that find a disagreement between what the program or its documentation says
and what the code does:

| Run | Shows |
|---|---|
| `lifecycle_force` | A launch without `-F` replaces a running server, since `main()` takes a readable pid file for `-F`. |
| `install_success` | Success is never recognised: the scan starts at the `x` of `0x`. |

Other behaviours of the code that the models contain, and that the properties
above therefore except or do not claim:

- After two launches raced, `serverctl status` may deny a live server
  (`src/sshsvr.c:105`): `StatusTruthful` fails if `Serial` is `FALSE`.
- After a reboot, a launch terminates an unrelated program under a recycled pid as
  "existing instance" (`src/sshsvr.c:128`).
- SIGTERM between the test of `g_running` and `accept()` does not stop the server
  until a client connects (`src/sshsvr.c:227`).
- After a failed `fork()` the wait that is left over blocks on a program started
  with `debugelf` for as long as that runs (`src/session.c:137`, `172`):
  `LineCompletes` names this wait (`Starved`).
- `install` reports a start for a refusal whose first segment ends behind `"res":"` or
  has a word there, of which `atoi()` makes 0 (`src/builtins.c:614`), and for one
  with `SUCCESS` anywhere in it (`src/builtins.c:663`).
- `execelf` waits for ever if the child calls `execve()` before the event is
  armed, or ends before it (`shsrv/elfldr.c:684`); if the system program does not
  reach the breakpoint (`shsrv/elfldr.c:743`); and if a remote function faults or was not found,
  since `pt_call()` then steps for ever (`shsrv/pt.c:325`, `464`-`504`).
  `LoadingSettles` and `CallReturns` name these waits (`Stuck`, `Faulting`).
- A child stays stopped when the request to kill it fails, or is refused because
  a wait within a remote call was interrupted (`shsrv/elfldr.c:546`, `706`-`746`;
  `shsrv/pt.c:185`).
- A program is released although values of its argument block, or its return
  address, could not be written (`shsrv/elfldr.c:348`-`403`, `434`).
- The wait for an installation counts silent seconds only (`src/builtins.c:709`); a
  time-out is told as a failed installation; "not reachable" may be told while a
  service takes up the queued request late.
- An upload whose lines do not arrive one per `read()` is decoded wrongly or ends
  in a decode error, and a full line of `get` is longer than `put` reads at once
  (`src/builtins.c:308`). A client that sends CR LF gets a decode error at its
  first line. After an error, and after a signal that interrupts the `read()`, the rest of the
  upload is run as commands.
- A line of `MAX_TOKS` tokens or more writes one element past `toks`
  (`src/session.c:67`). Quoted signs are taken for operators. Malformed lines leak.
- An ELF that is not linked at 0 is written past its mirror (`shsrv/elfldr.c:102`).
- A failing `kernel_set_ucred_*()` leaves the credentials raised
  (`shsrv/pt.c:53`).
- `rm -r` of a path that leads over a link removes that link too if it lies in the
  tree. The path then leads elsewhere, where another session may have put a
  directory: `rm -r` removes that one and reports success, although the tree it was
  given is still there (`src/builtins.c:134`). `RemovesOnlyItsTree` claims
  completeness only for paths that do not run over such a link (`Loops`).
- `cp` of a file onto itself, or onto another name of it, empties it
  (`src/builtins.c:191`). `cp -r` does not look at what `mkdir()` returns
  (`src/builtins.c:206`): an empty directory of the source that finds a file in its
  place is missing from the copy, and no error is told. `CopiesAsFound` therefore claims all
  files, but directories only if each could be made or was there (`Fits`). `mkdir -p` says
  nothing if a dangling link is in its place (`src/builtins.c:182`).
- `waitpid()` also returns for a child that has ended, where the comment at
  `shsrv/elfldr.c:701` takes it for stopped.

Fairness: `FairSpec` of each module asks only that a runnable process of ours is
scheduled in the end (weak fairness per process). In `Lifecycle` this includes
polls that end after a fixed number of rounds; in `Install`, seconds that pass
while nothing arrives; in `Pipeline`, a stage that reads and writes what it can; in `CommandLine`,
`Transfer` and `FileOps`, sessions that are not blocked; in `ElfLoader`, the command, and its
child up to `execve()`; in `RemoteCall`, the caller and the instruction being stepped,
of which a function has finitely many unless one faults.
`Transfer` also assumes that `get` and the client go on sending, since `put` waits
for an upload without a time-out. Otherwise nothing is assumed of clients, operators, services, logs, signals or crashes, and
no program run by `execelf` or `debugelf`, and no background child, is assumed to end, nor the
startup code of the system program to reach the breakpoint.

`CHECK_DEADLOCK FALSE` is set where a behaviour may end: for `Install` and
`Transfer`, whose command ends; `CommandLine`, whose session ends; `FileOps`, whose
commands are bounded; `ElfMemory`, which is one loading; `RemoteCall`, whose
process may be out of stack; and `ElfLoader`, whose command may wait for an event
that never comes.

## Proofs

`LifecycleProofs`, for every set of pids and ports and every number of attempts:

- `TypeCorrect`: `Spec => []TypeOK`. `TypeOK` alone is not inductive: nothing in it
  keeps `tries` within its bound. `TypeInv` adds that the attempts are exhausted
  only at the labels after the last one.
- `ListenerOnlyInServer`, `ServerEndsInOrder`: `Spec => []ListenerHeldByServer` and
  `Spec => GracefulEnd`, with races and disk faults. The same invariant says at which
  labels an open listening socket can be (`Holding`: a server's, and a child's
  before it closes its copy), and from which on SIGTERM is handled (`Armed`); a
  label of a server that loses its handler would be one where the default action
  ends it.
- `ServerNamed`: with `Serial` and no disk faults, `Spec => []ServerIsNamed`. The
  inductive invariant `SlotInv` has three parts: at most one launch or command is in flight;
  a serving process is the one the pid file names; and what the one in flight knows: a
  launch that is committed (past the removal of the pid file) or a stop about to unlink finds no server, and one that has read
  a pid while a server is up has read that server's.
- `StatusFindsServer`: with the same assumptions, `Spec => []StatusTruthful`. The
  server that `SlotInv` says is named is alive, and a pid file that is read while
  nobody is writing holds a number.
- `SlotImplemented`: with the same assumptions, `Spec => ImplementsSlot`. Every step
  either leaves owner and pid file alone, or is the take, release or rewrite of
  the abstract slot, by the same invariant.

`CommandLineProofs`, for every line and every limit on characters, tokens and
commands:

- `CommandLineTypes`: `Spec => []TypeOK`. `TypeInv` adds that the scan is within the
  line, and that a command is begun only where there is room for it.
- `TokensAsWritten`: `Spec => []ScannedAsWritten`. `ScanInv` relates the scanner to the
  grammar: between tokens, `toks` holds what begins before `pos` (`Recorded`),
  and `pos` is where the grammar may begin a token (`Ready`: unquoted, and not within `>>`);
  within a word, `inq` is the parity of the quotes before `pos`, and no
  character since `start` was a break. The lemmas on the grammar (`QuotedNext`,
  `AdjacentNext`, `WordIs`, `SignIs`) say what one more character changes in it.
- `StoresWithinArrays`: `Spec => []StoredInBounds`, since an array is full only
  if as many tokens were in the line.
- `WordsAsGrouped`: `Spec => []GroupedAsWritten`. `BuildInv` says of the tokens consumed
  so far: the last file named is the redirection; between commands all words are
  at their place in the command of their rank (`Closed`); within a command
  those after the last sign are in `argv[]` at their place, the rest as before (`Open`).
  A group is complete when its command is closed because a sign, or the end,
  follows.
- `WellFormedLinesFreed`: `Spec => WellFormedFreed`. `HeapInv` gives the number of blocks in
  terms of tokens, words, commands and file, if the line is well formed: then
  no word was dropped, no command is closed without words, and there is one file at most.

`PipelineProofs`, for every number of children, pipes, stages and disturbances:

- `PipelineTypes`: `Spec => []TypeOK`; `SessionInv` adds that there is a pipe
  less than there are stages when these are forked, and no more of them lost
  than were tried.
- `FewLeftBehind`: `Spec => []LeftBehind`. `CountInv` counts: while stages are forked,
  the children are at most the disturbances and the stages so far; while waiting,
  children and waits done are at most disturbances and stages.

`InstallProofs`, for every time-out, length of a line and amount of noise:

- `StartedOnlyIfAnswered`: `Spec => []StartedAsAnswered`. `RequestInv` says that a
  service answers only what it was asked, in a text that goes with what it did
  (`Says`), and that the watch begins only after an acceptance or a refusal that
  reads like one.
- `StatusAsSent`, `InstallTypes`: `Spec => []SeenAsSent` and `Spec => []TypeOK`.
  `StreamInv` takes the line so far, the buffer and the log for one stream of
  pieces: it ends with a newline, and a state and an error number between
  two newlines were sent together. That the line so far drops pieces for which
  it has no room leaves this true (`Thinned`).

`FileOpsProofs`, for every set of names, sessions, commands and disks:

- `RemovesItsTree`: `Spec => []RemovesOnlyItsTree`. The invariant `RmInv` says of an
  rm -r, as long as others only make directories: nothing outside its tree
  has changed and no link has come (`Spared`); the path it is at, and every path on its stack, leads
  into the tree (`Removing`). What the second part rests on is how paths lead over links (`Walk`):
  only links matter (`WalkSame`); when a link goes, a path leads where it did, or to
  the place of the link or below, where nothing is (`WalkLinkGone`); and a path that runs over no
  link of the tree leads where it did at the start (`WalkUnlooped`). The
  attempt to prove the completeness of rm -r without this last condition led to
  the behaviour described above, of which TLC then found an instance.
- `MkdirMakesPath`: `Spec => []MakesWholePath`. `MkInv` says that all prefixes before
  the current one are directories, unless a call failed, and that no prefix is
  anything else than a directory or free; so no prefix leads over a link (`WalkPlain`).

- `CopiesTheTree`: `Spec => []CopiesAsFound`. A second invariant, `CpAll`, is inductive
  given the first. Of a copy that has met no error, as long as others only make
  directories, it says: what was there is there, and what has come are directories
  and copies of files, so that no file gets a second name and none of the source is
  written (`Grown`); where it is in the source, and what it knows there: at `copy`, that the first
  `pos` blocks have been copied (`Knows`, `Placed`, `Begun`); that every directory on the stack
  was seen with all its entries, and has been made (`Scanned`); and that whatever the source had is
  `Copied`, or still to come (`Todo`): below the path it is at, or below an entry that an
  open directory has not returned. At the end the stack is empty and nothing is to
  come. That a path below the destination leads where it is written, and no two paths of the source
  are copied to one place, are `WayPlain`, `CopyWalk` and `SameCopy`. An earlier form of the property claimed
  every directory, and held on the disks then tried; its proof failed at `mkdir()`,
  which showed the behaviour described above.

`TransferProofs`, for every file, every length of its blocks and every cutting of
the stream into reads:

- `UploadCopied`: `Spec => []CopiedAsSent`. First the codec: what `EncodeBlock` makes
  of any sequence of bytes, `DecodeBlock` takes back (`DecodedAsEncoded`), group by group; a group is arithmetic
  on three bytes and four digits, padded or not (`QuadDecodes`). Then the
  invariant `Inv`: the wire holds lines, each the encoding of the next block of the
  file, then the dot, then the command typed behind it (`Framed`); the places
  where one line ends and the next begins are a set `R` of pairs of characters sent and
  bytes encoded, and while each `read()` returns one line, what `put` has read and
  written is one of those pairs. So what it reads next is a line of data, which it decodes to the next block,
  or the dot, and then the file is complete (`Kept`, `Ended`).
- `UploadNotRun`: `Spec => []DataNotRun`, from the same invariant: after the dot the
  session reads on behind it, where there is nothing but the command. It excepts the two ways
  out of `put` with the upload still coming that a client with LF can meet: a failed
  write and an interrupted read.

`LoaderProofs`, about `ElfLoader`, for every set of children:

- `CompleteRelease`: `Spec => []ReleasedIsComplete`, interrupts included. The
  invariant `SpawnInv` says what each label implies of the current child: from
  `dress` on the breakpoint is gone, at `detach` a stopped child has all that the
  code makes sure of (`Vital`), after
  `execve()` no child is in `elfldr_rfork_entry()` any more, and only a continued
  child runs.
- `NoneStranded`, `StackSafe`: `Spec => []NotStranded` and
  `Spec => []StackOutlivesUse`. Both except a child that is `cut`, because an
  interrupted wait at `shsrv/elfldr.c:684`, `691` or `743` does strand it, and the
  first one that is `spared`, because nobody looks at whether it was killed (`KilledIs`). `QuietInv`
  adds that children other than the current one are released, dead, collected,
  cut or spared: every way out of the spawn with a traced child asked for its death.

`ElfMemoryProofs`, for every page size, width of a word, environment and ELF within
the assumptions:

- `NothingLeftMapped`: `Spec => []NothingLeft`. `StageInv` says at each label which of
  the three mappings may be there.
- `EnvironmentFits`: `Spec => []EnvironFits`. `EnvironInv` has the room the
  first strings take (`Sums`): the first loop adds it up, and the second loop
  uses up the same. It rests on the assumption that an environment does not
  wrap a word, which its limit gives.
- `ImageWithinReserve`: `Spec => []WithinReserve`, for ELFs linked at 0. `BoundsInv` says that
  `max` is no less than the end of any segment seen, and, rounded, is the
  size reserved.
- `FlagsAsLoaded`: `Spec => []FlagsOfSegment`. `FlagInv` says it of the
  headers protected so far; that a later segment does not
  touch the pages of an earlier one it does not share is where the rounding of
  sizes comes in (`CoversSegment`).
- `ElfMemoryTypes`: `Spec => []TypeOK`, sizes in whole pages and in a word included.

`LoaderProofs`, about `RemoteCall`, for every size of the stack and every number of
pushes (its specification is `CallSpec`, so that both modules can be extended at
once):

- `CredentialsReturn`: `CallSpec => []CredentialsLowered`. `PtraceInv` says at each step
  of `sys_ptrace()` that what it has saved is its caller's own, and what it has
  lowered so far.
- `CallTypes`, `CleanCall`: `CallSpec => []CallTypeOK` and `CallSpec => []CallIsClean`. Neither is
  inductive: `CallInv` adds, for each label of `pt_call()` and each state of the
  process, whether the function is running below its frame or has returned,
  whether the saved registers are the original ones (`FrameInv`), and which answers
  of `sys_ptrace()` may be outstanding (`AnswerInv`). A call whose step was
  interrupted leaves a process that is never waited for, so that all later
  requests fail: without the state of the process the invariant is false.

The assumptions are the `ConstantsAssumption` of each module (in `FileOps`
`BoundsAssumption`, `DisksAssumption` and `CommandsAssumption`, in `RemoteCall`
`CallAssumption`), which TLC evaluates
in every run. In `Transfer` the buffer of `put` holds exactly the encoding of the one of `get`,
as 4096 and 3072 do. In `ElfMemory` a page is smaller than the address space and
divides it, as 16 KiB and 2^64 do, and no segment or environment tried wraps around. TLC checked
the inductive invariants on the instances of the runs before they were proved
(but `HeapInv`, whose sums it cannot choose, and `Framed`, whose `R` it cannot).

Where a fact is about all natural numbers or all positions of a sequence (that
a least one exists, that the sums `Words` are what their equation says, for
any commands, what a path of any length leads to, that all groups of a block decode), it is proved from the well-foundedness of `<`, by a
least counterexample (`LeastNatural`, `SummedExists`, `WordsOfIs`, `StopsExist`, `PathInduction`, `DecodedAsEncoded`): the library's
rule of induction is beyond the provers.

Only model-checked: all liveness (`LaunchSettles`, `LineCompletes`, `Returns`,
`LoadingSettles`, `ParsingEnds`, `PutReturns`, `CommandsEnd`, `CallReturns`), which
TLAPS does not handle under fairness. The two runs that find a disagreement are
counterexamples, and need no proof.

## Not modelled

- `ps`, `klogtail`, `help`: output only. `util.c` and `proc_exec.c` are not built.
  `syscall.h` is a table.
- Option parsing, messages, ports out of range, `SSHSVR_PORT` (a start may use any
  port).
- The zombies a server never collects: in the model somebody does.
- `ls`, `cat` and `pwd`, which change nothing, and `cd`, which is one call.
- The length of paths in characters, and with it buffers of 1024 that cut them.
- The contents of the payload arguments and the addresses of the heap.

## What is left

All safety properties of the passing runs are proved. What could be added: the contents of the payload arguments
(`payload_args_t`) and the remapping of the heap in `ElfMemory`, buffers of paths
(1024 characters) in `FileOps`, and, with a prover for it, liveness.
