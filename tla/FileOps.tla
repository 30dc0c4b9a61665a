------------------------------ MODULE FileOps ------------------------------
(***************************************************************************)
(* The commands that change the file system: rm, mkdir, cp and mv, and the *)
(* walks of rm -r, cp -r and mkdir -p, one system call at a time. Sessions *)
(* are processes of their own and share the file system, so that what one  *)
(* has looked at may have changed when it acts. Any call may fail.         *)
(***************************************************************************)
EXTENDS Naturals, Sequences, FiniteSets, SequencesExt, Functions

CONSTANTS
    Names,
    Depth,      \* bound on the length of a path
    Inodes,     \* files there is room for
    Blocks,     \* what a block of a file can be
    Sessions,
    Commands,   \* records [op, src, dst]; op is rm, rm -r, mkdir, mkdir -p,
                \* cp, cp -r or mv
    Disks,      \* initial file systems: records [fs, data]
    MaxCmds,    \* bound on the commands of one session
    None

VARIABLES
    fs,     \* path |-> node
    data,   \* inode |-> contents, a sequence of blocks and holes
    st,     \* what each session is doing
    ran     \* commands each has run

vars == <<fs, data, st, ran>>

Path == UNION {[1..m -> Names] : m \in 0..Depth}

Dir     == [kind |-> "dir"]
File(i) == [kind |-> "file", ino |-> i]
Link(p) == [kind |-> "link", to |-> p]
Node    == {Dir} \cup {File(i) : i \in Inodes} \cup {Link(p) : p \in Path}

KindIn(f, p) == IF p \in DOMAIN f THEN f[p].kind ELSE "none"

\* A root, and everything else in a directory.
IsTree(f) ==
    /\ DOMAIN f \subseteq Path /\ <<>> \in DOMAIN f /\ f[<<>>] = Dir
    /\ \A p \in DOMAIN f : f[p] \in Node /\ (p # <<>> => KindIn(f, Front(p)) = "dir")

ASSUME BoundsAssumption == Depth \in Nat /\ MaxCmds \in Nat /\ None \notin Inodes

\* Contents of files.
Data == [Inodes -> Seq(Blocks \cup {"hole"})]

ASSUME DisksAssumption == \A d \in Disks : IsTree(d.fs) /\ d.data \in Data

\* mkdir -p is given a name.
ASSUME CommandsAssumption ==
    \A c \in Commands :
        /\ c \in [op : {"rm", "rm -r", "mkdir", "mkdir -p", "cp", "cp -r", "mv"},
                  src : Path, dst : Path]
        /\ c.op = "mkdir -p" => c.src # <<>>

-----------------------------------------------------------------------------
(* The file system, as the calls below see it. *)

Kind(p) == KindIn(fs, p)

\* Where a path leads: a link on the way is followed, one at its end if the
\* call follows links. A link does not lead to another.
Walk(f, p, follow) ==
    LET W[m \in 0..Len(p)] ==
          IF m = 0 THEN <<>>
          ELSE LET q == Append(W[m - 1], p[m])
               IN IF KindIn(f, q) = "link" /\ (follow \/ m < Len(p)) THEN f[q].to ELSE q
    IN W[Len(p)]

Here(p)  == Walk(fs, p, FALSE)
There(p) == Walk(fs, p, TRUE)

Below(f, p)    == {q \in DOMAIN f : IsPrefix(p, q)}
Entries(p)     == {x \in Names : Append(p, x) \in DOMAIN fs}
HasRoom(p)     == p # <<>> /\ Len(p) <= Depth /\ Kind(p) = "none" /\ Kind(Front(p)) = "dir"
Extended(p, x) == [q \in DOMAIN fs \cup {p} |-> IF q = p THEN x ELSE fs[q]]
Without(ps)    == Restrict(fs, DOMAIN fs \ ps)

\* rename(): the node and all below it get new names.
CanRename(p, q) ==
    /\ Kind(p) # "none" /\ p # <<>> /\ ~IsPrefix(p, q)
    /\ \/ HasRoom(q)
       \/ Kind(p) # "dir" /\ Kind(q) \in {"file", "link"}
       \/ Kind(p) = "dir" /\ Kind(q) = "dir" /\ q # <<>> /\ Entries(q) = {}
    /\ \A x \in Below(fs, p) : Len(x) - Len(p) + Len(q) <= Depth

Renamed(p, q) ==
    LET moved == {q \o SubSeq(x, Len(p) + 1, Len(x)) : x \in Below(fs, p)}
    IN [x \in (DOMAIN fs \ Below(fs, p)) \cup moved |->
          IF x \in moved THEN fs[p \o SubSeq(x, Len(q) + 1, Len(x))] ELSE fs[x]]

\* Files with a name or an open descriptor.
InUse == {fs[p].ino : p \in {q \in DOMAIN fs : fs[q].kind = "file"}}
         \cup {st[s].in : s \in Sessions} \cup {st[s].out : s \in Sessions}

-----------------------------------------------------------------------------
NoCmd == [op |-> "none", src |-> <<>>, dst |-> <<>>]

Idle == [pc |-> "idle", cmd |-> NoCmd, at |-> NoCmd, k |-> 0, stack |-> <<>>,
         in |-> None, out |-> None, pos |-> 0, res |-> "none",
         start |-> None, others |-> "nothing", failed |-> FALSE]

Init ==
    /\ \E d \in Disks : fs = d.fs /\ data = d.data
    /\ st = [s \in Sessions |-> Idle]
    /\ ran = [s \in Sessions |-> 0]

\* The session goes on as r, having changed nothing.
Go(s, r) ==
    /\ st' = [st EXCEPT ![s] = r]
    /\ UNCHANGED <<fs, data, ran>>

\* It has changed the file system, which commands under way may notice.
\* Whether all that others did to them was to make directories is recorded.
Change(s, f, d, how, r) ==
    /\ fs' = f /\ data' = d
    /\ st' = [x \in Sessions |->
                IF x = s THEN r
                ELSE IF st[x].pc = "idle" \/ st[x].others = "anything" THEN st[x]
                ELSE [st[x] EXCEPT !.others = IF st[x].pc = "done" THEN "anything" ELSE how]]
    /\ UNCHANGED ran

\* A function returns 0: to the scan of the directory above, or for good.
Ok(r) == [r EXCEPT !.pc = IF r.stack = <<>> THEN "done" ELSE "scan",
                   !.res = IF r.stack = <<>> THEN "ok" ELSE "none",
                   !.in = None, !.out = None, !.pos = 0]

\* It returns -1, and so does every function that called it; the command
\* prints an error.
Err(r) == [r EXCEPT !.pc = "done", !.res = "error", !.stack = <<>>,
                    !.in = None, !.out = None, !.pos = 0]

\* The next command; of several arguments, each is as a command of its own.
Begin(s, c) ==
    /\ st[s].pc = "idle"
    /\ ran[s] < MaxCmds
    /\ ran' = [ran EXCEPT ![s] = @ + 1]
    /\ st' = [st EXCEPT ![s] =
                [Idle EXCEPT !.cmd = c, !.at = c, !.start = [fs |-> fs, data |-> data],
                   !.pc = CASE c.op \in {"rm -r", "cp -r"} -> "visit"
                            [] c.op = "cp" -> "open"
                            [] c.op = "mkdir -p" -> "stat"
                            [] OTHER -> "call",
                   !.k = IF c.op = "mkdir -p" THEN 1 ELSE 0]]
    /\ UNCHANGED <<fs, data>>

End(s) == st[s].pc = "done" /\ Go(s, Idle)

\* A system call fails that might have succeeded.
CallFails(s) ==
    /\ st[s].pc \in {"call", "visit", "opendir", "rmdir", "unlink", "open", "create", "copy"}
    /\ Go(s, [Err(st[s]) EXCEPT !.failed = TRUE])

-----------------------------------------------------------------------------
(* cmd_rm(), cmd_mkdir() and cmd_mv() without options: one call. *)

Unlink(s, p) ==
    LET q == Here(p)
    IN IF Kind(q) \in {"file", "link"}
       THEN Change(s, Without({q}), data, "anything", Ok(st[s]))
       ELSE Go(s, Err(st[s]))

Mkdir(s, p) ==
    LET q == Here(p)
    IN IF HasRoom(q)
       THEN Change(s, Extended(q, Dir), data, "directories", Ok(st[s]))
       ELSE Go(s, Err(st[s]))

Rename(s, p, q) ==
    IF Here(p) = Here(q) /\ Kind(Here(p)) # "none" THEN Go(s, Ok(st[s]))
    ELSE IF CanRename(Here(p), Here(q))
         THEN Change(s, Renamed(Here(p), Here(q)), data, "anything", Ok(st[s]))
         ELSE Go(s, Err(st[s]))

Call(s) ==
    /\ st[s].pc = "call"
    /\ LET c == st[s].cmd
       IN \/ c.op = "rm"    /\ Unlink(s, c.src)
          \/ c.op = "mkdir" /\ Mkdir(s, c.src)
          \/ c.op = "mv"    /\ Rename(s, c.src, c.dst)

-----------------------------------------------------------------------------
(* mkdir -p: ensure_dir() for each prefix, then for the whole. *)

\* The result of ensure_dir() for a prefix is ignored.
Ensured(r, good) ==
    IF r.k < Len(r.cmd.src) THEN [r EXCEPT !.k = @ + 1, !.pc = "stat"]
    ELSE IF good THEN Ok(r) ELSE Err(r)

Stat(s) ==
    /\ st[s].pc = "stat"
    /\ LET r == st[s]
           kind == Kind(There(SubSeq(r.cmd.src, 1, r.k)))
       IN Go(s, IF kind = "none" THEN [r EXCEPT !.pc = "mkdir"]
                ELSE Ensured(r, kind = "dir"))

\* For whatever reason stat() fails, mkdir() is tried.
StatFails(s) ==
    /\ st[s].pc = "stat"
    /\ Go(s, [st[s] EXCEPT !.pc = "mkdir", !.failed = TRUE])

\* Fault: a directory that was made in the meantime is an error.
MakeStrict(s) ==
    /\ st[s].pc = "mkdir"
    /\ LET r == st[s]
           p == Here(SubSeq(r.cmd.src, 1, r.k))
       IN IF HasRoom(p)
          THEN Change(s, Extended(p, Dir), data, "directories", Ensured(r, TRUE))
          ELSE Go(s, Ensured(r, FALSE))

\* mkdir(); EEXIST is not an error.
Make(s) ==
    /\ st[s].pc = "mkdir"
    /\ LET r == st[s]
           p == Here(SubSeq(r.cmd.src, 1, r.k))
       IN IF HasRoom(p)
          THEN Change(s, Extended(p, Dir), data, "directories", Ensured(r, TRUE))
          ELSE Go(s, Ensured(r, Kind(p) # "none"))

MakeFails(s) ==
    /\ st[s].pc = "mkdir"
    /\ Go(s, [Ensured(st[s], FALSE) EXCEPT !.failed = TRUE])

-----------------------------------------------------------------------------
(* recurse_rm() and recurse_cp(). *)

\* Fault: stat() for lstat().
LooksFollowed(p) == Kind(There(p))

\* What lstat() says.
Looks(p) == Kind(Here(p))

VisitRm(s) ==
    /\ st[s].pc = "visit" /\ st[s].cmd.op = "rm -r"
    /\ LET r == st[s]
           kind == Looks(r.at.src)
       IN Go(s, CASE kind = "none" -> Err(r)
                  [] kind = "dir"  -> [r EXCEPT !.pc = "opendir"]
                  [] OTHER         -> [r EXCEPT !.pc = "unlink"])

\* A directory is made at the destination, if that can be.
VisitCp(s) ==
    /\ st[s].pc = "visit" /\ st[s].cmd.op = "cp -r"
    /\ LET r == st[s]
           kind == Looks(r.at.src)
       IN Go(s, CASE kind = "none" -> Err(r)
                  [] kind = "dir"  -> [r EXCEPT !.pc = "mkdst"]
                  [] OTHER         -> [r EXCEPT !.pc = "open"])

MakeDst(s) ==
    /\ st[s].pc = "mkdst"
    /\ LET p == Here(st[s].at.dst)
           r == [st[s] EXCEPT !.pc = "opendir"]
       IN \/ HasRoom(p) /\ Change(s, Extended(p, Dir), data, "directories", r)
          \/ Go(s, [r EXCEPT !.failed = @ \/ HasRoom(p)])

OpenDir(s) ==
    /\ st[s].pc = "opendir"
    /\ LET r == st[s]
           p == There(r.at.src)
           frame == [src |-> r.at.src, dst |-> r.at.dst, first |-> Entries(p), seen |-> {}]
       IN Go(s, IF Kind(p) # "dir" THEN Err(r)
                ELSE [r EXCEPT !.pc = "scan", !.stack = Append(@, frame)])

Top(s) == Last(st[s].stack)

\* Fault: an entry can be returned again.
ReadDirAgain(s, x) ==
    /\ st[s].pc = "scan"
    /\ x \in (Top(s).first \cup Entries(There(Top(s).src))) \ Top(s).seen
    /\ Go(s, [st[s] EXCEPT !.pc = "visit",
                !.at.src = Append(Top(s).src, x), !.at.dst = Append(Top(s).dst, x)])

\* readdir() returns what was there when the directory was opened, unless it
\* has gone since, and perhaps what came or went later.
ReadDir(s, x) ==
    /\ st[s].pc = "scan"
    /\ x \in (Top(s).first \cup Entries(There(Top(s).src))) \ Top(s).seen
    /\ Go(s, [st[s] EXCEPT !.pc = "visit",
                !.at.src = Append(Top(s).src, x), !.at.dst = Append(Top(s).dst, x),
                !.stack[Len(st[s].stack)].seen = @ \cup {x}])

\* The end of the directory; rm -r then removes it.
CloseDir(s) ==
    /\ st[s].pc = "scan"
    /\ Top(s).first \cap Entries(There(Top(s).src)) \subseteq Top(s).seen
    /\ LET r == [st[s] EXCEPT !.stack = Front(@), !.at.src = Top(s).src, !.at.dst = Top(s).dst]
       IN Go(s, IF r.cmd.op = "rm -r" THEN [r EXCEPT !.pc = "rmdir"] ELSE Ok(r))

\* rmdir() fails unless the directory is empty, unlink() on a directory.
RemoveNode(s) ==
    /\ st[s].pc \in {"rmdir", "unlink"}
    /\ LET q == Here(st[s].at.src)
           can == IF st[s].pc = "rmdir" THEN Kind(q) = "dir" /\ q # <<>> /\ Entries(q) = {}
                  ELSE Kind(q) \in {"file", "link"}
       IN \/ can /\ Change(s, Without({q}), data, "anything", Ok(st[s]))
          \/ ~can /\ Go(s, Err(st[s]))

-----------------------------------------------------------------------------
(* copy_file(). *)

\* A directory can be opened, but not read.
OpenIn(s) ==
    /\ st[s].pc = "open"
    /\ LET r == st[s]
           p == There(r.at.src)
       IN Go(s, CASE Kind(p) = "file" -> [r EXCEPT !.pc = "create", !.in = fs[p].ino]
                  [] Kind(p) = "dir"  -> [r EXCEPT !.pc = "create"]
                  [] OTHER            -> Err(r))

\* O_CREAT | O_TRUNC.
Create(s) ==
    /\ st[s].pc = "create"
    /\ LET r == st[s]
           p == There(r.at.dst)
           Opened(i) == [r EXCEPT !.pc = "copy", !.out = i]
       IN \/ /\ Kind(p) = "file"
             /\ Change(s, fs, [data EXCEPT ![fs[p].ino] = <<>>], "anything", Opened(fs[p].ino))
          \/ /\ HasRoom(p) /\ Inodes \ InUse # {}
             /\ LET i == CHOOSE j \in Inodes : j \notin InUse
                IN Change(s, Extended(p, File(i)), [data EXCEPT ![i] = <<>>],
                          "anything", Opened(i))
          \/ /\ Kind(p) # "file" /\ (~HasRoom(p) \/ Inodes \subseteq InUse)
             /\ Go(s, Err(r))

\* A write at an offset behind the end leaves a hole.
Written(b, pos, x) ==
    [m \in 1..(IF Len(b) <= pos THEN pos + 1 ELSE Len(b)) |->
        IF m = pos + 1 THEN x ELSE IF m <= Len(b) THEN b[m] ELSE "hole"]

\* Fault: each block is written where the first one was.
CopyBlockInPlace(s) ==
    /\ st[s].pc = "copy" /\ st[s].in # None
    /\ LET r == st[s]
       IN /\ r.pos < Len(data[r.in])
          /\ Change(s, fs, [data EXCEPT ![r.out] = Written(@, 0, data[r.in][r.pos + 1])],
                    "anything", [r EXCEPT !.pos = @ + 1])

\* One block from descriptor to descriptor.
CopyBlock(s) ==
    /\ st[s].pc = "copy" /\ st[s].in # None
    /\ LET r == st[s]
       IN /\ r.pos < Len(data[r.in])
          /\ Change(s, fs, [data EXCEPT ![r.out] = Written(@, r.pos, data[r.in][r.pos + 1])],
                    "anything", [r EXCEPT !.pos = @ + 1])

CopyEnds(s) ==
    /\ st[s].pc = "copy"
    /\ LET r == st[s]
       IN \/ r.in = None /\ Go(s, Err(r))
          \/ r.in # None /\ Len(data[r.in]) <= r.pos /\ Go(s, Ok(r))

-----------------------------------------------------------------------------
Step(s) ==
    \/ End(s) \/ Call(s)
    \/ Stat(s) \/ StatFails(s) \/ Make(s) \/ MakeFails(s)
    \/ VisitRm(s) \/ VisitCp(s) \/ MakeDst(s) \/ OpenDir(s)
    \/ (\E x \in Names : ReadDir(s, x)) \/ CloseDir(s) \/ RemoveNode(s)
    \/ OpenIn(s) \/ Create(s) \/ CopyBlock(s) \/ CopyEnds(s)
    \/ CallFails(s)

Next == \E s \in Sessions : Step(s) \/ (\E c \in Commands : Begin(s, c))

Spec == Init /\ [][Next]_vars

\* Some busy session is scheduled.
Steps == \E s \in Sessions : Step(s)

FairSpec == Spec /\ WF_vars(Steps)

-----------------------------------------------------------------------------
(* Properties. *)

\* Only directories were made by others since the command began.
Calm(r) == r.pc # "idle" /\ r.others # "anything"

Was(r, p) == KindIn(r.start.fs, p)

\* The path leads over links, or to one.
ViaLink(r, p) == \E m \in 1..Len(p) : Was(r, Walk(r.start.fs, SubSeq(p, 1, m), FALSE)) = "link"

\* The path leads over a link that lies in the tree it leads to.
Loops(r, p) ==
    LET root == Walk(r.start.fs, p, FALSE)
        Via(m) == Walk(r.start.fs, SubSeq(p, 1, m), FALSE)
    IN \E m \in 1..(Len(p) - 1) : Was(r, Via(m)) = "link" /\ IsPrefix(root, Via(m))

\* At any time, what rm -r has removed is what it was told to, and nothing a
\* link in it leads to; when it reports no error, all of it (unless the way it
\* was given led over a link it has removed).
RemovesOnlyItsTree ==
    \A s \in Sessions :
        LET r == st[s]
            tree == Below(r.start.fs, Walk(r.start.fs, r.cmd.src, FALSE))
        IN r.cmd.op = "rm -r" /\ Calm(r) =>
              /\ \A p \in DOMAIN r.start.fs \ tree : p \in DOMAIN fs /\ fs[p] = r.start.fs[p]
              /\ data = r.start.data
              /\ r.res = "ok" /\ ~Loops(r, r.cmd.src) => tree \cap DOMAIN fs = {}

\* What cp or cp -r copies, and where it puts it.
Src(r)   == Below(r.start.fs, r.cmd.src)
At(r, p) == r.cmd.dst \o SubSeq(p, Len(r.cmd.src) + 1, Len(p))

\* Neither tree lies within the other.
Apart(r) == ~IsPrefix(r.cmd.src, r.cmd.dst) /\ ~IsPrefix(r.cmd.dst, r.cmd.src)

\* Nothing there is a link, or reached over one.
Plain(r) ==
    /\ ~ViaLink(r, r.cmd.src) /\ ~ViaLink(r, r.cmd.dst)
    /\ \A p \in Src(r) : Was(r, p) # "link" /\ ~ViaLink(r, At(r, p))

\* No file has two names.
Single(r) ==
    \A p, q \in DOMAIN r.start.fs :
        Was(r, p) = "file" /\ r.start.fs[p] = r.start.fs[q] => p = q

\* The directories can be made, or are there.
Fits(r) ==
    /\ Was(r, Front(r.cmd.dst)) = "dir"
    /\ \A p \in Src(r) : Was(r, p) = "dir" =>
          Len(At(r, p)) <= Depth /\ Was(r, At(r, p)) \in {"none", "dir"}

\* When cp or cp -r reports no error, the source is as it was when it began, and
\* the copy has every file of it, block by block; and every directory, if those
\* could be made: cp -r ignores what mkdir() says, and an empty directory that
\* finds a file in its place is missing without an error. That is, if neither
\* tree lies within the other, nothing there is a link, and no file has two names.
CopiesAsFound ==
    \A s \in Sessions :
        LET r == st[s]
        IN r.cmd.op \in {"cp", "cp -r"} /\ r.pc = "done" /\ r.res = "ok" /\ ~r.failed
           /\ Calm(r) /\ Apart(r) /\ Plain(r) /\ Single(r) =>
              \A p \in Src(r) :
                 /\ p \in DOMAIN fs /\ fs[p] = r.start.fs[p]
                 /\ Was(r, p) = "file" =>
                      /\ data[fs[p].ino] = r.start.data[fs[p].ino]
                      /\ Kind(At(r, p)) = "file" /\ data[fs[At(r, p)].ino] = data[fs[p].ino]
                 /\ Was(r, p) = "dir" /\ Fits(r) => Kind(At(r, p)) = "dir"

\* mkdir -p makes the whole path and reports no error, whatever directories
\* others make at the same time: if no call fails, and nothing but directories
\* was in the way.
MakesWholePath ==
    \A s \in Sessions :
        LET r == st[s]
            free == \A m \in 1..Len(r.cmd.src) : Was(r, SubSeq(r.cmd.src, 1, m)) \in {"none", "dir"}
        IN r.cmd.op = "mkdir -p" /\ r.pc = "done" /\ Calm(r) /\ ~r.failed /\ free
           => r.res = "ok" /\ Kind(r.cmd.src) = "dir"

\* Sessions with a bounded number of commands become idle: every command comes
\* to an end, also one that copies a directory into itself, for the length of
\* a path is bounded.
CommandsEnd == []<>(\A s \in Sessions : st[s].pc = "idle")
=============================================================================
