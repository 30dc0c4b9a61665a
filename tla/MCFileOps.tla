----------------------------- MODULE MCFileOps -----------------------------
(* Instances of FileOps for TLC. *)
EXTENDS FileOps

CONSTANTS a, b, i1, i2, i3

Cmd(op, p, q) == [op |-> op, src |-> p, dst |-> q]

MCCommands ==
    {Cmd("rm", <<a, b>>, <<>>), Cmd("rm -r", <<a>>, <<>>), Cmd("rm -r", <<a, b, a>>, <<>>),
     Cmd("mkdir", <<b>>, <<>>),
     Cmd("mkdir -p", <<a, b>>, <<>>), Cmd("mkdir -p", <<a, b, a>>, <<>>),
     Cmd("cp", <<a>>, <<b>>), Cmd("cp", <<a>>, <<a>>),
     Cmd("cp -r", <<a>>, <<b>>), Cmd("cp -r", <<a>>, <<a, b>>),
     Cmd("mv", <<a>>, <<b>>), Cmd("mv", <<b>>, <<a, b>>)}

Disk(f) == [fs |-> [p \in DOMAIN f \cup {<<>>} |-> IF p = <<>> THEN Dir ELSE f[p]],
            data |-> [i \in Inodes |-> CASE i = i1 -> <<"x", "y">> [] i = i2 -> <<"y">>
                                         [] OTHER -> <<>>]]

\* An empty disk, a file, two files, a tree with a link out of it, a deeper one,
\* a link to a file, one to nothing and one back to the root; a tree whose copy
\* finds a file in the place of a directory; and one file with two names.
MCDisks ==
    {Disk(<<>>),
     Disk(<<a>> :> File(i1)),
     Disk(<<a>> :> File(i1) @@ <<b>> :> File(i2)),
     Disk(<<a>> :> Dir @@ <<a, a>> :> File(i1) @@ <<a, b>> :> Link(<<b>>)
          @@ <<b>> :> Dir @@ <<b, a>> :> File(i2)),
     Disk(<<a>> :> Dir @@ <<a, a>> :> Dir @@ <<a, a, a>> :> File(i1) @@ <<a, b>> :> File(i2)),
     Disk(<<a>> :> Link(<<b>>) @@ <<b>> :> File(i1)),
     Disk(<<a>> :> Link(<<b>>)),
     Disk(<<a>> :> Dir @@ <<a, b>> :> Link(<<>>)),
     Disk(<<a>> :> Dir @@ <<a, b>> :> Dir @@ <<b>> :> File(i2)),
     Disk(<<a>> :> File(i1) @@ <<b>> :> File(i1))}
=============================================================================
