----------------------------- MODULE ElfMemory -----------------------------
(***************************************************************************)
(* What elfldr_spawn() puts into the memory of the new process:            *)
(* elfldr_set_environ() lays out the environment in a block of its own,    *)
(* and elfldr_load() builds the image of the ELF in a mirror, copies it    *)
(* over, and protects its segments page by page. Every remote call may     *)
(* fail. An ELF is reduced to what places its segments.                    *)
(***************************************************************************)
EXTENDS Naturals, Sequences, FiniteSets

CONSTANTS
    PageSize,
    Word,       \* 2^64: sizes and addresses wrap
    Ptr,        \* size of a pointer, 8 in the code
    Lengths,    \* strlen() of the environment strings tried
    MaxVars,    \* bound on their number
    Vaddrs, Sizes,  \* p_vaddr, and p_memsz and p_filesz of the headers tried
    MaxHdrs     \* bound on their number

ASSUME ConstantsAssumption ==
    /\ PageSize \in Nat \ {0} /\ Ptr \in Nat \ {0} /\ MaxVars \in Nat /\ MaxHdrs \in Nat
    /\ Word \in Nat /\ PageSize < Word
    /\ Lengths \subseteq Nat /\ Vaddrs \subseteq Nat /\ Sizes \subseteq Nat
    /\ Word % PageSize = 0
    /\ \A v \in Vaddrs, s \in Sizes : v + s + PageSize < Word
    /\ \A n \in Lengths : MaxVars * (Ptr + n + 1) + Ptr + PageSize < Word

Trunc(x) == x - (x % PageSize)

\* Fault: ROUND_PG() without its mask.
RoundUnmasked(x) == (x + PageSize - 1) % Word

Round(x) == Trunc((x + PageSize - 1) % Word)
Page(x) == x \div PageSize

\* Program headers, of type PT_LOAD or another; segments to load are in
\* ascending order and do not overlap, as the ELF format wants them.
Hdr == {h \in [load : BOOLEAN, vaddr : Vaddrs, memsz : Sizes, filesz : Sizes] :
            h.filesz <= h.memsz}
End(h) == h.vaddr + h.memsz
Ordered(hs) == \A a, b \in 1..Len(hs) : a < b /\ hs[a].load /\ hs[b].load
                                        => End(hs[a]) <= hs[b].vaddr
Headers == {hs \in UNION {[1..n -> Hdr] : n \in 0..MaxHdrs} : Ordered(hs)}

\* Where a relocation may store a pointer: within a segment.
RelocSites(hs) ==
    UNION {{x \in h.vaddr..End(h) : x + Ptr <= End(h)} : h \in {hs[k] : k \in {m \in 1..Len(hs) : hs[m].load}}}

VARIABLES
    pc,
    env, n, esize, epos, eblock,    \* elfldr_set_environ()
    type, phdr, k,                  \* elfldr_load(): the ELF, loop index
    min, max, size,                 \* and its bounds
    mirror, region, error,          \* mappings here and there, error
    hi,                             \* end of what was written to the mirror
    prot                            \* page |-> header whose flags it has, or 0

vars == <<pc, env, n, esize, epos, eblock, type, phdr, k, min, max, size,
          mirror, region, error, hi, prot>>
envvars  == <<env, n, esize, epos, eblock>>
loadvars == <<type, phdr, k, min, max, size, mirror, region, error, hi, prot>>

Pages == 0..Page(Word)

Init ==
    /\ pc = "start"
    /\ env = <<>> /\ n = 0 /\ esize = 0 /\ epos = 0 /\ eblock = "none"
    /\ type = "none" /\ phdr = <<>> /\ k = 0
    /\ min = Word - 1 /\ max = 0 /\ size = 0
    /\ mirror = "none" /\ region = "none" /\ error = FALSE
    /\ hi = 0 /\ prot = [p \in Pages |-> 0]

-----------------------------------------------------------------------------
(* elfldr_set_environ(); an address is an offset into the block. *)

\* It returns with the block in this state; its locals are gone.
EnvironReturns(block) ==
    /\ pc' = "loaded env" /\ eblock' = block
    /\ env' = <<>> /\ n' = 0 /\ esize' = 0 /\ epos' = 0
    /\ UNCHANGED loadvars

\* Nothing is done for an empty environment.
NoEnviron == pc = "start" /\ EnvironReturns("none")

Environ(e) ==
    /\ pc = "start"
    /\ e # <<>>
    /\ env' = e /\ esize' = Ptr /\ pc' = "count"
    /\ UNCHANGED <<n, epos, eblock, loadvars>>

CountVar ==
    /\ pc = "count"
    /\ n < Len(env)
    /\ n' = n + 1
    /\ esize' = (esize + Ptr + env[n + 1] + 1) % Word
    /\ UNCHANGED <<pc, env, epos, eblock, loadvars>>

\* Fault: the table of pointers has no room for its NULL.
MapEnvironTight ==
    /\ pc = "count"
    /\ n = Len(env)
    /\ esize' = Round(esize) /\ epos' = Len(env) * Ptr
    /\ eblock' = "mapped" /\ n' = 0 /\ pc' = "strings"
    /\ UNCHANGED <<env, loadvars>>

MapEnviron ==
    /\ pc = "count"
    /\ n = Len(env)
    /\ esize' = Round(esize) /\ epos' = (Len(env) + 1) * Ptr
    /\ eblock' = "mapped" /\ n' = 0 /\ pc' = "strings"
    /\ UNCHANGED <<env, loadvars>>

\* A string and the pointer to it.
CopyVar ==
    /\ pc = "strings"
    /\ n < Len(env)
    /\ n' = n + 1
    /\ epos' = epos + env[n + 1] + 1
    /\ UNCHANGED <<pc, env, esize, eblock, loadvars>>

\* The NULL at the end, and environ in the process.
PointEnviron ==
    /\ pc = "strings"
    /\ n = Len(env)
    /\ EnvironReturns("used")

\* pt_mmap() fails, and the caller goes on without an environment.
MapEnvironFails ==
    /\ pc = "count"
    /\ n = Len(env)
    /\ EnvironReturns("none")

\* A later step fails, and the block is unmapped.
CopyFails == pc = "strings" /\ EnvironReturns("unmapped")

-----------------------------------------------------------------------------
(* elfldr_load(). *)

\* The file is not an ELF, or its headers are scanned.
BeginLoad ==
    /\ pc = "loaded env"
    /\ type' \in {"ET_DYN", "ET_EXEC", "other"} /\ phdr' \in Headers
    /\ pc' = "bounds"
    /\ UNCHANGED <<envvars, k, min, max, size, mirror, region, error, hi, prot>>

NotAnElf ==
    /\ pc = "loaded env"
    /\ pc' = "failed"
    /\ UNCHANGED <<envvars, loadvars>>

\* Fault: the end of a header is its start.
ScanHeaderShort ==
    /\ pc = "bounds"
    /\ k < Len(phdr)
    /\ LET h == phdr[k + 1]
       IN /\ min' = IF h.vaddr < min THEN h.vaddr ELSE min
          /\ max' = IF max < h.vaddr THEN h.vaddr ELSE max
    /\ k' = k + 1
    /\ UNCHANGED <<pc, envvars, type, phdr, size, mirror, region, error, hi, prot>>

\* Every header counts, of whatever type.
ScanHeader ==
    /\ pc = "bounds"
    /\ k < Len(phdr)
    /\ LET h == phdr[k + 1]
       IN /\ min' = IF h.vaddr < min THEN h.vaddr ELSE min
          /\ max' = IF max < End(h) % Word THEN End(h) % Word ELSE max
    /\ k' = k + 1
    /\ UNCHANGED <<pc, envvars, type, phdr, size, mirror, region, error, hi, prot>>

\* Page boundaries, and pt_mmap(); an unknown type is refused before it.
Reserve ==
    /\ pc = "bounds"
    /\ k = Len(phdr)
    /\ type \in {"ET_DYN", "ET_EXEC"}
    /\ min' = Trunc(min) /\ max' = Round(max)
    /\ size' = (max' + Word - min') % Word
    /\ region' = "mapped" /\ k' = 0 /\ pc' = "mirror"
    /\ UNCHANGED <<envvars, type, phdr, mirror, error, hi, prot>>

ReserveFails ==
    /\ pc = "bounds"
    /\ k = Len(phdr)
    /\ pc' = "failed"
    /\ UNCHANGED <<envvars, loadvars>>

MapMirror ==
    /\ pc = "mirror"
    /\ mirror' = "mapped" /\ pc' = "segments"
    /\ UNCHANGED <<envvars, type, phdr, k, min, max, size, region, error, hi, prot>>

\* Fault: what was mapped in the process stays.
MapMirrorFailsLeaving ==
    /\ pc = "mirror"
    /\ pc' = "failed"
    /\ UNCHANGED <<envvars, loadvars>>

\* mmap() fails, as it may for ET_EXEC, whose MAP_FIXED asks for address 0.
MapMirrorFails ==
    /\ pc = "mirror"
    /\ region' = "unmapped" /\ pc' = "failed"
    /\ UNCHANGED <<envvars, type, phdr, k, min, max, size, mirror, error, hi, prot>>

\* The mirror is written from offset x on, for that many bytes.
Written(x, len) == IF hi < x + len THEN x + len ELSE hi

\* pt_load(): the offset is p_vaddr itself.
LoadSegment ==
    /\ pc = "segments"
    /\ k < Len(phdr)
    /\ LET h == phdr[k + 1]
       IN hi' = IF h.load /\ h.memsz > 0 /\ h.filesz > 0
                THEN Written(h.vaddr, h.filesz) ELSE hi
    /\ k' = k + 1
    /\ UNCHANGED <<pc, envvars, type, phdr, min, max, size, mirror, region, error, prot>>

\* r_relative(), any number of times.
Relocate(x) ==
    /\ pc = "segments"
    /\ k = Len(phdr)
    /\ hi' = Written(x, Ptr)
    /\ UNCHANGED <<pc, envvars, type, phdr, k, min, max, size, mirror, region, error, prot>>

CopyImage(e) ==
    /\ pc = "segments"
    /\ k = Len(phdr)
    /\ error' = e /\ k' = 0
    /\ pc' = IF e THEN "sync" ELSE "protect"
    /\ UNCHANGED <<envvars, type, phdr, min, max, size, mirror, region, hi, prot>>

\* Fault: TRUNC_PG() for ROUND_PG().
CoveredTruncated(h) == Page(h.vaddr)..Page(h.vaddr + Trunc(h.memsz) - 1)

\* Pages given new protection: mprotect() takes in every page it touches.
Covered(h) == Page(h.vaddr)..Page(h.vaddr + Round(h.memsz) - 1)

Protect(e) ==
    /\ pc = "protect"
    /\ k < Len(phdr) /\ ~error
    /\ LET h == phdr[k + 1]
           skipped == ~h.load \/ h.memsz = 0
       IN /\ skipped => ~e
          /\ error' = e
          /\ prot' = IF skipped \/ e THEN prot
                     ELSE [p \in Pages |-> IF p \in Covered(h) THEN k + 1 ELSE prot[p]]
    /\ k' = k + 1
    /\ UNCHANGED <<pc, envvars, type, phdr, min, max, size, mirror, region, hi>>

EndProtect ==
    /\ pc = "protect"
    /\ k = Len(phdr) \/ error
    /\ pc' = "sync"
    /\ UNCHANGED <<envvars, loadvars>>

\* pt_msync(); the mirror goes in any case, the region after an error.
Sync(e) ==
    /\ pc = "sync"
    /\ error' = (error \/ e)
    /\ mirror' = "unmapped"
    /\ region' = IF error' THEN "unmapped" ELSE region
    /\ pc' = IF error' THEN "failed" ELSE "done"
    /\ UNCHANGED <<envvars, type, phdr, k, min, max, size, hi, prot>>

-----------------------------------------------------------------------------
Envs == UNION {[1..m -> Lengths] : m \in 0..MaxVars}

Next ==
    \/ \E e \in Envs : Environ(e)
    \/ NoEnviron \/ CountVar \/ MapEnviron \/ CopyVar \/ PointEnviron
    \/ MapEnvironFails \/ CopyFails
    \/ BeginLoad \/ NotAnElf \/ ScanHeader \/ Reserve \/ ReserveFails
    \/ MapMirror \/ MapMirrorFails \/ LoadSegment
    \/ \E x \in RelocSites(phdr) : Relocate(x)
    \/ EndProtect
    \/ \E e \in BOOLEAN : CopyImage(e) \/ Protect(e) \/ Sync(e)

Spec == Init /\ [][Next]_vars

-----------------------------------------------------------------------------
(* Properties. *)

\* Types; what is given to mmap() is in whole pages.
TypeOK ==
    /\ pc \in {"strings", "mirror", "segments", "protect", "sync"}
          => esize % PageSize = 0 /\ size % PageSize = 0
    /\ pc \in {"start", "count", "strings", "loaded env", "bounds", "mirror",
               "segments", "protect", "sync", "done", "failed"}
    /\ env \in Envs /\ n \in 0..Len(env) /\ esize \in 0..(Word - 1) /\ epos \in Nat
    /\ eblock \in {"none", "mapped", "used", "unmapped"}
    /\ type \in {"none", "ET_DYN", "ET_EXEC", "other"}
    /\ Len(phdr) <= MaxHdrs /\ (\A m \in 1..Len(phdr) : phdr[m] \in Hdr) /\ k \in 0..Len(phdr)
    /\ min \in 0..(Word - 1) /\ max \in 0..(Word - 1) /\ size \in 0..(Word - 1)
    /\ mirror \in {"none", "mapped", "unmapped"} /\ region \in {"none", "mapped", "unmapped"}
    /\ error \in BOOLEAN /\ hi \in Nat
    /\ prot \in [Pages -> 0..MaxHdrs]

\* The environment fits the block reserved for it: the strings lie behind the
\* table of pointers and its NULL, they end within the block, and when all are
\* there they fill what was counted, up to the page.
EnvironFits ==
    pc = "strings" => /\ (Len(env) + 1) * Ptr <= epos /\ epos <= esize
                      /\ n = Len(env) => esize < epos + PageSize

\* Linked at address 0, as position independent code is.
AtZero == \E m \in 1..Len(phdr) : phdr[m].vaddr < PageSize

\* Segments and relocations stay within the mirror, and the mirror within
\* what was reserved in the process, if the ELF is linked at address 0.
WithinReserve == AtZero => hi <= size

\* A process that goes on to run has on every page the flags of the last
\* segment there, although mprotect() reaches into neighbouring pages.
FlagsOfSegment ==
    pc = "done" =>
        \A m \in 1..Len(phdr) :
            LET h == phdr[m]
                Here(g) == g.load /\ g.memsz > 0
            IN Here(h) => \A p \in Page(h.vaddr)..Page(End(h) - 1) :
                 (\A j \in (m + 1)..Len(phdr) : Here(phdr[j]) => Page(phdr[j].vaddr) > p)
                 => prot[p] = m

\* However elfldr_load() ends, its mirror is gone, and the process keeps the
\* region only if all went well; an environment block is in use or gone.
NothingLeft ==
    /\ pc \in {"done", "failed"} => mirror # "mapped" /\ (region = "mapped" <=> pc = "done")
    /\ pc = "loaded env" => eblock # "mapped"
=============================================================================
