--------------------------- MODULE SingleServer ---------------------------
(***************************************************************************)
(* What the launch protocol promises: one slot for a server, and a         *)
(* nameplate (the pid file) that others read to find the server. While the *)
(* slot is taken the nameplate shows its owner and nobody touches it; the  *)
(* slot is emptied before it is taken again.                               *)
(***************************************************************************)
CONSTANTS Pids, NoPid,
          Names         \* what the nameplate can show

VARIABLES owner, advert

Init == owner = NoPid /\ advert \in Names

\* Server p takes the free slot, its name already up or put up with it.
Take(p) ==
    /\ owner = NoPid
    /\ owner' = p
    /\ advert' = p

\* The server ends, taking its name down or leaving it there.
Release ==
    /\ owner # NoPid
    /\ owner' = NoPid
    /\ advert' \in Names

\* Launches that have not got there yet, and commands, rewrite the nameplate
\* of a free slot only.
Rewrite ==
    /\ owner = NoPid
    /\ advert' \in Names
    /\ UNCHANGED owner

Next == (\E p \in Pids : Take(p)) \/ Release \/ Rewrite

Spec == Init /\ [][Next]_<<owner, advert>>
=============================================================================
