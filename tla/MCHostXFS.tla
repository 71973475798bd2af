----------------------------- MODULE MCHostXFS -----------------------------
(***************************************************************************)
(* Instances of HostXFS for TLC with two directories and one file: one     *)
(* for the handles, one for the searches.  Both tables fill up.            *)
(***************************************************************************)
EXTENDS HostXFS, TLC

CONSTANTS d1, d2, f1, p1, p2, dd1, dd2, dd3, g1, g2, s1, s2

MCDir     == {d1, d2}
MCIno     == MCDir \cup {f1}
MCPd      == {p1, p2}
Symmetry  == Permutations(MCDir) \cup Permutations(MCPd) \cup Permutations(DD)
             \cup Permutations(GuestFD) \cup Permutations(Search)

(* Roots that were left behind only grow in number: bounds of the instances. *)
LittleLost  == \A h \in Hdl : lost[h] <= 1
NothingLost == \A h \in Hdl : lost[h] = 0

(* States that differ only in what a free entry still holds, in the names of
   hash values, or in what a search remembers whose entry is gone, are one:
   nobody reads a free entry, and a new hash value differs from all others. *)
View ==
    <<[h \in Hdl |-> IF Used(h) THEN fdTab[h] ELSE UnusedHandle],
      [o \in Odh |-> IF Running(o) THEN [opendirTable[o] EXCEPT !.hash = 1] ELSE UnusedSearch],
      [s \in Search |-> IF Own(s) THEN [search[s] EXCEPT !.hash = 1]
                                    ELSE [Idle EXCEPT !.kind = search[s].kind, !.pd = search[s].pd]],
      hostFd, now, drv_host_path, root, dd, file, lost>>
=============================================================================
