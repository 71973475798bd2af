---------------------------- MODULE HostHandles ----------------------------
(***************************************************************************)
(* The two tables of src/src/HostHandles.cpp: host descriptors that        *)
(* several guest objects share (fdTab, reference counted, one entry per    *)
(* device and inode), and directories being searched (opendirTable, least  *)
(* recently used, because a guest's Fsfirst/Fsnext has no end).  Below     *)
(* them is the host's own descriptor table: open() and dup() return its    *)
(* lowest free number, so a number closed twice or kept too long soon      *)
(* denotes something else.                                                 *)
(*                                                                         *)
(* Contents, read positions and time stamps of files are left out.  An     *)
(* inode stands for device and inode number: the host gives neither to     *)
(* another file while a descriptor is open on it.                          *)
(***************************************************************************)
EXTENDS Integers, FiniteSets

CONSTANTS
    HOST_HANDLE_NUM,            \* entries of fdTab
    OPENDIR_N,                  \* entries of opendirTable
    OPENDIR_AUTO_CLOSE_SEC,     \* age at which the search of another process is closed
    MaxFd,                      \* largest descriptor number the host gives out
    Ino, NoIno,                 \* files and directories of the host
    Pd, NoPd,                   \* guest processes
    MaxHash                     \* hash values are 1 .. MaxHash

ASSUME HandleNumbers == /\ HOST_HANDLE_NUM \in Nat \ {0}
                        /\ OPENDIR_N \in Nat \ {0}
                        /\ OPENDIR_AUTO_CLOSE_SEC \in Nat
                        /\ MaxFd \in Nat
                        /\ MaxHash \in Nat
ASSUME Nobody == NoIno \notin Ino /\ NoPd \notin Pd

Hdl == 0 .. HOST_HANDLE_NUM - 1
Odh == 0 .. OPENDIR_N - 1
Fd  == 0 .. MaxFd
Hash == 1 .. MaxHash

VARIABLES
    fdTab,              \* [ref_cnt, ino, fd] of each handle
    opendirTable,       \* [lru, pd, hash, fd] of each search
    hostFd,             \* the host's descriptors: what is open there, and for writing or not
    now                 \* time(), in units of the program's own choice

handleVars == <<fdTab, opendirTable, hostFd, now>>

IsFirst(n, S) == n \in S /\ \A m \in S : n <= m

----------------------------------------------------------------------------
(* The host *)

Closed   == [ino |-> NoIno, write |-> FALSE]
FreeFds  == {f \in Fd : hostFd[f] = Closed}
NewFd(f) == IsFirst(f, FreeFds)
WithOpen(f, i, w) == [hostFd EXCEPT ![f] = [ino |-> i, write |-> w]]
WithClosed(F)     == [f \in Fd |-> IF f \in F THEN Closed ELSE hostFd[f]]

----------------------------------------------------------------------------
(* fdTab *)

UnusedHandle == [ref_cnt |-> 0, ino |-> NoIno, fd |-> 0]      \* static data
Used(h)      == fdTab[h].ref_cnt # 0
SameFileEver(i) == {h \in Hdl : fdTab[h].ino = i}     \* mutant: entries not in use, too
SameFile(i)  == {h \in Hdl : Used(h) /\ fdTab[h].ino = i}

(* p is what getFreeHostFD() returns; none does when the table is full *)
getFreeHostFD(p) == ~Used(p) /\ \A h \in Hdl : h < p => Used(h)

(* one reference more; h is the handle findHostFD() returns for inode i *)
AddRef(h)        == fdTab' = [fdTab EXCEPT ![h].ref_cnt = @ + 1]
findHostFDOnly(i, h) == IsFirst(h, SameFile(i)) /\ UNCHANGED fdTab   \* mutant: not counted
findHostFD(i, h) == IsFirst(h, SameFile(i)) /\ AddRef(h)

(* Descriptor f was just opened on i and put into entry p.  An entry in use
   with the same inode is taken instead and f is closed again, unless it is
   that entry's descriptor; f and i stay behind in p. *)
SharedNever(p, i, h) == h = p                            \* mutant: fstatat() is trusted
Shared(p, i, h) == IF SameFile(i) = {} THEN h = p ELSE IsFirst(h, SameFile(i))
allocHostFDNoClose(p, f, i, w, h) ==                 \* mutant: the new descriptor is not closed
    /\ Shared(p, i, h)
    /\ fdTab' = [[fdTab EXCEPT ![p].fd = f, ![p].ino = i]
                        EXCEPT ![h].ref_cnt = @ + 1]
    /\ hostFd' = WithOpen(f, i, w)
allocHostFD(p, f, i, w, h) ==
    /\ Shared(p, i, h)
    /\ fdTab' = [[fdTab EXCEPT ![p].fd = f, ![p].ino = i]
                        EXCEPT ![h].ref_cnt = @ + 1]
    /\ hostFd' = IF h = p \/ fdTab[h].fd = f THEN WithOpen(f, i, w) ELSE hostFd

freeHostFDLeaks(h) ==                                \* mutant: the descriptor is not closed
    /\ fdTab' = [fdTab EXCEPT ![h].ref_cnt = @ - 1, ![h].fd = IF fdTab[h].ref_cnt = 1 THEN -1 ELSE @]
    /\ UNCHANGED hostFd
freeHostFD(h) ==
    IF fdTab[h].ref_cnt = 1
    THEN /\ fdTab' = [fdTab EXCEPT ![h].ref_cnt = 0, ![h].fd = -1]
         /\ hostFd' = WithClosed({fdTab[h].fd})
    ELSE /\ fdTab' = [fdTab EXCEPT ![h].ref_cnt = @ - 1]
         /\ UNCHANGED hostFd

----------------------------------------------------------------------------
(* opendirTable *)

UnusedSearch == [lru |-> 0, pd |-> NoPd, hash |-> 0, fd |-> 0]
Running(o)   == opendirTable[o].lru # 0
NoSearch(o)  == [opendirTable[o] EXCEPT !.lru = 0]

(* o is the first free entry, or else the first of the oldest ones *)
VictimNewest(o) ==                                   \* mutant: the youngest, which no free entry is
    IsFirst(o, {q \in Odh : \A r \in Odh : opendirTable[q].lru >= opendirTable[r].lru})
Victim(o) ==
    LET free   == {q \in Odh : ~Running(q)}
        oldest == {q \in Odh : \A r \in Odh : opendirTable[q].lru <= opendirTable[r].lru}
    IN  IsFirst(o, IF free = {} THEN oldest ELSE free)

(* A search of process p through descriptor f, a copy of one that is open on
   directory i; hash x is new.  What the entry held before is closed. *)
allocOpendirNoClose(o, f, i, p, x) ==                \* mutant: the victim stays open
    /\ Victim(o)
    /\ opendirTable' = [opendirTable EXCEPT ![o] = [lru |-> now, pd |-> p, hash |-> x, fd |-> f]]
    /\ hostFd' = WithOpen(f, i, FALSE)
allocOpendir(o, f, i, p, x) ==
    /\ Victim(o)
    /\ opendirTable' = [opendirTable EXCEPT ![o] = [lru |-> now, pd |-> p, hash |-> x, fd |-> f]]
    /\ hostFd' = [WithClosed(IF Running(o) THEN {opendirTable[o].fd} ELSE {})
                        EXCEPT ![f] = [ino |-> i, write |-> FALSE]]

(* getOpendir() succeeds *)
getOpendirNoHash(o, p, x) ==                         \* mutant: no ownership test
    o \in Odh /\ Running(o) /\ opendirTable[o].pd = p
getOpendir(o, p, x) == o \in Odh /\ Running(o) /\ opendirTable[o].pd = p /\ opendirTable[o].hash = x
Refresh(o) == opendirTable' = [opendirTable EXCEPT ![o].lru = now]

closeOpendir(o, x) ==
    IF opendirTable[o].hash = x
    THEN /\ opendirTable' = [opendirTable EXCEPT ![o] = NoSearch(o)]
         /\ hostFd' = WithClosed({opendirTable[o].fd})
    ELSE UNCHANGED <<opendirTable, hostFd>>

(* process p ends: its searches are closed, and those of others that are old *)
Orphans(p) == {o \in Odh : /\ Running(o)
                           /\ \/ opendirTable[o].pd = p
                              \/ now - opendirTable[o].lru > OPENDIR_AUTO_CLOSE_SEC}
ptermOpendir(p) ==
    /\ opendirTable' = [o \in Odh |-> IF o \in Orphans(p) THEN NoSearch(o) ELSE opendirTable[o]]
    /\ hostFd' = WithClosed({opendirTable[o].fd : o \in Orphans(p)})

----------------------------------------------------------------------------
HandleInit ==
    /\ fdTab = [h \in Hdl |-> UnusedHandle]
    /\ opendirTable = [o \in Odh |-> UnusedSearch]
    /\ hostFd = [f \in Fd |-> Closed]
    /\ now = 1

HandleTypeOK ==
    /\ fdTab \in [Hdl -> [ref_cnt : Nat, ino : Ino \cup {NoIno}, fd : Fd \cup {-1}]]
    /\ opendirTable \in [Odh -> [lru : Nat, pd : Pd \cup {NoPd}, hash : Hash \cup {0},
                                 fd : Fd \cup {-1}]]
    /\ hostFd \in [Fd -> [ino : Ino \cup {NoIno}, write : BOOLEAN]]
    /\ now \in Nat \ {0}
=============================================================================
