------------------------------ MODULE HostXFS ------------------------------
(***************************************************************************)
(* The host file system: the guest's driver (src/kernel/HOSTBIOS/          *)
(* HOSTXFS.S) keeps directory descriptors, file descriptors, DTAs and      *)
(* directory handles in its own memory, src/src/HostXFS.cpp serves its     *)
(* calls and keeps for each of them a reference or a search in the tables  *)
(* of HostHandles.  Each action is one call of the driver with what it     *)
(* does on both sides; the main thread mounts directories.                 *)
(*                                                                         *)
(* A path is an inode: the host may rename and delete at any time, so a    *)
(* path may denote any inode, and another one at the next system call.     *)
(* Calls that leave both tables and the driver's blocks alone are not      *)
(* actions: reading and writing, and Fdelete, Frename, Dcreate and the     *)
(* like, which name their directory by a handle and change the host only.  *)
(***************************************************************************)
EXTENDS HostHandles

CONSTANTS
    Dir,                \* the inodes that are directories
    Drv,                \* drives of the host file system
    DD, NoDD,           \* the driver's directory descriptors
    GuestFD,            \* the driver's file descriptors
    Search,             \* the guest's DTAs and directory handles
    MaxNow,             \* bound of the clock
    MaxRef              \* bound of a guest descriptor's reference counter

ASSUME Directories == Dir \subseteq Ino /\ Drv # {}
ASSUME NoDescriptor == NoDD \notin DD
ASSUME FiniteGuest == IsFiniteSet(DD) /\ IsFiniteSet(GuestFD)

VARIABLES
    drv_host_path,      \* [Drv -> BOOLEAN]: a host directory is mounted
    root,               \* the DMDs' d_root
    dd,                 \* [DD -> [hdl, ino, drv]], hdl = -1: not allocated
    file,               \* [GuestFD -> [hdl, refcnt, ino, write]]
    search,             \* [Search -> [kind, odh, pd, hash, ino, drv]]
    lost                \* history: references of roots that were freed without freeDD

guestVars == <<root, dd, file, search, lost>>
vars == <<handleVars, drv_host_path, guestVars>>

AnyDrv   == CHOOSE v \in Drv : TRUE
NoRef    == [hdl |-> -1, ino |-> NoIno, drv |-> AnyDrv]
NoFile   == [hdl |-> -1, refcnt |-> 0, ino |-> NoIno, write |-> FALSE]
Idle     == [kind |-> "none", odh |-> -1, pd |-> NoPd, hash |-> 0, ino |-> NoIno, drv |-> AnyDrv]

InUse(d)  == dd[d].hdl # -1
IsOpen(g) == file[g].hdl # -1

Init ==
    /\ HandleInit
    /\ drv_host_path \in [Drv -> BOOLEAN]
    /\ root = [v \in Drv |-> NoDD]
    /\ dd = [d \in DD |-> NoRef]
    /\ file = [g \in GuestFD |-> NoFile]
    /\ search = [s \in Search |-> Idle]
    /\ lost = [h \in Hdl |-> 0]

----------------------------------------------------------------------------
(* Directories *)

(* The path is empty: the directory itself.  Handle h is the one it has. *)
ReuseDirectory(h) == fdTab[h].fd >= 0 /\ AddRef(h) /\ UNCHANGED hostFd

(* fstatat() saw an inode whose handle is in use; it may as well be a file, for
   only openat() is told to open nothing but a directory *)
FoundDirectory(i, h) == findHostFD(i, h) /\ UNCHANGED hostFd

(* fstatat() saw an inode without a handle and openat() opened directory i,
   another one if the host changed the path in between; it lies inside the
   drive, so it is kept *)
OpenedDirectory(i, h) ==
    /\ i \in Dir /\ \E seen \in Ino : SameFile(seen) = {}
    /\ \E p \in Hdl, f \in Fd :
          getFreeHostFD(p) /\ NewFd(f) /\ allocHostFD(p, f, i, FALSE, h)

(* a path other than the empty one leads to inode i, which gets handle h *)
hostpath2HostFD(i, h) ==
    /\ \E p \in Hdl : getFreeHostFD(p)
    /\ FoundDirectory(i, h) \/ OpenedDirectory(i, h)

(* An open that failed, at openat() or at the fstat() behind it: the number,
   open no more, stays in the free entry. *)
OpenFailed ==
    /\ \E p \in Hdl, f \in Fd \cup {-1} :
          /\ getFreeHostFD(p) /\ (f = -1 \/ NewFd(f))
          /\ fdTab' = [fdTab EXCEPT ![p].fd = f]
    /\ UNCHANGED <<opendirTable, hostFd, now, drv_host_path, guestVars>>

(* mxfs_drv_open with xfs_drv_open: the root gets a DD of its own *)
drv_open(v, d) ==
    /\ root[v] = NoDD /\ drv_host_path[v] /\ ~InUse(d)
    /\ \E i \in Ino, h \in Hdl :
          /\ hostpath2HostFD(i, h)
          /\ dd' = [dd EXCEPT ![d] = [hdl |-> h, ino |-> i, drv |-> v]]
    /\ root' = [root EXCEPT ![v] = d]
    /\ UNCHANGED <<opendirTable, now, drv_host_path, file, search, lost>>

(* mxfs_drv_close with xfs_drv_close: the root's DD is freed with int_mfree *)
drv_close(v) ==
    /\ root[v] # NoDD /\ drv_host_path[v]
    /\ drv_host_path' = [drv_host_path EXCEPT ![v] = FALSE]
    /\ lost' = [lost EXCEPT ![dd[root[v]].hdl] = @ + 1]
    /\ dd' = [dd EXCEPT ![root[v]] = NoRef]
    /\ root' = [root EXCEPT ![v] = NoDD]
    /\ UNCHANGED <<handleVars, file, search>>

(* the main thread mounts a directory on the drive *)
setNewDrv(v) ==
    /\ drv_host_path' = [drv_host_path EXCEPT ![v] = TRUE]
    /\ UNCHANGED <<handleVars, guestVars>>

(* the raw driver ejects it, behind the back of the file system *)
eject(v) ==
    /\ drv_host_path' = [drv_host_path EXCEPT ![v] = FALSE]
    /\ UNCHANGED <<handleVars, guestVars>>

(* otherwise the host's calls relative to d fail with ENOTDIR *)
IsDirectory(d) == fdTab[dd[d].hdl].fd \in Fd /\ hostFd[fdTab[dd[d].hdl].fd].ino \in Dir

(* mxfs_path2DD with xfs_path2DD, relative to d *)
path2DD(d, e) ==
    /\ InUse(d) /\ ~InUse(e) /\ drv_host_path[dd[d].drv]
    /\ \E p \in Hdl : getFreeHostFD(p)
    /\ \E i \in Ino, h \in Hdl :
          /\ \/ h = dd[d].hdl /\ i = dd[d].ino /\ ReuseDirectory(h)
             \/ IsDirectory(d) /\ hostpath2HostFD(i, h)
          /\ dd' = [dd EXCEPT ![e] = [hdl |-> h, ino |-> i, drv |-> dd[d].drv]]
    /\ UNCHANGED <<opendirTable, now, drv_host_path, root, file, search, lost>>

(* mxfs_freeDD with xfs_freeDD; the kernel keeps roots *)
freeDD(d) ==
    /\ InUse(d) /\ \A v \in Drv : root[v] # d
    /\ freeHostFD(dd[d].hdl)
    /\ dd' = [dd EXCEPT ![d] = NoRef]
    /\ UNCHANGED <<opendirTable, now, drv_host_path, root, file, search, lost>>

----------------------------------------------------------------------------
(* Files *)

(* CHK_DRIVE and GET_hhdl_hostFD_dir_fd *)
Usable(d) == InUse(d) /\ drv_host_path[dd[d].drv] /\ fdTab[dd[d].hdl].fd # -1

(* mxfs_fopen with xfs_fopen; a directory can be opened for reading *)
fopen(d, g, i, w) ==
    /\ Usable(d) /\ IsDirectory(d) /\ ~IsOpen(g) /\ (i \in Dir => ~w)
    /\ \E p, h \in Hdl, f \in Fd :
          /\ getFreeHostFD(p) /\ NewFd(f)
          /\ allocHostFD(p, f, i, w, h)
          /\ file' = [file EXCEPT ![g] = [hdl |-> h, refcnt |-> 1, ino |-> i, write |-> w]]
    /\ UNCHANGED <<opendirTable, now, drv_host_path, root, dd, search, lost>>

(* the kernel copies a handle: Fdup(), Fforce(), a child process *)
Fdup(g) ==
    /\ IsOpen(g) /\ file[g].refcnt < MaxRef
    /\ file' = [file EXCEPT ![g].refcnt = @ + 1]
    /\ UNCHANGED <<handleVars, drv_host_path, root, dd, search, lost>>

(* mdev_close with dev_close *)
LastCloseEarly(g) == file[g].refcnt = 2              \* mutant: compared before it is decremented
LastClose(g) == file[g].refcnt = 1
dev_close(g) ==
    /\ IsOpen(g)
    /\ IF LastClose(g)
       THEN freeHostFD(file[g].hdl) /\ file' = [file EXCEPT ![g] = NoFile]
       ELSE file' = [file EXCEPT ![g].refcnt = @ - 1] /\ UNCHANGED <<fdTab, hostFd>>
    /\ UNCHANGED <<opendirTable, now, drv_host_path, root, dd, search, lost>>

----------------------------------------------------------------------------
(* Searches *)

(* rand(): a number that occurs nowhere else; the smallest one stands for all *)
NewHash(x) ==
    IsFirst(x, Hash \ ({opendirTable[o].hash : o \in Odh} \cup {search[s].hash : s \in Search}))

(* Fsfirst found a name (xfs_sfirst), or Dopendir succeeded (xfs_dopendir); a
   DTA that held another search is overwritten *)
opendir(s, d, p, kind) ==
    /\ Usable(d) /\ IsDirectory(d)
    /\ search[s].kind = "none" \/ (search[s].kind = "dta" /\ kind = "dta")
    /\ \E o \in Odh, f \in Fd, x \in Hash :
          /\ NewFd(f) /\ NewHash(x)
          /\ allocOpendir(o, f, hostFd[fdTab[dd[d].hdl].fd].ino, p, x)
          /\ search' = [search EXCEPT ![s] = [kind |-> kind, odh |-> o, pd |-> p, hash |-> x,
                                              ino |-> dd[d].ino, drv |-> dd[d].drv]]
    /\ UNCHANGED <<fdTab, now, drv_host_path, root, dd, file, lost>>

(* a DTA is guest memory and can be copied *)
CopyDTA(s, t) ==
    /\ search[s].kind = "dta" /\ search[t] = Idle
    /\ search' = [search EXCEPT ![t] = search[s]]
    /\ UNCHANGED <<handleVars, drv_host_path, root, dd, file, lost>>

(* CHK_DRIVE and getOpendir() let process p go on with the search *)
Mounted(s)   == drv_host_path[search[s].drv]
Granted(s, p) == getOpendir(search[s].odh, p, search[s].hash)

(* xfs_snext, xfs_dreaddir or xfs_drewinddir succeeds *)
readdir(s, p) ==
    /\ search[s] # Idle /\ Mounted(s) /\ Granted(s, p)
    /\ Refresh(search[s].odh)
    /\ UNCHANGED <<fdTab, hostFd, now, drv_host_path, guestVars>>

(* xfs_drewinddir refuses: the directory handle is dead from now on *)
rewindRefused(s, p) ==
    /\ search[s].kind = "dhd" /\ search[s].odh # -1 /\ Mounted(s) /\ ~Granted(s, p)
    /\ search' = [search EXCEPT ![s].odh = -1]
    /\ UNCHANGED <<handleVars, drv_host_path, root, dd, file, lost>>

(* xfs_snext came to the end *)
snextEnd(s, p) ==
    /\ search[s].kind = "dta" /\ Mounted(s) /\ Granted(s, p)
    /\ closeOpendir(search[s].odh, search[s].hash)
    /\ search' = [search EXCEPT ![s] = Idle]
    /\ UNCHANGED <<fdTab, now, drv_host_path, root, dd, file, lost>>

(* mxfs_dclosedir frees the directory handle, also when xfs_dclosedir refuses *)
dclosedir(s, p) ==
    /\ search[s].kind = "dhd"
    /\ IF Mounted(s) /\ Granted(s, p)
       THEN closeOpendir(search[s].odh, search[s].hash)
       ELSE UNCHANGED <<opendirTable, hostFd>>
    /\ search' = [search EXCEPT ![s] = Idle]
    /\ UNCHANGED <<fdTab, now, drv_host_path, root, dd, file, lost>>

(* xfs_pterm: process p and its memory are gone *)
pterm(p) ==
    /\ ptermOpendir(p)
    /\ search' = [s \in Search |-> IF search[s].pd = p THEN Idle ELSE search[s]]
    /\ UNCHANGED <<fdTab, now, drv_host_path, root, dd, file, lost>>

Tick ==
    /\ now < MaxNow /\ now' = now + 1
    /\ UNCHANGED <<fdTab, opendirTable, hostFd, drv_host_path, guestVars>>

----------------------------------------------------------------------------
Next ==
    \/ \E v \in Drv, d \in DD : drv_open(v, d)
    \/ \E v \in Drv : drv_close(v) \/ setNewDrv(v) \/ eject(v)
    \/ \E d, e \in DD : path2DD(d, e)
    \/ \E d \in DD : freeDD(d)
    \/ \E d \in DD, g \in GuestFD, i \in Ino, w \in BOOLEAN : fopen(d, g, i, w)
    \/ \E g \in GuestFD : Fdup(g) \/ dev_close(g)
    \/ OpenFailed
    \/ \E s \in Search, d \in DD, p \in Pd, kind \in {"dta", "dhd"} : opendir(s, d, p, kind)
    \/ \E s, t \in Search : CopyDTA(s, t)
    \/ \E s \in Search, p \in Pd : readdir(s, p) \/ rewindRefused(s, p)
                                   \/ snextEnd(s, p) \/ dclosedir(s, p)
    \/ \E p \in Pd : pterm(p)
    \/ Tick

Spec == Init /\ [][Next]_vars

----------------------------------------------------------------------------
(* Properties *)

(* The variables keep their types. *)
TypeOK ==
    /\ HandleTypeOK
    /\ drv_host_path \in [Drv -> BOOLEAN]
    /\ root \in [Drv -> DD \cup {NoDD}]
    /\ dd \in [DD -> [hdl : Hdl \cup {-1}, ino : Ino \cup {NoIno}, drv : Drv]]
    /\ file \in [GuestFD -> [hdl : Hdl \cup {-1}, refcnt : Nat, ino : Ino \cup {NoIno},
                             write : BOOLEAN]]
    /\ search \in [Search -> [kind : {"none", "dta", "dhd"}, odh : Odh \cup {-1},
                              pd : Pd \cup {NoPd}, hash : Hash \cup {0},
                              ino : Ino \cup {NoIno}, drv : Drv]]
    /\ lost \in [Hdl -> Nat]

(* A handle's reference counter is the number of the driver's blocks that name
   it, plus the roots that xfs_drv_close() left behind: freeDD() and dev_close()
   can never free a handle another block still uses, never free one twice (the
   assertion in freeHostFD()), and nothing but a closed drive leaks one. *)
DDsOf(h)   == {d \in DD : dd[d].hdl = h}
FilesOf(h) == {g \in GuestFD : file[g].hdl = h}
RefsBalance ==
    \A h \in Hdl : fdTab[h].ref_cnt = Cardinality(DDsOf(h)) + Cardinality(FilesOf(h)) + lost[h]

(* Each open descriptor of the host belongs to exactly one handle in use or one
   running search, and each of those has an open one: none is leaked, closed
   twice or while still in use, and its number cannot have been given to
   another file.  This is why "got host fd twice" in allocHostFD() never occurs. *)
FdsOwnedOnce ==
    /\ \A h \in Hdl : Used(h) => fdTab[h].fd \in Fd
    /\ \A o \in Odh : Running(o) => opendirTable[o].fd \in Fd
    /\ \A h, k \in Hdl : Used(h) /\ Used(k) /\ fdTab[h].fd = fdTab[k].fd => h = k
    /\ \A o, q \in Odh : Running(o) /\ Running(q) /\ opendirTable[o].fd = opendirTable[q].fd => o = q
    /\ \A h \in Hdl, o \in Odh : Used(h) /\ Running(o) => fdTab[h].fd # opendirTable[o].fd
    /\ \A f \in Fd : hostFd[f] # Closed <=> \/ \E h \in Hdl : Used(h) /\ fdTab[h].fd = f
                                           \/ \E o \in Odh : Running(o) /\ opendirTable[o].fd = f

(* A block of the driver leads to the file or directory it was opened for,
   however often handles were shared, closed and used again in between. *)
Leads(h, i) == fdTab[h].fd \in Fd /\ hostFd[fdTab[h].fd].ino = i
HandleNamesItsFile ==
    /\ \A d \in DD : InUse(d) => Leads(dd[d].hdl, dd[d].ino)
    /\ \A g \in GuestFD : IsOpen(g) => Leads(file[g].hdl, file[g].ino)

(* No file has two handles in use, even if its name changed between fstatat()
   and openat(). *)
InoOnce == \A h, k \in Hdl : Used(h) /\ Used(k) /\ fdTab[h].ino = fdTab[k].ino => h = k

(* A search that getOpendir() lets a process continue reads the directory it
   was started on, although its entry may have been closed, taken by others or
   copied with its DTA in between. *)
SearchNeverCrosses ==
    \A s \in Search, p \in Pd : search[s] # Idle /\ Granted(s, p) =>
        LET f == opendirTable[search[s].odh].fd
        IN  f \in Fd /\ hostFd[f].ino = search[s].ino

(* What the guest's blocks and searches stand for is what module OpenFiles says:
   blocks keep their files open, exactly as long as they denote them, and no
   search comes back to life in a slot that others use. *)
Own(s) == /\ search[s].odh \in Odh /\ Running(search[s].odh)
          /\ opendirTable[search[s].odh].hash = search[s].hash

Searching(f) == \E o \in Odh : Running(o) /\ opendirTable[o].fd = f

DDBlock == {"dd"} \X DD
Block == DDBlock \cup ({"file"} \X GuestFD)
Denotes(b) ==
    IF b[1] = "dd" THEN IF InUse(b[2]) THEN dd[b[2]].ino ELSE NoIno
                   ELSE IF IsOpen(b[2]) THEN file[b[2]].ino ELSE NoIno

Opened == [b \in Block |-> Denotes(b)]
Held == {hostFd[f].ino : f \in {e \in Fd : hostFd[e] # Closed /\ ~Searching(e)}}
Left == {fdTab[h].ino : h \in {k \in Hdl : lost[k] # 0}}
Searched == [o \in Odh |-> IF Running(o) THEN hostFd[opendirTable[o].fd].ino ELSE NoIno]
SlotOf == [s \in Search |-> IF Own(s) THEN search[s].odh ELSE -1]

Files == INSTANCE OpenFiles WITH
    RootBlock <- DDBlock, Slot <- Odh, NoSlot <- -1,
    opened <- Opened, held <- Held, left <- Left, searched <- Searched, slotOf <- SlotOf

OpenFilesSpec == Files!Spec

(* dev_stat() says of every open file "we can always write": one that was opened
   for writing has a descriptor that can be written to. *)
WriterCanWrite ==
    \A g \in GuestFD : IsOpen(g) /\ file[g].write => hostFd[fdTab[file[g].hdl].fd].write
=============================================================================
