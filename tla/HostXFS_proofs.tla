--------------------------- MODULE HostXFS_proofs ---------------------------
(***************************************************************************)
(* Proofs about HostXFS, for tables of every size, any number of files,    *)
(* drives and processes, and any finite number of the driver's blocks.     *)
(*                                                                         *)
(* Every operation on fdTab either acquires a reference (Acquired) or      *)
(* gives one back (Released); these two are shown to keep the tables       *)
(* consistent, and each action is then one of them and one of the driver's *)
(* blocks.                                                                 *)
(***************************************************************************)
EXTENDS HostXFS, FiniteSetTheorems, TLAPS

-----------------------------------------------------------------------------
(* The inductive invariant *)

\* A handle in use has an open descriptor on the file it says it has.
HandleLeads == \A h \in Hdl : Used(h) => /\ fdTab[h].ino \in Ino
                                         /\ hostFd[fdTab[h].fd].ino = fdTab[h].ino
Tables == HandleLeads /\ FdsOwnedOnce /\ InoOnce

\* The driver's blocks: their handle was given for their file, a root is a block
\* in use of one drive, an open file is counted.
DDNamed(d)   == InUse(d) => dd[d].ino = fdTab[dd[d].hdl].ino
FileNamed(g) == IsOpen(g) => file[g].ino = fdTab[file[g].hdl].ino
Blocks ==
    /\ \A d \in DD : DDNamed(d)
    /\ \A g \in GuestFD : FileNamed(g)
    /\ \A g \in GuestFD : IsOpen(g) => file[g].refcnt > 0
    /\ \A v \in Drv : root[v] # NoDD => InUse(root[v])
    /\ \A v, w \in Drv : root[v] = root[w] /\ root[v] # NoDD => v = w

\* Searches whose entry still is their own.
SearchLeads == \A s \in Search : Own(s) => hostFd[opendirTable[search[s].odh].fd].ino = search[s].ino

IInv == TypeOK /\ RefsBalance /\ Tables /\ Blocks /\ SearchLeads

-----------------------------------------------------------------------------
(* The two kinds of operation on fdTab *)

Kept ==
    /\ HandleTypeOK' /\ Tables'
    /\ \A o \in Odh : Running(o) => hostFd'[opendirTable[o].fd] = hostFd[opendirTable[o].fd]
    /\ UNCHANGED opendirTable

Acquired(i, h) ==
    /\ Kept
    /\ \A k \in Hdl : fdTab'[k].ref_cnt = IF k = h THEN fdTab[k].ref_cnt + 1 ELSE fdTab[k].ref_cnt
    /\ \A k \in Hdl : Used(k) => fdTab'[k].ino = fdTab[k].ino
    /\ fdTab'[h].ino = i

Released(h) ==
    /\ Kept
    /\ \A k \in Hdl : fdTab'[k].ref_cnt = IF k = h THEN fdTab[k].ref_cnt - 1 ELSE fdTab[k].ref_cnt
    /\ \A k \in Hdl : fdTab'[k].ino = fdTab[k].ino

\* One more user of a handle in use: findHostFD(), or the empty path.
LEMMA AddRefAcquires ==
    ASSUME HandleTypeOK, Tables, NEW h \in Hdl, Used(h), AddRef(h), UNCHANGED <<hostFd, opendirTable, now>>
    PROVE  Acquired(fdTab[h].ino, h)
<1>1. HandleTypeOK'
    BY DEF HandleTypeOK, AddRef
<1>2. \A k \in Hdl : /\ fdTab'[k].fd = fdTab[k].fd
                     /\ fdTab'[k].ino = fdTab[k].ino
                     /\ fdTab'[k].ref_cnt = IF k = h THEN fdTab[k].ref_cnt + 1 ELSE fdTab[k].ref_cnt
    BY DEF HandleTypeOK, AddRef
<1>3. \A k \in Hdl : Used(k)' <=> Used(k)
    BY <1>2 DEF Used, HandleTypeOK
<1>4. \A o \in Odh : Running(o)' <=> Running(o)
    BY DEF Running
<1>5. HandleLeads'
    BY <1>2, <1>3 DEF Tables, HandleLeads
<1>6. FdsOwnedOnce'
    BY <1>2, <1>3, <1>4 DEF Tables, FdsOwnedOnce
<1>7. InoOnce'
    BY <1>2, <1>3 DEF Tables, InoOnce
<1> QED
    BY <1>1, <1>2, <1>5, <1>6, <1>7 DEF Acquired, Kept, Tables

\* A descriptor just opened on i: kept in the free entry p, or closed again
\* because another entry has the file.
LEMMA AllocAcquires ==
    ASSUME HandleTypeOK, Tables, NEW p \in Hdl, NEW h \in Hdl, NEW f \in Fd, NEW i \in Ino,
           NEW w \in BOOLEAN, getFreeHostFD(p), NewFd(f), allocHostFD(p, f, i, w, h),
           UNCHANGED <<opendirTable, now>>
    PROVE  Acquired(i, h)
<1>1. ~Used(p) /\ hostFd[f] = Closed
    BY DEF getFreeHostFD, NewFd, IsFirst, FreeFds
<1>2. /\ \A k \in Hdl : Used(k) => fdTab[k].fd # f
      /\ \A o \in Odh : Running(o) => opendirTable[o].fd # f
    BY <1>1 DEF Tables, FdsOwnedOnce
<1>3. \A o \in Odh : Running(o)' <=> Running(o)
    BY DEF Running
<1>4. CASE SameFile(i) = {}
    <2>1. h = p
        BY <1>4 DEF allocHostFD, Shared
    <2>2. hostFd' = [hostFd EXCEPT ![f] = [ino |-> i, write |-> w]]
        BY <2>1 DEF allocHostFD, WithOpen
    <2>3. fdTab' = [[fdTab EXCEPT ![p].fd = f, ![p].ino = i] EXCEPT ![p].ref_cnt = @ + 1]
        BY <2>1 DEF allocHostFD
    <2>4. /\ fdTab'[p].ref_cnt = 1 /\ fdTab'[p].fd = f /\ fdTab'[p].ino = i
          /\ \A k \in Hdl : k # p => fdTab'[k] = fdTab[k]
        BY <2>3, <1>1 DEF HandleTypeOK, Used
    <2>5. HandleTypeOK'
        BY <2>2, <2>3 DEF HandleTypeOK
    <2>6. \A k \in Hdl : Used(k)' <=> (Used(k) \/ k = p)
        BY <2>4, <1>1 DEF Used
    <2>7. hostFd'[f].ino = i /\ \A e \in Fd : e # f => hostFd'[e] = hostFd[e]
        BY <2>2 DEF HandleTypeOK
    <2>8. HandleLeads'
        BY <1>2, <2>4, <2>6, <2>7 DEF Tables, HandleLeads, FdsOwnedOnce
    <2>9. hostFd'[f] # Closed
        BY <2>7, Nobody DEF Closed
    <2>10. FdsOwnedOnce'
        <3>1. \A k \in Hdl : Used(k)' => fdTab'[k].fd \in Fd
            BY <2>4, <2>6 DEF Tables, FdsOwnedOnce
        <3>2. \A o \in Odh : Running(o)' => opendirTable'[o].fd \in Fd
            <4>1. \A o \in Odh : Running(o) => opendirTable[o].fd \in Fd
                BY DEF Tables, FdsOwnedOnce
            <4> QED BY <4>1, <1>3
        <3>3. \A k, l \in Hdl : Used(k)' /\ Used(l)' /\ fdTab'[k].fd = fdTab'[l].fd => k = l
            BY <2>4, <2>6, <1>2 DEF Tables, FdsOwnedOnce
        <3>4. \A o, q \in Odh : Running(o)' /\ Running(q)' /\ opendirTable'[o].fd = opendirTable'[q].fd
                                  => o = q
            BY <1>3 DEF Tables, FdsOwnedOnce
        <3>5. \A k \in Hdl, o \in Odh : Used(k)' /\ Running(o)' => fdTab'[k].fd # opendirTable'[o].fd
            BY <1>2, <1>3, <2>4, <2>6 DEF Tables, FdsOwnedOnce
        <3>6. ASSUME NEW e \in Fd
              PROVE  hostFd'[e] # Closed <=> \/ \E k \in Hdl : Used(k)' /\ fdTab'[k].fd = e
                                            \/ \E o \in Odh : Running(o)' /\ opendirTable'[o].fd = e
            <4>1. CASE e = f
                BY <4>1, <2>4, <2>6, <2>9
            <4>2. CASE e # f
                BY <4>2, <2>4, <2>6, <2>7, <1>1, <1>3 DEF Tables, FdsOwnedOnce
            <4> QED BY <4>1, <4>2
        <3> QED BY <3>1, <3>2, <3>3, <3>4, <3>5, <3>6 DEF FdsOwnedOnce, Closed
    <2>11. InoOnce'
        BY <1>4, <2>4, <2>6 DEF Tables, InoOnce, SameFile
    <2>12. \A o \in Odh : Running(o) => hostFd'[opendirTable[o].fd] = hostFd[opendirTable[o].fd]
        BY <1>2, <2>7 DEF Tables, FdsOwnedOnce
    <2> QED
        BY <1>1, <2>1, <2>4, <2>5, <2>8, <2>10, <2>11, <2>12 DEF Acquired, Kept, Tables, Used
<1>5. CASE SameFile(i) # {}
    <2>1. h \in SameFile(i)
        BY <1>5 DEF allocHostFD, Shared, IsFirst
    <2>2. Used(h) /\ fdTab[h].ino = i /\ h # p
        BY <2>1, <1>1 DEF SameFile
    <2>3. hostFd' = hostFd
        BY <2>2, <1>2 DEF allocHostFD
    <2>4. fdTab' = [[fdTab EXCEPT ![p].fd = f, ![p].ino = i] EXCEPT ![h].ref_cnt = @ + 1]
        BY DEF allocHostFD
    <2>5. HandleTypeOK'
        <3>1. fdTab' \in [Hdl -> [ref_cnt : Nat, ino : Ino \cup {NoIno}, fd : Fd \cup {-1}]]
            <4> DEFINE tab == [fdTab EXCEPT ![p].fd = f, ![p].ino = i]
            <4>1. tab \in [Hdl -> [ref_cnt : Nat, ino : Ino \cup {NoIno}, fd : Fd \cup {-1}]]
                BY DEF HandleTypeOK
            <4>2. fdTab' = [tab EXCEPT ![h].ref_cnt = @ + 1]
                BY <2>4
            <4> HIDE DEF tab
            <4> QED BY <4>1, <4>2
        <3> QED BY <2>3, <3>1 DEF HandleTypeOK
    <2>6. \A k \in Hdl : fdTab'[k].ref_cnt = IF k = h THEN fdTab[k].ref_cnt + 1 ELSE fdTab[k].ref_cnt
        BY <2>4, <2>2 DEF HandleTypeOK
    <2>7. \A k \in Hdl : k # p => fdTab'[k].fd = fdTab[k].fd /\ fdTab'[k].ino = fdTab[k].ino
        BY <2>4 DEF HandleTypeOK
    <2>8. \A k \in Hdl : Used(k)' <=> Used(k)
        BY <2>2, <2>6 DEF Used, HandleTypeOK
    <2>9. \A k \in Hdl : Used(k) => fdTab'[k].fd = fdTab[k].fd /\ fdTab'[k].ino = fdTab[k].ino
        BY <2>7, <1>1
    <2>10. HandleLeads'
        BY <2>3, <2>8, <2>9 DEF Tables, HandleLeads
    <2>11. FdsOwnedOnce'
        BY <1>3, <2>3, <2>8, <2>9 DEF Tables, FdsOwnedOnce
    <2>12. InoOnce'
        BY <2>8, <2>9 DEF Tables, InoOnce
    <2> QED
        BY <2>2, <2>3, <2>5, <2>6, <2>9, <2>10, <2>11, <2>12 DEF Acquired, Kept, Tables
<1> QED BY <1>4, <1>5

\* A reference is given back, and with the last one the descriptor.
LEMMA FreeReleases ==
    ASSUME HandleTypeOK, Tables, NEW h \in Hdl, Used(h), freeHostFD(h), UNCHANGED <<opendirTable, now>>
    PROVE  Released(h)
<1>1. \A o \in Odh : Running(o)' <=> Running(o)
    BY DEF Running
<1>2. fdTab[h].fd \in Fd
    BY DEF Tables, FdsOwnedOnce
<1>3. CASE fdTab[h].ref_cnt = 1
    <2>1. /\ fdTab' = [fdTab EXCEPT ![h].ref_cnt = 0, ![h].fd = -1]
          /\ hostFd' = [f \in Fd |-> IF f \in {fdTab[h].fd} THEN Closed ELSE hostFd[f]]
        BY <1>3 DEF freeHostFD, WithClosed
    <2>2. /\ fdTab'[h].ref_cnt = 0 /\ fdTab'[h].ino = fdTab[h].ino
          /\ \A k \in Hdl : k # h => fdTab'[k] = fdTab[k]
        BY <2>1 DEF HandleTypeOK
    <2>3. HandleTypeOK'
        BY <2>1, Nobody DEF HandleTypeOK, Closed
    <2>4. \A k \in Hdl : Used(k)' <=> Used(k) /\ k # h
        BY <2>2 DEF Used
    <2>5. hostFd'[fdTab[h].fd] = Closed /\ \A e \in Fd : e # fdTab[h].fd => hostFd'[e] = hostFd[e]
        BY <1>2, <2>1
    <2>6. HandleLeads'
        BY <2>2, <2>4, <2>5 DEF Tables, HandleLeads, FdsOwnedOnce
    <2>7. FdsOwnedOnce'
        <3>1. \A k \in Hdl : Used(k)' => fdTab'[k].fd = fdTab[k].fd /\ Used(k) /\ k # h
            BY <2>2, <2>4
        <3>2. ASSUME NEW e \in Fd
              PROVE  hostFd'[e] # Closed <=> \/ \E k \in Hdl : Used(k)' /\ fdTab'[k].fd = e
                                            \/ \E o \in Odh : Running(o)' /\ opendirTable'[o].fd = e
            <4>1. CASE e = fdTab[h].fd
                BY <4>1, <3>1, <2>5, <1>1 DEF Tables, FdsOwnedOnce
            <4>2. CASE e # fdTab[h].fd
                BY <4>2, <2>2, <2>4, <2>5, <1>1 DEF Tables, FdsOwnedOnce
            <4> QED BY <4>1, <4>2
        <3>3. \A k \in Hdl : Used(k)' => fdTab'[k].fd \in Fd
            BY <3>1 DEF Tables, FdsOwnedOnce
        <3>4. \A o \in Odh : Running(o)' => opendirTable'[o].fd \in Fd
            BY <1>1 DEF Tables, FdsOwnedOnce
        <3>5. \A k, l \in Hdl : Used(k)' /\ Used(l)' /\ fdTab'[k].fd = fdTab'[l].fd => k = l
            BY <3>1 DEF Tables, FdsOwnedOnce
        <3>6. \A o, q \in Odh : Running(o)' /\ Running(q)' /\ opendirTable'[o].fd = opendirTable'[q].fd
                                  => o = q
            BY <1>1 DEF Tables, FdsOwnedOnce
        <3>7. \A k \in Hdl, o \in Odh : Used(k)' /\ Running(o)' => fdTab'[k].fd # opendirTable'[o].fd
            BY <1>1, <3>1 DEF Tables, FdsOwnedOnce
        <3> QED BY <3>2, <3>3, <3>4, <3>5, <3>6, <3>7 DEF FdsOwnedOnce, Closed
    <2>8. InoOnce'
        BY <2>2, <2>4 DEF Tables, InoOnce
    <2>9. \A o \in Odh : Running(o) => hostFd'[opendirTable[o].fd] = hostFd[opendirTable[o].fd]
        BY <2>5 DEF Tables, FdsOwnedOnce
    <2> QED
        BY <1>3, <2>2, <2>3, <2>6, <2>7, <2>8, <2>9 DEF Released, Kept, Tables
<1>4. CASE fdTab[h].ref_cnt # 1
    <2>1. fdTab' = [fdTab EXCEPT ![h].ref_cnt = @ - 1] /\ hostFd' = hostFd
        BY <1>4 DEF freeHostFD
    <2>2. fdTab[h].ref_cnt - 1 \in Nat \ {0}
        BY <1>4 DEF HandleTypeOK, Used
    <2>3. HandleTypeOK'
        BY <2>1, <2>2 DEF HandleTypeOK
    <2>4. \A k \in Hdl : /\ fdTab'[k].fd = fdTab[k].fd
                         /\ fdTab'[k].ino = fdTab[k].ino
                         /\ fdTab'[k].ref_cnt = IF k = h THEN fdTab[k].ref_cnt - 1 ELSE fdTab[k].ref_cnt
        BY <2>1 DEF HandleTypeOK
    <2>5. \A k \in Hdl : Used(k)' <=> Used(k)
        BY <2>2, <2>4 DEF Used
    <2>6. HandleLeads'
        BY <2>1, <2>4, <2>5 DEF Tables, HandleLeads
    <2>7. FdsOwnedOnce'
        BY <2>1, <2>4, <2>5, <1>1 DEF Tables, FdsOwnedOnce
    <2>8. InoOnce'
        BY <2>4, <2>5 DEF Tables, InoOnce
    <2> QED
        BY <2>1, <2>3, <2>4, <2>6, <2>7, <2>8 DEF Released, Kept, Tables
<1> QED BY <1>3, <1>4

-----------------------------------------------------------------------------
(* Counting the blocks that name a handle *)

LEMMA CountOneMore ==
    ASSUME NEW S, IsFiniteSet(S), NEW A, NEW B, A \subseteq S, NEW x \in S, x \notin A, B = A \cup {x}
    PROVE  Cardinality(B) = Cardinality(A) + 1 /\ Cardinality(A) \in Nat
BY FS_Subset, FS_AddElement, FS_CardinalityType

LEMMA CountOneLess ==
    ASSUME NEW S, IsFiniteSet(S), NEW A, NEW B, A \subseteq S, NEW x \in A, B = A \ {x}
    PROVE  Cardinality(B) = Cardinality(A) - 1 /\ Cardinality(A) \in Nat
BY FS_Subset, FS_RemoveElement, FS_CardinalityType

LEMMA CountsAreNatural ==
    ASSUME NEW h
    PROVE  Cardinality(DDsOf(h)) \in Nat /\ Cardinality(FilesOf(h)) \in Nat
BY FiniteGuest, FS_Subset, FS_CardinalityType DEF DDsOf, FilesOf

\* A handle that a block names is in use.
LEMMA NamedIsUsed ==
    ASSUME TypeOK, RefsBalance
    PROVE  /\ \A d \in DD : InUse(d) => dd[d].hdl \in Hdl /\ Used(dd[d].hdl)
           /\ \A g \in GuestFD : IsOpen(g) => file[g].hdl \in Hdl /\ Used(file[g].hdl)
<1>1. ASSUME NEW d \in DD, InUse(d)
      PROVE  dd[d].hdl \in Hdl /\ Used(dd[d].hdl)
    <2>1. dd[d].hdl \in Hdl
        BY <1>1 DEF TypeOK, InUse
    <2>2. d \in DDsOf(dd[d].hdl) /\ IsFiniteSet(DDsOf(dd[d].hdl))
        BY FiniteGuest, FS_Subset DEF DDsOf
    <2>3. Cardinality(DDsOf(dd[d].hdl)) # 0
        BY <2>2, FS_EmptySet
    <2>4. /\ Cardinality(DDsOf(dd[d].hdl)) \in Nat
          /\ Cardinality(FilesOf(dd[d].hdl)) \in Nat
          /\ lost[dd[d].hdl] \in Nat
        BY <2>1, CountsAreNatural DEF TypeOK
    <2>5. fdTab[dd[d].hdl].ref_cnt
            = Cardinality(DDsOf(dd[d].hdl)) + Cardinality(FilesOf(dd[d].hdl)) + lost[dd[d].hdl]
        BY <2>1 DEF RefsBalance
    <2>6. fdTab[dd[d].hdl].ref_cnt # 0
        BY <2>3, <2>4, <2>5
    <2> QED
        BY <2>1, <2>6 DEF Used
<1>2. ASSUME NEW g \in GuestFD, IsOpen(g)
      PROVE  file[g].hdl \in Hdl /\ Used(file[g].hdl)
    <2>1. file[g].hdl \in Hdl
        BY <1>2 DEF TypeOK, IsOpen
    <2>2. g \in FilesOf(file[g].hdl) /\ IsFiniteSet(FilesOf(file[g].hdl))
        BY FiniteGuest, FS_Subset DEF FilesOf
    <2>3. Cardinality(FilesOf(file[g].hdl)) # 0
        BY <2>2, FS_EmptySet
    <2>4. /\ Cardinality(DDsOf(file[g].hdl)) \in Nat
          /\ Cardinality(FilesOf(file[g].hdl)) \in Nat
          /\ lost[file[g].hdl] \in Nat
        BY <2>1, CountsAreNatural DEF TypeOK
    <2>5. fdTab[file[g].hdl].ref_cnt
            = Cardinality(DDsOf(file[g].hdl)) + Cardinality(FilesOf(file[g].hdl)) + lost[file[g].hdl]
        BY <2>1 DEF RefsBalance
    <2>6. fdTab[file[g].hdl].ref_cnt # 0
        BY <2>3, <2>4, <2>5
    <2> QED
        BY <2>1, <2>6 DEF Used
<1> QED BY <1>1, <1>2

-----------------------------------------------------------------------------
(* A block of the driver with a reference it got, or gave back *)

LEMMA GiveToDD ==
    ASSUME IInv, NEW d \in DD, ~InUse(d), NEW h \in Hdl, NEW i \in Ino, NEW v \in Drv, Acquired(i, h),
           dd' = [dd EXCEPT ![d] = [hdl |-> h, ino |-> i, drv |-> v]], UNCHANGED <<file, lost>>
    PROVE  /\ RefsBalance'
           /\ \A e \in DD : DDNamed(e)'
           /\ \A g \in GuestFD : FileNamed(g)'
<1>1. dd'[d] = [hdl |-> h, ino |-> i, drv |-> v] /\ \A e \in DD : e # d => dd'[e] = dd[e]
    BY DEF IInv, TypeOK
<1>2. dd[d].hdl = -1 /\ -1 \notin Hdl
    BY DEF InUse, Hdl
<1>3. ASSUME NEW k \in Hdl
      PROVE  fdTab'[k].ref_cnt = Cardinality(DDsOf(k)') + Cardinality(FilesOf(k)') + lost'[k]
    <2>1. FilesOf(k)' = FilesOf(k)
        BY DEF FilesOf
    <2>2. CASE k = h
        <3>1. DDsOf(h)' = DDsOf(h) \cup {d} /\ d \notin DDsOf(h) /\ DDsOf(h) \subseteq DD
            BY <1>1, <1>2 DEF DDsOf
        <3>2. Cardinality(DDsOf(h)') = Cardinality(DDsOf(h)) + 1
            BY <3>1, FiniteGuest, CountOneMore
        <3> QED
            BY <2>1, <2>2, <3>2, CountsAreNatural DEF IInv, TypeOK, RefsBalance, Acquired
    <2>3. CASE k # h
        <3>1. DDsOf(k)' = DDsOf(k)
            BY <1>1, <1>2, <2>3 DEF DDsOf
        <3> QED
            BY <2>1, <2>3, <3>1 DEF IInv, RefsBalance, Acquired
    <2> QED BY <2>2, <2>3
<1>4. ASSUME NEW e \in DD
      PROVE  DDNamed(e)'
    <2>1. CASE e = d
        BY <2>1, <1>1 DEF DDNamed, InUse, Acquired
    <2>2. CASE e # d
        BY <2>2, <1>1, NamedIsUsed DEF IInv, Blocks, DDNamed, InUse, Acquired
    <2> QED BY <2>1, <2>2
<1>5. \A g \in GuestFD : FileNamed(g)'
    BY NamedIsUsed DEF IInv, Blocks, FileNamed, IsOpen, Acquired
<1> QED BY <1>3, <1>4, <1>5 DEF RefsBalance

LEMMA TakeFromDD ==
    ASSUME IInv, NEW d \in DD, InUse(d), Released(dd[d].hdl),
           dd' = [dd EXCEPT ![d] = NoRef], UNCHANGED <<file, lost>>
    PROVE  /\ RefsBalance'
           /\ \A e \in DD : DDNamed(e)'
           /\ \A g \in GuestFD : FileNamed(g)'
<1> DEFINE h == dd[d].hdl
<1>1. dd'[d] = NoRef /\ \A e \in DD : e # d => dd'[e] = dd[e]
    BY DEF IInv, TypeOK
<1>2. dd'[d].hdl = -1 /\ -1 \notin Hdl
    BY <1>1 DEF NoRef, Hdl
<1>3. ASSUME NEW k \in Hdl
      PROVE  fdTab'[k].ref_cnt = Cardinality(DDsOf(k)') + Cardinality(FilesOf(k)') + lost'[k]
    <2>1. FilesOf(k)' = FilesOf(k)
        BY DEF FilesOf
    <2>2. CASE k = h
        <3>1. DDsOf(k)' = DDsOf(k) \ {d} /\ d \in DDsOf(k) /\ DDsOf(k) \subseteq DD
            BY <1>1, <1>2, <2>2 DEF DDsOf
        <3>2. Cardinality(DDsOf(k)') = Cardinality(DDsOf(k)) - 1
            BY <3>1, FiniteGuest, CountOneLess
        <3>3. fdTab'[k].ref_cnt = fdTab[k].ref_cnt - 1
            BY <2>2 DEF Released
        <3>4. fdTab[k].ref_cnt = Cardinality(DDsOf(k)) + Cardinality(FilesOf(k)) + lost[k]
            BY DEF IInv, RefsBalance
        <3>5. lost'[k] \in Nat /\ lost'[k] = lost[k]
            BY DEF IInv, TypeOK
        <3> QED
            BY <2>1, <2>2, <3>2, <3>3, <3>4, <3>5, CountsAreNatural
    <2>3. CASE k # h
        <3>1. DDsOf(k)' = DDsOf(k)
            BY <1>1, <1>2, <2>3 DEF DDsOf
        <3> QED
            BY <2>1, <2>3, <3>1 DEF IInv, RefsBalance, Released
    <2> QED BY <2>2, <2>3
<1>4. ASSUME NEW e \in DD
      PROVE  DDNamed(e)'
    <2>1. CASE e = d
        BY <2>1, <1>2 DEF DDNamed, InUse
    <2>2. CASE e # d
        BY <2>2, <1>1, NamedIsUsed DEF IInv, Blocks, DDNamed, InUse, Released
    <2> QED BY <2>1, <2>2
<1>5. \A g \in GuestFD : FileNamed(g)'
    BY NamedIsUsed DEF IInv, Blocks, FileNamed, IsOpen, Released
<1> QED BY <1>3, <1>4, <1>5 DEF RefsBalance

LEMMA GiveToFile ==
    ASSUME IInv, NEW g \in GuestFD, ~IsOpen(g), NEW h \in Hdl, NEW i \in Ino, NEW w \in BOOLEAN,
           Acquired(i, h), UNCHANGED <<dd, lost>>,
           file' = [file EXCEPT ![g] = [hdl |-> h, refcnt |-> 1, ino |-> i, write |-> w]]
    PROVE  /\ RefsBalance'
           /\ \A e \in DD : DDNamed(e)'
           /\ \A e \in GuestFD : FileNamed(e)'
<1>1. /\ file'[g] = [hdl |-> h, refcnt |-> 1, ino |-> i, write |-> w]
      /\ \A e \in GuestFD : e # g => file'[e] = file[e]
    BY DEF IInv, TypeOK
<1>2. file[g].hdl = -1 /\ -1 \notin Hdl
    BY DEF IsOpen, Hdl
<1>3. ASSUME NEW k \in Hdl
      PROVE  fdTab'[k].ref_cnt = Cardinality(DDsOf(k)') + Cardinality(FilesOf(k)') + lost'[k]
    <2>1. DDsOf(k)' = DDsOf(k)
        BY DEF DDsOf
    <2>2. CASE k = h
        <3>1. FilesOf(h)' = FilesOf(h) \cup {g} /\ g \notin FilesOf(h) /\ FilesOf(h) \subseteq GuestFD
            BY <1>1, <1>2 DEF FilesOf
        <3>2. Cardinality(FilesOf(h)') = Cardinality(FilesOf(h)) + 1
            BY <3>1, FiniteGuest, CountOneMore
        <3> QED
            BY <2>1, <2>2, <3>2, CountsAreNatural DEF IInv, TypeOK, RefsBalance, Acquired
    <2>3. CASE k # h
        <3>1. FilesOf(k)' = FilesOf(k)
            BY <1>1, <1>2, <2>3 DEF FilesOf
        <3> QED
            BY <2>1, <2>3, <3>1 DEF IInv, RefsBalance, Acquired
    <2> QED BY <2>2, <2>3
<1>4. \A e \in DD : DDNamed(e)'
    BY NamedIsUsed DEF IInv, Blocks, DDNamed, InUse, Acquired
<1>5. ASSUME NEW e \in GuestFD
      PROVE  FileNamed(e)'
    <2>1. CASE e = g
        BY <2>1, <1>1 DEF FileNamed, IsOpen, Acquired
    <2>2. CASE e # g
        BY <2>2, <1>1, NamedIsUsed DEF IInv, Blocks, FileNamed, IsOpen, Acquired
    <2> QED BY <2>1, <2>2
<1> QED BY <1>3, <1>4, <1>5 DEF RefsBalance

LEMMA TakeFromFile ==
    ASSUME IInv, NEW g \in GuestFD, IsOpen(g), Released(file[g].hdl),
           file' = [file EXCEPT ![g] = NoFile], UNCHANGED <<dd, lost>>
    PROVE  /\ RefsBalance'
           /\ \A e \in DD : DDNamed(e)'
           /\ \A e \in GuestFD : FileNamed(e)'
<1> DEFINE h == file[g].hdl
<1>1. file'[g] = NoFile /\ \A e \in GuestFD : e # g => file'[e] = file[e]
    BY DEF IInv, TypeOK
<1>2. file'[g].hdl = -1 /\ -1 \notin Hdl
    BY <1>1 DEF NoFile, Hdl
<1>3. ASSUME NEW k \in Hdl
      PROVE  fdTab'[k].ref_cnt = Cardinality(DDsOf(k)') + Cardinality(FilesOf(k)') + lost'[k]
    <2>1. DDsOf(k)' = DDsOf(k)
        BY DEF DDsOf
    <2>2. CASE k = h
        <3>1. FilesOf(k)' = FilesOf(k) \ {g} /\ g \in FilesOf(k) /\ FilesOf(k) \subseteq GuestFD
            BY <1>1, <1>2, <2>2 DEF FilesOf
        <3>2. Cardinality(FilesOf(k)') = Cardinality(FilesOf(k)) - 1
            BY <3>1, FiniteGuest, CountOneLess
        <3>3. fdTab'[k].ref_cnt = fdTab[k].ref_cnt - 1
            BY <2>2 DEF Released
        <3>4. fdTab[k].ref_cnt = Cardinality(DDsOf(k)) + Cardinality(FilesOf(k)) + lost[k]
            BY DEF IInv, RefsBalance
        <3>5. lost'[k] \in Nat /\ lost'[k] = lost[k]
            BY DEF IInv, TypeOK
        <3> QED
            BY <2>1, <2>2, <3>2, <3>3, <3>4, <3>5, CountsAreNatural
    <2>3. CASE k # h
        <3>1. FilesOf(k)' = FilesOf(k)
            BY <1>1, <1>2, <2>3 DEF FilesOf
        <3> QED
            BY <2>1, <2>3, <3>1 DEF IInv, RefsBalance, Released
    <2> QED BY <2>2, <2>3
<1>4. \A e \in DD : DDNamed(e)'
    BY NamedIsUsed DEF IInv, Blocks, DDNamed, InUse, Released
<1>5. ASSUME NEW e \in GuestFD
      PROVE  FileNamed(e)'
    <2>1. CASE e = g
        BY <2>1, <1>2 DEF FileNamed, IsOpen
    <2>2. CASE e # g
        BY <2>2, <1>1, NamedIsUsed DEF IInv, Blocks, FileNamed, IsOpen, Released
    <2> QED BY <2>1, <2>2
<1> QED BY <1>3, <1>4, <1>5 DEF RefsBalance

\* Searches do not notice what happens to the handles.
LEMMA SearchesKept ==
    ASSUME IInv, Kept, UNCHANGED search
    PROVE  SearchLeads'
BY DEF IInv, Kept, SearchLeads, Own, Running

-----------------------------------------------------------------------------
(* Searches end and begin *)

\* Some running searches are closed, the others keep their descriptors.
LEMMA ClosingSearches ==
    ASSUME HandleTypeOK, Tables, NEW O \in SUBSET Odh, \A o \in O : Running(o),
           opendirTable' = [o \in Odh |-> IF o \in O THEN NoSearch(o) ELSE opendirTable[o]],
           hostFd' = WithClosed({opendirTable[o].fd : o \in O}), UNCHANGED <<fdTab, now>>
    PROVE  /\ HandleTypeOK' /\ Tables'
           /\ \A o \in Odh : Running(o)' <=> Running(o) /\ o \notin O
           /\ \A o \in Odh : o \notin O => opendirTable'[o] = opendirTable[o]
           /\ \A o \in Odh \ O : Running(o) => hostFd'[opendirTable[o].fd] = hostFd[opendirTable[o].fd]
<1> DEFINE F == {opendirTable[o].fd : o \in O}
<1>1. /\ \A o \in Odh : Running(o)' <=> Running(o) /\ o \notin O
      /\ \A o \in Odh : o \notin O => opendirTable'[o] = opendirTable[o]
    BY DEF Running, NoSearch, HandleTypeOK
<1>2. \A f \in Fd : hostFd'[f] = IF f \in F THEN Closed ELSE hostFd[f]
    BY DEF WithClosed
<1>3. \A h \in Hdl : Used(h)' <=> Used(h)
    BY DEF Used
<1>4. HandleTypeOK'
    <2>1. opendirTable' \in [Odh -> [lru : Nat, pd : Pd \cup {NoPd}, hash : Hash \cup {0}, fd : Fd \cup {-1}]]
        BY DEF HandleTypeOK, NoSearch
    <2>2. hostFd' \in [Fd -> [ino : Ino \cup {NoIno}, write : BOOLEAN]]
        BY DEF HandleTypeOK, WithClosed, Closed
    <2> QED BY <2>1, <2>2 DEF HandleTypeOK
<1>5. \A h \in Hdl : Used(h) => fdTab[h].fd \in Fd /\ fdTab[h].fd \notin F
    BY DEF Tables, FdsOwnedOnce
<1>6. \A o \in Odh \ O : Running(o) => opendirTable[o].fd \in Fd /\ opendirTable[o].fd \notin F
    BY DEF Tables, FdsOwnedOnce
<1>7. HandleLeads'
    BY <1>2, <1>3, <1>5 DEF Tables, HandleLeads
<1>8. InoOnce'
    BY <1>3 DEF Tables, InoOnce
<1>9. FdsOwnedOnce'
    <2>1. ASSUME NEW e \in Fd
          PROVE  hostFd'[e] # Closed <=> \/ \E k \in Hdl : Used(k)' /\ fdTab'[k].fd = e
                                        \/ \E o \in Odh : Running(o)' /\ opendirTable'[o].fd = e
        <3>1. CASE e \in F
            BY <3>1, <1>1, <1>2, <1>3, <1>5, <1>6
        <3>2. CASE e \notin F
            BY <3>2, <1>1, <1>2, <1>3 DEF Tables, FdsOwnedOnce
        <3> QED BY <3>1, <3>2
    <2>2. \A o \in Odh : Running(o)' => opendirTable'[o].fd \in Fd
        BY <1>1, <1>6
    <2>3. \A o, q \in Odh : Running(o)' /\ Running(q)' /\ opendirTable'[o].fd = opendirTable'[q].fd
                            => o = q
        BY <1>1 DEF Tables, FdsOwnedOnce
    <2>4. \A k \in Hdl, o \in Odh : Used(k)' /\ Running(o)' => fdTab'[k].fd # opendirTable'[o].fd
        BY <1>1, <1>3 DEF Tables, FdsOwnedOnce
    <2>5. /\ \A k \in Hdl : Used(k)' => fdTab'[k].fd \in Fd
          /\ \A k, l \in Hdl : Used(k)' /\ Used(l)' /\ fdTab'[k].fd = fdTab'[l].fd => k = l
        BY <1>3 DEF Tables, FdsOwnedOnce
    <2> QED BY <2>1, <2>2, <2>3, <2>4, <2>5 DEF FdsOwnedOnce, Closed
<1>10. \A o \in Odh \ O : Running(o) => hostFd'[opendirTable[o].fd] = hostFd[opendirTable[o].fd]
    BY <1>2, <1>6
<1> QED
    BY <1>1, <1>4, <1>7, <1>8, <1>9, <1>10 DEF Tables

\* closeOpendir() of a search that getOpendir() granted closes that one.
LEMMA CloseCloses ==
    ASSUME HandleTypeOK, Tables, NEW o \in Odh, Running(o), closeOpendir(o, opendirTable[o].hash),
           UNCHANGED <<fdTab, now>>
    PROVE  /\ HandleTypeOK' /\ Tables'
           /\ \A q \in Odh : Running(q)' <=> Running(q) /\ q # o
           /\ \A q \in Odh : q # o => opendirTable'[q] = opendirTable[q]
           /\ \A q \in Odh : q # o /\ Running(q) => hostFd'[opendirTable[q].fd] = hostFd[opendirTable[q].fd]
<1>1. opendirTable' = [q \in Odh |-> IF q \in {o} THEN NoSearch(q) ELSE opendirTable[q]]
    BY DEF closeOpendir, HandleTypeOK
<1>2. hostFd' = WithClosed({opendirTable[q].fd : q \in {o}})
    <2>1. {opendirTable[q].fd : q \in {o}} = {opendirTable[o].fd}
        OBVIOUS
    <2> QED BY <2>1 DEF closeOpendir
<1>3. {o} \in SUBSET Odh /\ \A q \in {o} : Running(q)
    OBVIOUS
<1>4. /\ HandleTypeOK' /\ Tables'
      /\ \A q \in Odh : Running(q)' <=> Running(q) /\ q \notin {o}
      /\ \A q \in Odh : q \notin {o} => opendirTable'[q] = opendirTable[q]
      /\ \A q \in Odh \ {o} : Running(q) => hostFd'[opendirTable[q].fd] = hostFd[opendirTable[q].fd]
    BY <1>1, <1>2, <1>3, ClosingSearches
<1> QED
    BY <1>4

\* A new search takes an entry, after closing what that entry held.
LEMMA OpeningSearch ==
    ASSUME HandleTypeOK, Tables, NEW o \in Odh, NEW f \in Fd, NEW i \in Ino, NEW p \in Pd, NEW x \in Hash,
           NewFd(f), allocOpendir(o, f, i, p, x), UNCHANGED <<fdTab, now>>
    PROVE  /\ HandleTypeOK' /\ Tables'
           /\ \A q \in Odh : Running(q)' <=> Running(q) \/ q = o
           /\ \A q \in Odh : q # o => opendirTable'[q] = opendirTable[q]
           /\ \A q \in Odh : q # o /\ Running(q) => hostFd'[opendirTable[q].fd] = hostFd[opendirTable[q].fd]
           /\ opendirTable'[o].hash = x /\ hostFd'[opendirTable'[o].fd].ino = i
<1> DEFINE F == IF Running(o) THEN {opendirTable[o].fd} ELSE {}
<1>1. hostFd[f] = Closed
    BY DEF NewFd, IsFirst, FreeFds
<1>2. /\ \A h \in Hdl : Used(h) => fdTab[h].fd \in Fd /\ fdTab[h].fd # f /\ fdTab[h].fd \notin F
      /\ \A q \in Odh : Running(q) => opendirTable[q].fd \in Fd /\ opendirTable[q].fd # f
      /\ \A q \in Odh : Running(q) /\ q # o => opendirTable[q].fd \notin F
    BY <1>1 DEF Tables, FdsOwnedOnce
<1>3. opendirTable' = [opendirTable EXCEPT ![o] = [lru |-> now, pd |-> p, hash |-> x, fd |-> f]]
    BY DEF allocOpendir
<1>4. /\ \A q \in Odh : q # o => opendirTable'[q] = opendirTable[q]
      /\ opendirTable'[o].hash = x /\ opendirTable'[o].fd = f /\ opendirTable'[o].lru # 0
    BY <1>3 DEF HandleTypeOK
<1>5. \A q \in Odh : Running(q)' <=> Running(q) \/ q = o
    BY <1>4 DEF Running
<1>6. hostFd' = [[e \in Fd |-> IF e \in F THEN Closed ELSE hostFd[e]] EXCEPT ![f] = [ino |-> i, write |-> FALSE]]
    BY DEF allocOpendir, WithClosed
<1>7. /\ hostFd'[f].ino = i /\ hostFd'[f] # Closed
      /\ \A e \in Fd : e # f => hostFd'[e] = IF e \in F THEN Closed ELSE hostFd[e]
    BY <1>6, Nobody DEF Closed
<1>8. HandleTypeOK'
    <2>1. opendirTable' \in [Odh -> [lru : Nat, pd : Pd \cup {NoPd}, hash : Hash \cup {0}, fd : Fd \cup {-1}]]
        BY <1>3 DEF HandleTypeOK
    <2>2. hostFd' \in [Fd -> [ino : Ino \cup {NoIno}, write : BOOLEAN]]
        BY <1>6 DEF HandleTypeOK, Closed
    <2> QED BY <2>1, <2>2 DEF HandleTypeOK
<1>9. \A h \in Hdl : Used(h)' <=> Used(h)
    BY DEF Used
<1>10. HandleLeads'
    BY <1>2, <1>7, <1>9 DEF Tables, HandleLeads
<1>11. InoOnce'
    BY <1>9 DEF Tables, InoOnce
<1>12. FdsOwnedOnce'
    <2>1. ASSUME NEW e \in Fd
          PROVE  hostFd'[e] # Closed <=> \/ \E k \in Hdl : Used(k)' /\ fdTab'[k].fd = e
                                        \/ \E q \in Odh : Running(q)' /\ opendirTable'[q].fd = e
        <3>1. CASE e = f
            BY <3>1, <1>4, <1>5, <1>7
        <3>2. CASE e # f /\ e \in F
            BY <3>2, <1>2, <1>4, <1>5, <1>7, <1>9
        <3>3. CASE e # f /\ e \notin F
            BY <3>3, <1>4, <1>5, <1>7, <1>9 DEF Tables, FdsOwnedOnce
        <3> QED BY <3>1, <3>2, <3>3
    <2>2. \A q \in Odh : Running(q)' => opendirTable'[q].fd \in Fd
        BY <1>2, <1>4, <1>5
    <2>3. \A r, q \in Odh : Running(r)' /\ Running(q)' /\ opendirTable'[r].fd = opendirTable'[q].fd
                            => r = q
        BY <1>2, <1>4, <1>5 DEF Tables, FdsOwnedOnce
    <2>4. \A k \in Hdl, q \in Odh : Used(k)' /\ Running(q)' => fdTab'[k].fd # opendirTable'[q].fd
        BY <1>2, <1>4, <1>5, <1>9 DEF Tables, FdsOwnedOnce
    <2>5. /\ \A k \in Hdl : Used(k)' => fdTab'[k].fd \in Fd
          /\ \A k, l \in Hdl : Used(k)' /\ Used(l)' /\ fdTab'[k].fd = fdTab'[l].fd => k = l
        BY <1>9 DEF Tables, FdsOwnedOnce
    <2> QED BY <2>1, <2>2, <2>3, <2>4, <2>5 DEF FdsOwnedOnce, Closed
<1>13. \A q \in Odh : q # o /\ Running(q) => hostFd'[opendirTable[q].fd] = hostFd[opendirTable[q].fd]
    BY <1>2, <1>7
<1> QED
    BY <1>4, <1>5, <1>7, <1>8, <1>10, <1>11, <1>12, <1>13 DEF Tables

-----------------------------------------------------------------------------
(* The invariant holds in the beginning and is preserved by each action *)

LEMMA InitIInv == Init => IInv
<1> SUFFICES ASSUME Init PROVE IInv
    OBVIOUS
<1>1. TypeOK
    <2>1. HandleTypeOK
        BY HandleNumbers DEF Init, HandleInit, HandleTypeOK, UnusedHandle, UnusedSearch, Closed, Hash, Fd
    <2>2. AnyDrv \in Drv
        BY Directories DEF AnyDrv
    <2> QED
        BY <2>1, <2>2 DEF Init, TypeOK, NoRef, NoFile, Idle
<1>2. RefsBalance
    <2> SUFFICES ASSUME NEW h \in Hdl
                 PROVE  fdTab[h].ref_cnt = Cardinality(DDsOf(h)) + Cardinality(FilesOf(h)) + lost[h]
        BY DEF RefsBalance
    <2>1. DDsOf(h) = {} /\ FilesOf(h) = {}
        BY DEF Init, DDsOf, FilesOf, NoRef, NoFile, Hdl
    <2>2. Cardinality(DDsOf(h)) = 0 /\ Cardinality(FilesOf(h)) = 0
        BY <2>1, FS_EmptySet
    <2> QED
        BY <2>2 DEF Init, HandleInit, UnusedHandle
<1>3. (\A h \in Hdl : ~Used(h)) /\ (\A o \in Odh : ~Running(o)) /\ (\A f \in Fd : hostFd[f] = Closed)
    BY DEF Init, HandleInit, UnusedHandle, UnusedSearch, Used, Running
<1>4. Tables
    BY <1>3 DEF Tables, HandleLeads, FdsOwnedOnce, InoOnce
<1>5. Blocks
    BY DEF Init, Blocks, DDNamed, FileNamed, InUse, IsOpen, NoRef, NoFile
<1>6. SearchLeads
    BY <1>3 DEF SearchLeads, Own
<1> QED BY <1>1, <1>2, <1>4, <1>5, <1>6 DEF IInv

\* Whatever way hostpath2HostFD() takes, it acquires one reference of the directory.
LEMMA PathAcquires ==
    ASSUME HandleTypeOK, Tables, NEW i \in Ino, NEW h \in Hdl, hostpath2HostFD(i, h),
           UNCHANGED <<opendirTable, now>>
    PROVE  Acquired(i, h)
<1>0. i \in Ino
    BY Directories
<1>1. CASE FoundDirectory(i, h)
    <2>1. Used(h) /\ fdTab[h].ino = i /\ AddRef(h) /\ UNCHANGED hostFd
        BY <1>1 DEF FoundDirectory, findHostFD, IsFirst, SameFile
    <2> QED BY <2>1, AddRefAcquires
<1>2. CASE OpenedDirectory(i, h)
    <2>1. PICK p \in Hdl, f \in Fd : getFreeHostFD(p) /\ NewFd(f) /\ allocHostFD(p, f, i, FALSE, h)
        BY <1>2 DEF OpenedDirectory
    <2> QED BY <1>0, <2>1, AllocAcquires
<1> QED BY <1>1, <1>2 DEF hostpath2HostFD

LEMMA DriveOpened ==
    ASSUME IInv, NEW v \in Drv, NEW d \in DD, drv_open(v, d)
    PROVE  IInv'
<1>1. PICK i \in Ino, h \in Hdl : /\ hostpath2HostFD(i, h)
                                  /\ dd' = [dd EXCEPT ![d] = [hdl |-> h, ino |-> i, drv |-> v]]
    BY DEF drv_open
<1>2. i \in Ino
    BY Directories
<1>3. Acquired(i, h)
    BY <1>1, PathAcquires DEF drv_open, IInv, TypeOK
<1>4. ~InUse(d) /\ root[v] = NoDD /\ root' = [root EXCEPT ![v] = d]
      /\ UNCHANGED <<opendirTable, drv_host_path, file, search, lost>>
    BY DEF drv_open
<1>5. RefsBalance' /\ (\A e \in DD : DDNamed(e)') /\ (\A g \in GuestFD : FileNamed(g)')
    BY <1>1, <1>2, <1>3, <1>4, GiveToDD
<1>6. TypeOK'
    BY <1>1, <1>2, <1>3, <1>4 DEF IInv, TypeOK, Acquired, Kept
<1>7. Blocks'
    <2>1. \A e \in DD : InUse(e)' <=> InUse(e) \/ e = d
        BY <1>1, <1>4 DEF IInv, TypeOK, InUse, Hdl
    <2>2. root'[v] = d /\ \A w \in Drv : w # v => root'[w] = root[w]
        BY <1>4 DEF IInv, TypeOK
    <2>3. \A w \in Drv : root[w] # d
        BY <1>4, NoDescriptor DEF IInv, Blocks
    <2>4. \A w \in Drv : root'[w] # NoDD => InUse(root[w])'
        BY <2>1, <2>2 DEF IInv, Blocks, TypeOK
    <2>5. \A u, w \in Drv : root'[u] = root'[w] /\ root'[u] # NoDD => u = w
        BY <2>2, <2>3 DEF IInv, Blocks
    <2>6. \A g \in GuestFD : IsOpen(g)' => file'[g].refcnt > 0
        BY <1>4 DEF IInv, Blocks, IsOpen
    <2> QED BY <1>5, <2>4, <2>5, <2>6 DEF Blocks
<1>8. SearchLeads'
    BY <1>3, <1>4, SearchesKept DEF Acquired
<1> QED BY <1>3, <1>5, <1>6, <1>7, <1>8 DEF IInv, Acquired, Kept

LEMMA DriveClosed ==
    ASSUME IInv, NEW v \in Drv, drv_close(v)
    PROVE  IInv'
<1> DEFINE d == root[v]
<1> DEFINE h == dd[d].hdl
<1>1. d \in DD /\ InUse(d) /\ h \in Hdl
    BY NamedIsUsed DEF drv_close, IInv, TypeOK, Blocks
<1>2. /\ dd' = [dd EXCEPT ![d] = NoRef] /\ lost' = [lost EXCEPT ![h] = @ + 1]
      /\ root' = [root EXCEPT ![v] = NoDD] /\ drv_host_path' = [drv_host_path EXCEPT ![v] = FALSE]
      /\ UNCHANGED <<fdTab, opendirTable, hostFd, now, file, search>>
    BY DEF drv_close, handleVars
<1>3. TypeOK'
    <2>1. NoRef \in [hdl : Hdl \cup {-1}, ino : Ino \cup {NoIno}, drv : Drv]
        BY Directories DEF NoRef, AnyDrv
    <2>2. HandleTypeOK'
        BY <1>2 DEF IInv, TypeOK, HandleTypeOK
    <2> QED BY <1>1, <1>2, <2>1, <2>2 DEF IInv, TypeOK
<1>4. RefsBalance'
    <2> SUFFICES ASSUME NEW k \in Hdl
                 PROVE  fdTab'[k].ref_cnt = Cardinality(DDsOf(k)') + Cardinality(FilesOf(k)') + lost'[k]
        BY DEF RefsBalance
    <2>1. FilesOf(k)' = FilesOf(k) /\ fdTab'[k] = fdTab[k]
        BY <1>2 DEF FilesOf
    <2>2. fdTab[k].ref_cnt = Cardinality(DDsOf(k)) + Cardinality(FilesOf(k)) + lost[k]
        BY DEF IInv, RefsBalance
    <2>3. dd'[d].hdl = -1 /\ -1 \notin Hdl /\ \A e \in DD : e # d => dd'[e] = dd[e]
        BY <1>1, <1>2 DEF IInv, TypeOK, NoRef, Hdl
    <2>4. lost[k] \in Nat
        BY DEF IInv, TypeOK
    <2>5. CASE k = h
        <3>1. DDsOf(k)' = DDsOf(k) \ {d} /\ d \in DDsOf(k) /\ DDsOf(k) \subseteq DD
            BY <1>1, <2>3, <2>5 DEF DDsOf
        <3>2. Cardinality(DDsOf(k)') = Cardinality(DDsOf(k)) - 1
            BY <3>1, FiniteGuest, CountOneLess
        <3>3. lost'[k] = lost[k] + 1
            BY <1>2, <2>5 DEF IInv, TypeOK
        <3> QED BY <2>1, <2>2, <2>4, <3>2, <3>3, CountsAreNatural
    <2>6. CASE k # h
        <3>1. DDsOf(k)' = DDsOf(k)
            BY <2>3, <2>6 DEF DDsOf
        <3>2. lost'[k] = lost[k]
            BY <1>1, <1>2, <2>6 DEF IInv, TypeOK
        <3> QED BY <2>1, <2>2, <3>1, <3>2
    <2> QED BY <2>5, <2>6
<1>5. Blocks'
    <2>1. \A e \in DD : dd'[e] = IF e = d THEN NoRef ELSE dd[e]
        BY <1>1, <1>2 DEF IInv, TypeOK
    <2>2. \A w \in Drv : root'[w] = IF w = v THEN NoDD ELSE root[w]
        BY <1>2 DEF IInv, TypeOK
    <2>3. \A e \in DD : DDNamed(e)'
        BY <1>2, <2>1 DEF IInv, Blocks, DDNamed, InUse, NoRef
    <2>4. \A g \in GuestFD : FileNamed(g)' /\ (IsOpen(g)' => file'[g].refcnt > 0)
        BY <1>2 DEF IInv, Blocks, FileNamed, IsOpen
    <2>5. \A w \in Drv : root'[w] # NoDD => InUse(root[w])'
        <3> SUFFICES ASSUME NEW w \in Drv, root'[w] # NoDD PROVE dd'[root'[w]].hdl # -1
            BY DEF InUse
        <3>1. w # v /\ root'[w] = root[w] /\ root[w] # NoDD
            BY <2>2
        <3>2. root[w] # d /\ root[w] \in DD /\ InUse(root[w])
            BY <3>1 DEF IInv, Blocks, TypeOK
        <3> QED BY <3>1, <3>2, <2>1 DEF InUse
    <2>6. \A u, w \in Drv : root'[u] = root'[w] /\ root'[u] # NoDD => u = w
        BY <2>2 DEF IInv, Blocks
    <2> QED BY <2>3, <2>4, <2>5, <2>6 DEF Blocks
<1>6. Tables'
    BY <1>2 DEF IInv, Tables, HandleLeads, FdsOwnedOnce, InoOnce, Used, Running
<1>7. SearchLeads'
    BY <1>2 DEF IInv, SearchLeads, Own, Running
<1> QED BY <1>3, <1>4, <1>5, <1>6, <1>7 DEF IInv

LEMMA DirectoryResolved ==
    ASSUME IInv, NEW d \in DD, NEW e \in DD, path2DD(d, e)
    PROVE  IInv'
<1>1. PICK i \in Ino, h \in Hdl :
          /\ (h = dd[d].hdl /\ i = dd[d].ino /\ ReuseDirectory(h)) \/ hostpath2HostFD(i, h)
          /\ dd' = [dd EXCEPT ![e] = [hdl |-> h, ino |-> i, drv |-> dd[d].drv]]
    BY DEF path2DD
<1>2. /\ InUse(d) /\ ~InUse(e) /\ i \in Ino /\ dd[d].drv \in Drv
      /\ UNCHANGED <<opendirTable, now, drv_host_path, root, file, search, lost>>
    BY Directories DEF path2DD, IInv, TypeOK
<1>3. Acquired(i, h)
    <2>1. CASE hostpath2HostFD(i, h)
        BY <2>1, <1>2, PathAcquires DEF IInv, TypeOK
    <2>2. CASE h = dd[d].hdl /\ i = dd[d].ino /\ ReuseDirectory(h)
        <3>1. Used(h) /\ fdTab[h].ino = i
            BY <2>2, <1>2, NamedIsUsed DEF IInv, Blocks, DDNamed
        <3> QED BY <2>2, <3>1, <1>2, AddRefAcquires DEF IInv, TypeOK, ReuseDirectory
    <2> QED BY <1>1, <2>1, <2>2
<1>4. RefsBalance' /\ (\A c \in DD : DDNamed(c)') /\ (\A g \in GuestFD : FileNamed(g)')
    BY <1>1, <1>2, <1>3, GiveToDD
<1>5. TypeOK'
    BY <1>1, <1>2, <1>3 DEF IInv, TypeOK, Acquired, Kept
<1>6. Blocks'
    <2>1. \A c \in DD : InUse(c) => InUse(c)'
        BY <1>1 DEF IInv, TypeOK, InUse, Hdl
    <2>2. \A w \in Drv : root'[w] # NoDD => InUse(root[w])'
        BY <1>2, <2>1 DEF IInv, Blocks, TypeOK
    <2>3. \A g \in GuestFD : IsOpen(g)' => file'[g].refcnt > 0
        BY <1>2 DEF IInv, Blocks, IsOpen
    <2> QED BY <1>2, <1>4, <2>2, <2>3 DEF IInv, Blocks
<1>7. SearchLeads'
    BY <1>2, <1>3, SearchesKept DEF Acquired
<1> QED BY <1>3, <1>4, <1>5, <1>6, <1>7 DEF IInv, Acquired, Kept

LEMMA DirectoryFreed ==
    ASSUME IInv, NEW d \in DD, freeDD(d)
    PROVE  IInv'
<1>1. /\ InUse(d) /\ (\A v \in Drv : root[v] # d)
      /\ freeHostFD(dd[d].hdl) /\ dd' = [dd EXCEPT ![d] = NoRef]
      /\ UNCHANGED <<opendirTable, now, drv_host_path, root, file, search, lost>>
    BY DEF freeDD
<1>2. dd[d].hdl \in Hdl /\ Used(dd[d].hdl)
    BY <1>1, NamedIsUsed DEF IInv
<1>3. Released(dd[d].hdl)
    BY <1>1, <1>2, FreeReleases DEF IInv, TypeOK
<1>4. RefsBalance' /\ (\A c \in DD : DDNamed(c)') /\ (\A g \in GuestFD : FileNamed(g)')
    BY <1>1, <1>3, TakeFromDD
<1>5. TypeOK'
    <2>1. NoRef \in [hdl : Hdl \cup {-1}, ino : Ino \cup {NoIno}, drv : Drv]
        BY Directories DEF NoRef, AnyDrv
    <2> QED BY <1>1, <1>3, <2>1 DEF IInv, TypeOK, Released, Kept
<1>6. Blocks'
    <2>1. \A c \in DD : c # d => dd'[c] = dd[c]
        BY <1>1 DEF IInv, TypeOK
    <2>2. \A w \in Drv : root'[w] # NoDD => InUse(root[w])'
        BY <1>1, <2>1 DEF IInv, Blocks, TypeOK, InUse
    <2>3. \A g \in GuestFD : IsOpen(g)' => file'[g].refcnt > 0
        BY <1>1 DEF IInv, Blocks, IsOpen
    <2> QED BY <1>1, <1>4, <2>2, <2>3 DEF IInv, Blocks
<1>7. SearchLeads'
    BY <1>1, <1>3, SearchesKept DEF Released
<1> QED BY <1>3, <1>4, <1>5, <1>6, <1>7 DEF IInv, Released, Kept

LEMMA FileOpened ==
    ASSUME IInv, NEW d \in DD, NEW g \in GuestFD, NEW i \in Ino, NEW w \in BOOLEAN, fopen(d, g, i, w)
    PROVE  IInv'
<1>1. PICK p \in Hdl, h \in Hdl, f \in Fd :
          /\ getFreeHostFD(p) /\ NewFd(f) /\ allocHostFD(p, f, i, w, h)
          /\ file' = [file EXCEPT ![g] = [hdl |-> h, refcnt |-> 1, ino |-> i, write |-> w]]
    BY DEF fopen
<1>2. ~IsOpen(g) /\ UNCHANGED <<opendirTable, now, drv_host_path, root, dd, search, lost>>
    BY DEF fopen
<1>3. Acquired(i, h)
    BY <1>1, <1>2, AllocAcquires DEF IInv, TypeOK
<1>4. RefsBalance' /\ (\A c \in DD : DDNamed(c)') /\ (\A c \in GuestFD : FileNamed(c)')
    BY <1>1, <1>2, <1>3, GiveToFile
<1>5. TypeOK'
    BY <1>1, <1>2, <1>3 DEF IInv, TypeOK, Acquired, Kept
<1>6. Blocks'
    <2>1. \A w1 \in Drv : root'[w1] # NoDD => InUse(root[w1])'
        BY <1>2 DEF IInv, Blocks, InUse
    <2>2. \A c \in GuestFD : IsOpen(c)' => file'[c].refcnt > 0
        BY <1>1 DEF IInv, TypeOK, Blocks, IsOpen
    <2> QED BY <1>2, <1>4, <2>1, <2>2 DEF IInv, Blocks
<1>7. SearchLeads'
    BY <1>2, <1>3, SearchesKept DEF Acquired
<1> QED BY <1>3, <1>4, <1>5, <1>6, <1>7 DEF IInv, Acquired, Kept

LEMMA FileClosed ==
    ASSUME IInv, NEW g \in GuestFD, IsOpen(g), LastClose(g), dev_close(g)
    PROVE  IInv'
<1>1. /\ freeHostFD(file[g].hdl) /\ file' = [file EXCEPT ![g] = NoFile]
      /\ UNCHANGED <<opendirTable, now, drv_host_path, root, dd, search, lost>>
    BY DEF dev_close
<1>2. file[g].hdl \in Hdl /\ Used(file[g].hdl)
    BY NamedIsUsed DEF IInv
<1>3. Released(file[g].hdl)
    BY <1>1, <1>2, FreeReleases DEF IInv, TypeOK
<1>4. RefsBalance' /\ (\A c \in DD : DDNamed(c)') /\ (\A c \in GuestFD : FileNamed(c)')
    BY <1>1, <1>3, TakeFromFile
<1>5. TypeOK'
    BY <1>1, <1>3 DEF IInv, TypeOK, Released, Kept, NoFile
<1>6. Blocks'
    <2>1. \A w \in Drv : root'[w] # NoDD => InUse(root[w])'
        BY <1>1 DEF IInv, Blocks, InUse
    <2>2. \A c \in GuestFD : IsOpen(c)' => file'[c].refcnt > 0
        BY <1>1 DEF IInv, TypeOK, Blocks, IsOpen, NoFile
    <2> QED BY <1>1, <1>4, <2>1, <2>2 DEF IInv, Blocks
<1>7. SearchLeads'
    BY <1>1, <1>3, SearchesKept DEF Released
<1> QED BY <1>3, <1>4, <1>5, <1>6, <1>7 DEF IInv, Released, Kept

\* Fdup(), and dev_close() of a descriptor that has other users.
LEMMA FileCounted ==
    ASSUME IInv, NEW g \in GuestFD, IsOpen(g), NEW n \in Nat \ {0}, file' = [file EXCEPT ![g].refcnt = n],
           UNCHANGED <<handleVars, drv_host_path, root, dd, search, lost>>
    PROVE  IInv'
<1>1. \A c \in GuestFD : /\ file'[c].hdl = file[c].hdl /\ file'[c].ino = file[c].ino
                         /\ file'[c].refcnt = IF c = g THEN n ELSE file[c].refcnt
    BY DEF IInv, TypeOK
<1>2. TypeOK'
    <2>1. HandleTypeOK'
        BY DEF IInv, TypeOK, HandleTypeOK, handleVars
    <2> QED BY <2>1 DEF IInv, TypeOK, handleVars
<1>3. RefsBalance'
    <2>1. \A h \in Hdl : DDsOf(h)' = DDsOf(h) /\ FilesOf(h)' = FilesOf(h)
        BY <1>1 DEF DDsOf, FilesOf
    <2> QED BY <2>1 DEF IInv, RefsBalance, handleVars
<1>4. Blocks'
    BY <1>1 DEF IInv, Blocks, DDNamed, FileNamed, InUse, IsOpen, handleVars
<1>5. Tables' /\ SearchLeads'
    BY DEF IInv, Tables, HandleLeads, FdsOwnedOnce, InoOnce, SearchLeads, Own, Used, Running, handleVars
<1> QED BY <1>2, <1>3, <1>4, <1>5 DEF IInv

LEMMA OpenFailureHarmless ==
    ASSUME IInv, OpenFailed
    PROVE  IInv'
<1>1. PICK p \in Hdl, f \in Fd \cup {-1} : getFreeHostFD(p) /\ fdTab' = [fdTab EXCEPT ![p].fd = f]
    BY DEF OpenFailed
<1>2. UNCHANGED <<opendirTable, hostFd, now, drv_host_path, root, dd, file, search, lost>>
    BY DEF OpenFailed, guestVars
<1>3. ~Used(p)
    BY <1>1 DEF getFreeHostFD
<1>4. \A k \in Hdl : /\ fdTab'[k].ref_cnt = fdTab[k].ref_cnt /\ fdTab'[k].ino = fdTab[k].ino
                     /\ k # p => fdTab'[k].fd = fdTab[k].fd
    BY <1>1 DEF IInv, TypeOK, HandleTypeOK
<1>5. \A k \in Hdl : (Used(k)' <=> Used(k)) /\ (Used(k) => fdTab'[k].fd = fdTab[k].fd)
    BY <1>3, <1>4 DEF Used
<1>6. TypeOK'
    <2>1. HandleTypeOK'
        BY <1>1, <1>2 DEF IInv, TypeOK, HandleTypeOK
    <2> QED BY <1>2, <2>1 DEF IInv, TypeOK
<1>7. RefsBalance'
    BY <1>2, <1>4 DEF IInv, RefsBalance, DDsOf, FilesOf
<1>8. Blocks'
    BY <1>2, <1>4, NamedIsUsed DEF IInv, Blocks, DDNamed, FileNamed, InUse, IsOpen
<1>9. Tables'
    BY <1>2, <1>4, <1>5 DEF IInv, Tables, HandleLeads, FdsOwnedOnce, InoOnce, Running
<1>10. SearchLeads'
    BY <1>2 DEF IInv, SearchLeads, Own, Running
<1> QED BY <1>6, <1>7, <1>8, <1>9, <1>10 DEF IInv

\* Actions that leave handles and blocks alone, and change searches, mounts or time.
LEMMA BlocksKept ==
    ASSUME IInv, HandleTypeOK', Tables', SearchLeads', UNCHANGED <<fdTab, root, dd, file, lost>>,
           drv_host_path' \in [Drv -> BOOLEAN],
           search' \in [Search -> [kind : {"none", "dta", "dhd"}, odh : Odh \cup {-1},
                                   pd : Pd \cup {NoPd}, hash : Hash \cup {0},
                                   ino : Ino \cup {NoIno}, drv : Drv]]
    PROVE  IInv'
<1>1. TypeOK'
    BY DEF IInv, TypeOK
<1>2. RefsBalance'
    BY DEF IInv, RefsBalance, DDsOf, FilesOf
<1>3. Blocks'
    BY DEF IInv, Blocks, DDNamed, FileNamed, InUse, IsOpen
<1> QED BY <1>1, <1>2, <1>3 DEF IInv

\* A search of its own, given up or copied, stays or goes with its entry.
LEMMA SearchForgotten ==
    ASSUME IInv, UNCHANGED <<fdTab, opendirTable, hostFd>>,
           \A s \in Search : search'[s] # search[s] =>
               search'[s].odh = -1 \/ \E t \in Search : search'[s] = search[t]
    PROVE  SearchLeads'
<1> SUFFICES ASSUME NEW s \in Search, Own(s)'
             PROVE  hostFd[opendirTable[search'[s].odh].fd].ino = search'[s].ino
    BY DEF SearchLeads
<1>1. search'[s].odh # -1
    BY DEF Own, Odh
<1>2. PICK t \in Search : search'[s] = search[t]
    BY <1>1
<1>3. Own(t)
    BY <1>2 DEF Own, Running
<1> QED BY <1>2, <1>3 DEF IInv, SearchLeads

LEMMA SearchStarted ==
    ASSUME IInv, NEW s \in Search, NEW d \in DD, NEW p \in Pd, NEW kind \in {"dta", "dhd"},
           opendir(s, d, p, kind)
    PROVE  IInv'
<1> DEFINE i == hostFd[fdTab[dd[d].hdl].fd].ino
<1>1. PICK o \in Odh, f \in Fd, x \in Hash :
          /\ NewFd(f) /\ NewHash(x) /\ allocOpendir(o, f, i, p, x)
          /\ search' = [search EXCEPT ![s] = [kind |-> kind, odh |-> o, pd |-> p, hash |-> x,
                                              ino |-> dd[d].ino, drv |-> dd[d].drv]]
    BY DEF opendir
<1>2. InUse(d) /\ UNCHANGED <<fdTab, now, drv_host_path, root, dd, file, lost>>
    BY DEF opendir, Usable
<1>3. i = dd[d].ino /\ i \in Ino /\ dd[d].drv \in Drv
    <2>1. dd[d].hdl \in Hdl /\ Used(dd[d].hdl)
        BY <1>2, NamedIsUsed DEF IInv
    <2> QED BY <2>1, <1>2 DEF IInv, TypeOK, Tables, HandleLeads, Blocks, DDNamed
<1> HIDE DEF i
<1>4. /\ HandleTypeOK' /\ Tables'
      /\ \A q \in Odh : Running(q)' <=> Running(q) \/ q = o
      /\ \A q \in Odh : q # o => opendirTable'[q] = opendirTable[q]
      /\ \A q \in Odh : q # o /\ Running(q) => hostFd'[opendirTable[q].fd] = hostFd[opendirTable[q].fd]
      /\ opendirTable'[o].hash = x /\ hostFd'[opendirTable'[o].fd].ino = i
    BY <1>1, <1>2, <1>3, OpeningSearch DEF IInv, TypeOK
<1>5. \A t \in Search : search[t].hash # x
    BY <1>1 DEF NewHash, IsFirst
<1>6. /\ search'[s] = [kind |-> kind, odh |-> o, pd |-> p, hash |-> x, ino |-> i, drv |-> dd[d].drv]
      /\ \A t \in Search : t # s => search'[t] = search[t]
    BY <1>1, <1>3 DEF IInv, TypeOK
<1>7. SearchLeads'
    <2> SUFFICES ASSUME NEW t \in Search, Own(t)'
                 PROVE  hostFd'[opendirTable'[search'[t].odh].fd].ino = search'[t].ino
        BY DEF SearchLeads
    <2>1. CASE t = s
        BY <2>1, <1>4, <1>6
    <2>2. CASE t # s
        <3>1. search'[t] = search[t] /\ search[t].odh \in Odh /\ search[t].odh # o
            BY <2>2, <1>4, <1>5, <1>6 DEF Own
        <3>2. Own(t)
            BY <3>1, <1>4 DEF Own
        <3> QED BY <3>1, <3>2, <1>4 DEF IInv, SearchLeads, Own
    <2> QED BY <2>1, <2>2
<1>8. search' \in [Search -> [kind : {"none", "dta", "dhd"}, odh : Odh \cup {-1},
                              pd : Pd \cup {NoPd}, hash : Hash \cup {0},
                              ino : Ino \cup {NoIno}, drv : Drv]]
    BY <1>1, <1>3 DEF IInv, TypeOK
<1> QED BY <1>2, <1>4, <1>7, <1>8, BlocksKept DEF IInv, TypeOK

LEMMA SearchClosed ==
    ASSUME IInv, NEW s \in Search, NEW p \in Pd, Granted(s, p), search[s] # Idle,
           closeOpendir(search[s].odh, search[s].hash), search' = [search EXCEPT ![s] = Idle],
           UNCHANGED <<fdTab, now, drv_host_path, root, dd, file, lost>>
    PROVE  IInv'
<1> DEFINE o == search[s].odh
<1>1. o \in Odh /\ Running(o) /\ opendirTable[o].hash = search[s].hash
    BY DEF Granted, getOpendir
<1>2. /\ HandleTypeOK' /\ Tables'
      /\ \A q \in Odh : Running(q)' <=> Running(q) /\ q # o
      /\ \A q \in Odh : q # o => opendirTable'[q] = opendirTable[q]
      /\ \A q \in Odh : q # o /\ Running(q) => hostFd'[opendirTable[q].fd] = hostFd[opendirTable[q].fd]
    <2>1. closeOpendir(o, opendirTable[o].hash)
        BY <1>1
    <2> QED BY <1>1, <2>1, CloseCloses DEF IInv, TypeOK
<1>3. search'[s].odh = -1 /\ \A t \in Search : t # s => search'[t] = search[t]
    BY DEF IInv, TypeOK, Idle
<1> HIDE DEF o
<1>4. SearchLeads'
    <2> SUFFICES ASSUME NEW t \in Search, Own(t)'
                 PROVE  hostFd'[opendirTable'[search'[t].odh].fd].ino = search'[t].ino
        BY DEF SearchLeads
    <2>1. t # s /\ search'[t] = search[t]
        BY <1>3 DEF Own, Odh
    <2>2. Own(t) /\ search[t].odh # o
        BY <2>1, <1>2 DEF Own
    <2> QED BY <2>1, <2>2, <1>2 DEF IInv, SearchLeads, Own
<1>5. search' \in [Search -> [kind : {"none", "dta", "dhd"}, odh : Odh \cup {-1},
                              pd : Pd \cup {NoPd}, hash : Hash \cup {0},
                              ino : Ino \cup {NoIno}, drv : Drv]]
    BY Directories DEF IInv, TypeOK, Idle, AnyDrv
<1> QED BY <1>2, <1>4, <1>5, BlocksKept DEF IInv, TypeOK

LEMMA SearchGivenUp ==
    ASSUME IInv, UNCHANGED <<handleVars, drv_host_path, root, dd, file, lost>>,
           NEW s \in Search,
           \/ search' = [search EXCEPT ![s] = Idle]
           \/ search' = [search EXCEPT ![s].odh = -1]
           \/ \E t \in Search : search' = [search EXCEPT ![s] = search[t]]
    PROVE  IInv'
<1>1. /\ search' \in [Search -> [kind : {"none", "dta", "dhd"}, odh : Odh \cup {-1},
                                 pd : Pd \cup {NoPd}, hash : Hash \cup {0},
                                 ino : Ino \cup {NoIno}, drv : Drv]]
      /\ \A t \in Search : search'[t] # search[t] =>
               search'[t].odh = -1 \/ \E u \in Search : search'[t] = search[u]
    <2>1. CASE search' = [search EXCEPT ![s] = Idle]
        BY <2>1, Directories DEF IInv, TypeOK, Idle, AnyDrv
    <2>2. CASE search' = [search EXCEPT ![s].odh = -1]
        BY <2>2 DEF IInv, TypeOK
    <2>3. CASE \E u \in Search : search' = [search EXCEPT ![s] = search[u]]
        <3>1. PICK u \in Search : search' = [search EXCEPT ![s] = search[u]]
            BY <2>3
        <3>2. search[u] \in [kind : {"none", "dta", "dhd"}, odh : Odh \cup {-1},
                             pd : Pd \cup {NoPd}, hash : Hash \cup {0},
                             ino : Ino \cup {NoIno}, drv : Drv]
            BY DEF IInv, TypeOK
        <3>3. \A t \in Search : search'[t] = IF t = s THEN search[u] ELSE search[t]
            BY <3>1 DEF IInv, TypeOK
        <3> QED BY <3>1, <3>2, <3>3 DEF IInv, TypeOK
    <2> QED BY <2>1, <2>2, <2>3
<1>2. SearchLeads'
    BY <1>1, SearchForgotten DEF handleVars
<1>3. HandleTypeOK' /\ Tables'
    BY DEF IInv, TypeOK, HandleTypeOK, Tables, HandleLeads, FdsOwnedOnce, InoOnce, Used, Running, handleVars
<1> QED BY <1>1, <1>2, <1>3, BlocksKept DEF IInv, TypeOK, handleVars

LEMMA SearchContinued ==
    ASSUME IInv, NEW s \in Search, NEW p \in Pd, readdir(s, p)
    PROVE  IInv'
<1> DEFINE o == search[s].odh
<1>1. /\ o \in Odh /\ Running(o) /\ opendirTable' = [opendirTable EXCEPT ![o].lru = now]
      /\ UNCHANGED <<fdTab, hostFd, now, drv_host_path, root, dd, file, search, lost>>
    BY DEF readdir, Granted, getOpendir, Refresh, guestVars
<1>2. \A q \in Odh : /\ Running(q)' <=> Running(q)
                     /\ opendirTable'[q].fd = opendirTable[q].fd
                     /\ opendirTable'[q].hash = opendirTable[q].hash
    BY <1>1 DEF IInv, TypeOK, HandleTypeOK, Running
<1>3. HandleTypeOK'
    <2>1. opendirTable' \in [Odh -> [lru : Nat, pd : Pd \cup {NoPd}, hash : Hash \cup {0}, fd : Fd \cup {-1}]]
        <3>1. now \in Nat
            BY DEF IInv, TypeOK, HandleTypeOK
        <3>2. opendirTable \in [Odh -> [lru : Nat, pd : Pd \cup {NoPd}, hash : Hash \cup {0}, fd : Fd \cup {-1}]]
            BY DEF IInv, TypeOK, HandleTypeOK
        <3> QED BY <1>1, <3>1, <3>2
    <2> QED BY <1>1, <2>1 DEF IInv, TypeOK, HandleTypeOK
<1>4. Tables'
    BY <1>1, <1>2 DEF IInv, Tables, HandleLeads, FdsOwnedOnce, InoOnce, Used
<1>5. SearchLeads'
    BY <1>1, <1>2 DEF IInv, SearchLeads, Own
<1> QED BY <1>1, <1>3, <1>4, <1>5, BlocksKept DEF IInv, TypeOK

LEMMA ProcessGone ==
    ASSUME IInv, NEW p \in Pd, pterm(p)
    PROVE  IInv'
<1> DEFINE O == Orphans(p)
<1>1. /\ O \in SUBSET Odh /\ \A o \in O : Running(o)
      /\ opendirTable' = [o \in Odh |-> IF o \in O THEN NoSearch(o) ELSE opendirTable[o]]
      /\ hostFd' = WithClosed({opendirTable[o].fd : o \in O})
      /\ search' = [s \in Search |-> IF search[s].pd = p THEN Idle ELSE search[s]]
      /\ UNCHANGED <<fdTab, now, drv_host_path, root, dd, file, lost>>
    BY DEF pterm, ptermOpendir, Orphans
<1> HIDE DEF O
<1>2. /\ HandleTypeOK' /\ Tables'
      /\ \A o \in Odh : Running(o)' <=> Running(o) /\ o \notin O
      /\ \A o \in Odh : o \notin O => opendirTable'[o] = opendirTable[o]
      /\ \A o \in Odh \ O : Running(o) => hostFd'[opendirTable[o].fd] = hostFd[opendirTable[o].fd]
    BY <1>1, ClosingSearches DEF IInv, TypeOK
<1>3. SearchLeads'
    <2> SUFFICES ASSUME NEW t \in Search, Own(t)'
                 PROVE  hostFd'[opendirTable'[search'[t].odh].fd].ino = search'[t].ino
        BY DEF SearchLeads
    <2>1. search'[t] = search[t]
        BY <1>1 DEF Own, Odh, Idle
    <2>2. Own(t) /\ search[t].odh \notin O
        BY <2>1, <1>2 DEF Own
    <2> QED BY <2>1, <2>2, <1>2 DEF IInv, SearchLeads, Own
<1>4. search' \in [Search -> [kind : {"none", "dta", "dhd"}, odh : Odh \cup {-1},
                              pd : Pd \cup {NoPd}, hash : Hash \cup {0},
                              ino : Ino \cup {NoIno}, drv : Drv]]
    BY <1>1, Directories DEF IInv, TypeOK, Idle, AnyDrv
<1> QED BY <1>1, <1>2, <1>3, <1>4, BlocksKept DEF IInv, TypeOK

\* Mounts and time change nothing the invariant is about.
LEMMA OthersKept ==
    ASSUME IInv, UNCHANGED <<fdTab, opendirTable, hostFd, guestVars>>,
           now' \in Nat \ {0}, drv_host_path' \in [Drv -> BOOLEAN]
    PROVE  IInv'
<1>1. HandleTypeOK' /\ Tables' /\ SearchLeads'
    BY DEF IInv, TypeOK, HandleTypeOK, Tables, HandleLeads, FdsOwnedOnce, InoOnce, Used, Running,
           SearchLeads, Own, guestVars
<1> QED BY <1>1, BlocksKept DEF IInv, TypeOK, guestVars

-----------------------------------------------------------------------------
(* The theorems *)

LEMMA NextIInv == IInv /\ [Next]_vars => IInv'
<1> SUFFICES ASSUME IInv, [Next]_vars PROVE IInv'
    OBVIOUS
<1>1. CASE \E v \in Drv, d \in DD : drv_open(v, d)
    BY <1>1, DriveOpened
<1>2. CASE \E v \in Drv : drv_close(v)
    BY <1>2, DriveClosed
<1>3. CASE \E v \in Drv : setNewDrv(v) \/ eject(v)
    BY <1>3, OthersKept DEF setNewDrv, eject, handleVars, IInv, TypeOK, HandleTypeOK
<1>4. CASE \E d, e \in DD : path2DD(d, e)
    BY <1>4, DirectoryResolved
<1>5. CASE \E d \in DD : freeDD(d)
    BY <1>5, DirectoryFreed
<1>6. CASE \E d \in DD, g \in GuestFD, i \in Ino, w \in BOOLEAN : fopen(d, g, i, w)
    BY <1>6, FileOpened
<1>7. ASSUME NEW g \in GuestFD, Fdup(g)
      PROVE  IInv'
    <2>1. file[g].refcnt + 1 \in Nat \ {0}
        BY DEF IInv, TypeOK
    <2>2. file' = [file EXCEPT ![g].refcnt = file[g].refcnt + 1]
        BY <1>7 DEF Fdup
    <2> QED BY <1>7, <2>1, <2>2, FileCounted DEF Fdup
<1>8. ASSUME NEW g \in GuestFD, dev_close(g)
      PROVE  IInv'
    <2>1. CASE LastClose(g)
        BY <1>8, <2>1, FileClosed DEF dev_close
    <2>2. CASE ~LastClose(g)
        <3>1. IsOpen(g) /\ file[g].refcnt - 1 \in Nat \ {0}
            BY <1>8, <2>2 DEF dev_close, IInv, TypeOK, Blocks, LastClose
        <3>2. /\ file' = [file EXCEPT ![g].refcnt = file[g].refcnt - 1]
              /\ UNCHANGED <<handleVars, drv_host_path, root, dd, search, lost>>
            BY <1>8, <2>2 DEF dev_close, handleVars
        <3> QED BY <3>1, <3>2, FileCounted
    <2> QED BY <2>1, <2>2
<1>9. CASE OpenFailed
    BY <1>9, OpenFailureHarmless
<1>10. CASE \E s \in Search, d \in DD, p \in Pd, kind \in {"dta", "dhd"} : opendir(s, d, p, kind)
    BY <1>10, SearchStarted
<1>11. CASE \E s, t \in Search : CopyDTA(s, t)
    BY <1>11, SearchGivenUp DEF CopyDTA
<1>12. CASE \E s \in Search, p \in Pd : readdir(s, p)
    BY <1>12, SearchContinued
<1>13. CASE \E s \in Search, p \in Pd : rewindRefused(s, p)
    BY <1>13, SearchGivenUp DEF rewindRefused
<1>14. ASSUME NEW s \in Search, NEW p \in Pd, snextEnd(s, p)
       PROVE  IInv'
    <2>1. /\ Granted(s, p) /\ closeOpendir(search[s].odh, search[s].hash)
          /\ search' = [search EXCEPT ![s] = Idle]
          /\ UNCHANGED <<fdTab, now, drv_host_path, root, dd, file, lost>>
        BY <1>14 DEF snextEnd
    <2>2. search[s] # Idle
        BY <1>14 DEF snextEnd, Idle
    <2> QED BY <2>1, <2>2, SearchClosed
<1>15. ASSUME NEW s \in Search, NEW p \in Pd, dclosedir(s, p)
       PROVE  IInv'
    <2>1. CASE Mounted(s) /\ Granted(s, p)
        <3>1. /\ closeOpendir(search[s].odh, search[s].hash) /\ search' = [search EXCEPT ![s] = Idle]
              /\ UNCHANGED <<fdTab, now, drv_host_path, root, dd, file, lost>>
            BY <1>15, <2>1 DEF dclosedir
        <3>2. search[s] # Idle
            BY <1>15 DEF dclosedir, Idle
        <3> QED BY <2>1, <3>1, <3>2, SearchClosed
    <2>2. CASE ~(Mounted(s) /\ Granted(s, p))
        BY <1>15, <2>2, SearchGivenUp DEF dclosedir, handleVars
    <2> QED BY <2>1, <2>2
<1>16. CASE \E p \in Pd : pterm(p)
    BY <1>16, ProcessGone
<1>17. CASE Tick
    BY <1>17, OthersKept DEF Tick, IInv, TypeOK, HandleTypeOK
<1>18. CASE UNCHANGED vars
    BY <1>18, OthersKept DEF vars, handleVars, guestVars, IInv, TypeOK, HandleTypeOK
<1> QED
    BY <1>1, <1>2, <1>3, <1>4, <1>5, <1>6, <1>7, <1>8, <1>9, <1>10, <1>11, <1>12, <1>13, <1>14,
       <1>15, <1>16, <1>17, <1>18 DEF Next

\* The inductive invariant holds in every behaviour of the host file system.
THEOREM HandlesInvariant == Spec => []IInv
BY InitIInv, NextIInv, PTL DEF Spec

\* The variables keep their types, so no reference counter becomes negative.
THEOREM HostXFSTypes == Spec => []TypeOK
<1>1. IInv => TypeOK
    BY DEF IInv
<1> QED BY <1>1, HandlesInvariant, PTL

\* Every reference counter of HostHandles is the number of blocks of the guest's
\* driver that name the handle, and of the roots xfs_drv_close() left behind.
THEOREM ReferencesBalance == Spec => []RefsBalance
<1>1. IInv => RefsBalance
    BY DEF IInv
<1> QED BY <1>1, HandlesInvariant, PTL

\* Every open host descriptor has one owner, and every owner an open descriptor.
THEOREM DescriptorsOwnedOnce == Spec => []FdsOwnedOnce
<1>1. IInv => FdsOwnedOnce
    BY DEF IInv, Tables
<1> QED BY <1>1, HandlesInvariant, PTL

\* No file is in fdTab twice, although its name can change between fstatat() and openat().
THEOREM FilesSharedOnce == Spec => []InoOnce
<1>1. IInv => InoOnce
    BY DEF IInv, Tables
<1> QED BY <1>1, HandlesInvariant, PTL

\* The guest's directory and file descriptors lead to what they were opened for.
THEOREM HandlesNameFiles == Spec => []HandleNamesItsFile
<1>1. IInv => HandleNamesItsFile
    <2> SUFFICES ASSUME IInv PROVE HandleNamesItsFile
        OBVIOUS
    <2>1. ASSUME NEW d \in DD, InUse(d)
          PROVE  Leads(dd[d].hdl, dd[d].ino)
        BY <2>1, NamedIsUsed DEF IInv, Tables, HandleLeads, FdsOwnedOnce, Blocks, DDNamed, Leads
    <2>2. ASSUME NEW g \in GuestFD, IsOpen(g)
          PROVE  Leads(file[g].hdl, file[g].ino)
        BY <2>2, NamedIsUsed DEF IInv, Tables, HandleLeads, FdsOwnedOnce, Blocks, FileNamed, Leads
    <2> QED BY <2>1, <2>2 DEF HandleNamesItsFile
<1> QED BY <1>1, HandlesInvariant, PTL

\* A search that is granted reads the directory it was started on.
THEOREM SearchesDoNotCross == Spec => []SearchNeverCrosses
<1>1. IInv => SearchNeverCrosses
    BY DEF IInv, SearchNeverCrosses, SearchLeads, Own, Granted, getOpendir, Tables, FdsOwnedOnce
<1> QED BY <1>1, HandlesInvariant, PTL
-----------------------------------------------------------------------------
(* The promise of module OpenFiles: what the host holds open is what the     *)
(* driver's blocks denote, and what was left behind.                         *)

Named == {i \in Ino : \E b \in Block : Opened[b] = i}

LEMMA OpenedValues ==
    ASSUME IInv
    PROVE  /\ \A d \in DD : /\ <<"dd", d>> \in Block
                            /\ Opened[<<"dd", d>>] = IF InUse(d) THEN dd[d].ino ELSE NoIno
           /\ \A g \in GuestFD : /\ <<"file", g>> \in Block
                                 /\ Opened[<<"file", g>>] = IF IsOpen(g) THEN file[g].ino ELSE NoIno
           /\ \A b \in Block : \/ \E d \in DD : b = <<"dd", d>>
                               \/ \E g \in GuestFD : b = <<"file", g>>
BY DEF Block, DDBlock, Opened, Denotes

\* A handle in use is one that some block names, or that was left behind.
LEMMA UsedIsNamed ==
    ASSUME IInv, NEW h \in Hdl, Used(h), lost[h] = 0
    PROVE  (\E d \in DD : dd[d].hdl = h) \/ \E g \in GuestFD : file[g].hdl = h
<1>1. fdTab[h].ref_cnt = Cardinality(DDsOf(h)) + Cardinality(FilesOf(h)) + lost[h]
    BY DEF IInv, RefsBalance
<1>2. DDsOf(h) = {} => Cardinality(DDsOf(h)) = 0
    BY FS_EmptySet
<1>3. FilesOf(h) = {} => Cardinality(FilesOf(h)) = 0
    BY FS_EmptySet
<1>4. fdTab[h].ref_cnt # 0
    BY DEF Used
<1>5. DDsOf(h) # {} \/ FilesOf(h) # {}
    BY <1>1, <1>2, <1>3, <1>4
<1> QED BY <1>5 DEF DDsOf, FilesOf

LEMMA LeftIsUsed ==
    ASSUME IInv, NEW h \in Hdl, lost[h] # 0
    PROVE  Used(h)
<1>1. fdTab[h].ref_cnt = Cardinality(DDsOf(h)) + Cardinality(FilesOf(h)) + lost[h]
    BY DEF IInv, RefsBalance
<1>2. lost[h] \in Nat
    BY DEF IInv, TypeOK
<1> QED BY <1>1, <1>2, CountsAreNatural DEF Used

\* The descriptors no search owns are those of the handles in use.
LEMMA HeldByHandles ==
    ASSUME IInv
    PROVE  Held = {fdTab[h].ino : h \in {k \in Hdl : Used(k)}}
<1>1. ASSUME NEW f \in Fd, hostFd[f] # Closed, ~Searching(f)
      PROVE  \E h \in Hdl : Used(h) /\ hostFd[f].ino = fdTab[h].ino
    <2>1. PICK h \in Hdl : Used(h) /\ fdTab[h].fd = f
        BY <1>1 DEF IInv, Tables, FdsOwnedOnce, Searching
    <2> QED BY <2>1 DEF IInv, Tables, HandleLeads
<1>2. ASSUME NEW h \in Hdl, Used(h)
      PROVE  /\ fdTab[h].fd \in Fd /\ hostFd[fdTab[h].fd] # Closed /\ ~Searching(fdTab[h].fd)
             /\ hostFd[fdTab[h].fd].ino = fdTab[h].ino
    BY <1>2 DEF IInv, Tables, FdsOwnedOnce, HandleLeads, Searching
<1> QED BY <1>1, <1>2 DEF Held

HeldAreNamed == Held = Named \cup Left

LEMMA HeldIsNamed == IInv => HeldAreNamed
<1> SUFFICES ASSUME IInv PROVE Held = Named \cup Left
    BY DEF HeldAreNamed
<1>1. ASSUME NEW h \in Hdl, Used(h)
      PROVE  fdTab[h].ino \in Named \cup Left
    <2>1. CASE lost[h] # 0
        BY <2>1 DEF Left
    <2>2. CASE lost[h] = 0
        <3>1. -1 \notin Hdl /\ fdTab[h].ino \in Ino
            BY <1>1 DEF Hdl, IInv, Tables, HandleLeads
        <3>2. ASSUME NEW d \in DD, dd[d].hdl = h PROVE fdTab[h].ino \in Named
            <4>1. InUse(d) /\ dd[d].ino = fdTab[h].ino
                BY <3>1, <3>2 DEF InUse, IInv, Blocks, DDNamed
            <4> QED BY <3>1, <4>1, OpenedValues DEF Named
        <3>3. ASSUME NEW g \in GuestFD, file[g].hdl = h PROVE fdTab[h].ino \in Named
            <4>1. IsOpen(g) /\ file[g].ino = fdTab[h].ino
                BY <3>1, <3>3 DEF IsOpen, IInv, Blocks, FileNamed
            <4> QED BY <3>1, <4>1, OpenedValues DEF Named
        <3> QED BY <1>1, <2>2, <3>2, <3>3, UsedIsNamed
    <2> QED BY <2>1, <2>2 DEF IInv, TypeOK
<1>2. ASSUME NEW i \in Named
      PROVE  \E h \in Hdl : Used(h) /\ fdTab[h].ino = i
    <2>1. PICK b \in Block : Opened[b] = i
        BY DEF Named
    <2>2. i # NoIno
        BY Nobody DEF Named
    <2>3. ASSUME NEW d \in DD, b = <<"dd", d>> PROVE \E h \in Hdl : Used(h) /\ fdTab[h].ino = i
        <3>1. InUse(d) /\ dd[d].ino = i
            BY <2>1, <2>2, <2>3, OpenedValues
        <3> QED BY <3>1, NamedIsUsed DEF IInv, Blocks, DDNamed
    <2>4. ASSUME NEW g \in GuestFD, b = <<"file", g>> PROVE \E h \in Hdl : Used(h) /\ fdTab[h].ino = i
        <3>1. IsOpen(g) /\ file[g].ino = i
            BY <2>1, <2>2, <2>4, OpenedValues
        <3> QED BY <3>1, NamedIsUsed DEF IInv, Blocks, FileNamed
    <2> QED BY <2>3, <2>4, OpenedValues
<1>3. \A h \in Hdl : lost[h] # 0 => Used(h)
    BY LeftIsUsed
<1>4. ASSUME NEW i \in Left PROVE \E h \in Hdl : Used(h) /\ fdTab[h].ino = i
    BY <1>3 DEF Left
<1> QED BY <1>1, <1>2, <1>4, HeldByHandles
LEMMA HeldIsNamedNext == IInv' => HeldAreNamed'
BY HeldIsNamed, PTL

\* Opening, closing and leaving behind: the host's side follows from the driver's.
LEMMA OpenAsPromised ==
    ASSUME IInv, IInv', NEW b \in Block, NEW i \in Ino, Opened[b] = NoIno,
           Opened' = [Opened EXCEPT ![b] = i], UNCHANGED <<Left, Searched, SlotOf>>
    PROVE  Files!Next
<1>1. Held = Named \cup Left /\ Held' = Named' \cup Left
    BY HeldIsNamed, HeldIsNamedNext DEF HeldAreNamed
<1>2. \A c \in Block : Opened'[c] = IF c = b THEN i ELSE Opened[c]
    BY DEF Opened
<1>3. Named' = Named \cup {i}
    BY <1>2, Nobody DEF Named
<1> QED BY <1>1, <1>3 DEF Files!Next, Files!Open, Files!searchVars

LEMMA CloseAsPromised ==
    ASSUME IInv, IInv', NEW b \in Block, Opened[b] # NoIno,
           Opened' = [Opened EXCEPT ![b] = NoIno], UNCHANGED <<Left, Searched, SlotOf>>
    PROVE  Files!Next
<1>1. Held = Named \cup Left /\ Held' = Named' \cup Left
    BY HeldIsNamed, HeldIsNamedNext DEF HeldAreNamed
<1>2. \A c \in Block : Opened'[c] = IF c = b THEN NoIno ELSE Opened[c]
    BY DEF Opened
<1>3. Named' = {i \in Named : i = Opened[b] => \E c \in Block \ {b} : Opened[c] = i}
    BY <1>2, Nobody DEF Named
<1>4. Held' = {i \in Held : i = Opened[b] => Files!Needed(i, b)}
    BY <1>1, <1>3 DEF Files!Needed
<1> QED BY <1>4 DEF Files!Next, Files!Close, Files!searchVars

LEMMA LeaveAsPromised ==
    ASSUME IInv, IInv', NEW b \in DDBlock, Opened[b] # NoIno, Opened[b] \in Ino,
           Opened' = [Opened EXCEPT ![b] = NoIno], Left' = Left \cup {Opened[b]},
           UNCHANGED <<Searched, SlotOf>>
    PROVE  Files!Next
<1>0. b \in Block
    BY DEF Block
<1>1. Held = Named \cup Left /\ Held' = Named' \cup Left'
    BY HeldIsNamed, HeldIsNamedNext DEF HeldAreNamed
<1>2. \A c \in Block : Opened'[c] = IF c = b THEN NoIno ELSE Opened[c]
    BY <1>0 DEF Opened
<1>3. Named' \subseteq Named /\ Named \subseteq Named' \cup {Opened[b]} /\ Opened[b] \in Named
    BY <1>0, <1>2, Nobody DEF Named
<1>4. Held' = Held
    BY <1>1, <1>3
<1> QED BY <1>4 DEF Files!Next, Files!Leave, Files!searchVars

\* One block changes, the others do not.
LEMMA DDChanged ==
    ASSUME IInv, NEW d \in DD, NEW h, NEW i, dd'[d].hdl = h, dd'[d].ino = i,
           \A e \in DD : e # d => dd'[e] = dd[e], UNCHANGED file
    PROVE  Opened' = [Opened EXCEPT ![<<"dd", d>>] = IF h # -1 THEN i ELSE NoIno]
<1>2. \A b \in Block : Denotes(b)' = IF b = <<"dd", d>> THEN IF h # -1 THEN i ELSE NoIno
                                     ELSE Denotes(b)
    <2> SUFFICES ASSUME NEW b \in Block
                 PROVE  Denotes(b)' = IF b = <<"dd", d>> THEN IF h # -1 THEN i ELSE NoIno
                                      ELSE Denotes(b)
        OBVIOUS
    <2>1. CASE \E e \in DD : b = <<"dd", e>>
        <3>1. PICK e \in DD : b = <<"dd", e>>
            BY <2>1
        <3> QED BY <3>1 DEF Denotes, InUse
    <2>2. CASE \E g \in GuestFD : b = <<"file", g>>
        <3>1. PICK g \in GuestFD : b = <<"file", g>>
            BY <2>2
        <3> QED BY <3>1 DEF Denotes, IsOpen
    <2> QED BY <2>1, <2>2, OpenedValues
<1> QED BY <1>2 DEF Opened

LEMMA FileChanged ==
    ASSUME IInv, NEW g \in GuestFD, NEW h, NEW i, file'[g].hdl = h, file'[g].ino = i,
           \A e \in GuestFD : e # g => file'[e] = file[e], UNCHANGED dd
    PROVE  Opened' = [Opened EXCEPT ![<<"file", g>>] = IF h # -1 THEN i ELSE NoIno]
<1>2. \A b \in Block : Denotes(b)' = IF b = <<"file", g>> THEN IF h # -1 THEN i ELSE NoIno
                                     ELSE Denotes(b)
    <2> SUFFICES ASSUME NEW b \in Block
                 PROVE  Denotes(b)' = IF b = <<"file", g>> THEN IF h # -1 THEN i ELSE NoIno
                                      ELSE Denotes(b)
        OBVIOUS
    <2>1. CASE \E e \in GuestFD : b = <<"file", e>>
        <3>1. PICK e \in GuestFD : b = <<"file", e>>
            BY <2>1
        <3> QED BY <3>1 DEF Denotes, IsOpen
    <2>2. CASE \E d \in DD : b = <<"dd", d>>
        <3>1. PICK d \in DD : b = <<"dd", d>>
            BY <2>2
        <3> QED BY <3>1 DEF Denotes, InUse
    <2> QED BY <2>1, <2>2, OpenedValues
<1> QED BY <1>2 DEF Opened

\* A reference acquired or released is none of the searches' business, nor that of
\* roots left behind.
LEMMA OthersUntouched ==
    ASSUME IInv, NEW h \in Hdl, NEW i \in Ino, Acquired(i, h) \/ Released(h), UNCHANGED <<search, lost>>
    PROVE  UNCHANGED <<Left, Searched, SlotOf>>
<1>1. /\ UNCHANGED opendirTable
      /\ \A o \in Odh : Running(o) => hostFd'[opendirTable[o].fd] = hostFd[opendirTable[o].fd]
    BY DEF Acquired, Released, Kept
<1>2. \A s \in Search : Own(s)' <=> Own(s)
    BY <1>1 DEF Own, Running
<1>3. \A k \in Hdl : lost[k] # 0 => fdTab'[k].ino = fdTab[k].ino
    BY LeftIsUsed DEF Acquired, Released
<1>4. Left' = Left
    BY <1>3 DEF Left
<1>5. SlotOf' = SlotOf
    BY <1>2 DEF SlotOf
<1>6. Searched' = Searched
    BY <1>1 DEF Searched, Running
<1> QED BY <1>4, <1>5, <1>6
\* Calls that change the driver's blocks.
LEMMA DriveOpenPromised ==
    ASSUME IInv, IInv', NEW v \in Drv, NEW d \in DD, drv_open(v, d)
    PROVE  Files!Next
<1>1. PICK i \in Ino, h \in Hdl : /\ hostpath2HostFD(i, h)
                                  /\ dd' = [dd EXCEPT ![d] = [hdl |-> h, ino |-> i, drv |-> v]]
    BY DEF drv_open
<1>2. ~InUse(d) /\ UNCHANGED <<opendirTable, now, file, search, lost>>
    BY DEF drv_open
<1>3. UNCHANGED <<Left, Searched, SlotOf>>
    BY <1>1, <1>2, PathAcquires, OthersUntouched DEF IInv, TypeOK
<1>4. h # -1
    BY DEF Hdl
<1>5. Opened' = [Opened EXCEPT ![<<"dd", d>>] = i]
    <2>1. dd'[d] = [hdl |-> h, ino |-> i, drv |-> v] /\ \A e \in DD : e # d => dd'[e] = dd[e]
        BY <1>1 DEF IInv, TypeOK
    <2> QED BY <2>1, <1>2, <1>4, DDChanged
<1> QED BY <1>2, <1>3, <1>5, OpenedValues, OpenAsPromised

LEMMA PathPromised ==
    ASSUME IInv, IInv', NEW d \in DD, NEW e \in DD, path2DD(d, e)
    PROVE  Files!Next
<1>1. PICK i \in Ino, h \in Hdl :
          /\ (h = dd[d].hdl /\ i = dd[d].ino /\ ReuseDirectory(h)) \/ hostpath2HostFD(i, h)
          /\ dd' = [dd EXCEPT ![e] = [hdl |-> h, ino |-> i, drv |-> dd[d].drv]]
    BY DEF path2DD
<1>2. InUse(d) /\ ~InUse(e) /\ UNCHANGED <<opendirTable, now, file, search, lost>>
    BY DEF path2DD
<1>3. Acquired(i, h)
    <2>1. CASE hostpath2HostFD(i, h)
        BY <2>1, <1>2, PathAcquires DEF IInv, TypeOK
    <2>2. CASE h = dd[d].hdl /\ i = dd[d].ino /\ ReuseDirectory(h)
        <3>1. Used(h) /\ fdTab[h].ino = i
            BY <2>2, <1>2, NamedIsUsed DEF IInv, Blocks, DDNamed
        <3> QED BY <2>2, <3>1, <1>2, AddRefAcquires DEF IInv, TypeOK, ReuseDirectory
    <2> QED BY <1>1, <2>1, <2>2
<1>4. UNCHANGED <<Left, Searched, SlotOf>>
    BY <1>2, <1>3, OthersUntouched
<1>5. h # -1
    BY DEF Hdl
<1>6. Opened' = [Opened EXCEPT ![<<"dd", e>>] = i]
    <2>1. dd'[e] = [hdl |-> h, ino |-> i, drv |-> dd[d].drv] /\ \A c \in DD : c # e => dd'[c] = dd[c]
        BY <1>1 DEF IInv, TypeOK
    <2> QED BY <2>1, <1>2, <1>5, DDChanged
<1> QED BY <1>2, <1>4, <1>6, OpenedValues, OpenAsPromised

LEMMA FreePromised ==
    ASSUME IInv, IInv', NEW d \in DD, freeDD(d)
    PROVE  Files!Next
<1>1. InUse(d) /\ freeHostFD(dd[d].hdl) /\ dd' = [dd EXCEPT ![d] = NoRef]
      /\ UNCHANGED <<opendirTable, now, file, search, lost>>
    BY DEF freeDD
<1>2. dd[d].hdl \in Hdl /\ Used(dd[d].hdl) /\ dd[d].ino = fdTab[dd[d].hdl].ino
    BY <1>1, NamedIsUsed DEF IInv, Blocks, DDNamed
<1>3. dd[d].ino \in Ino
    BY <1>2 DEF IInv, Tables, HandleLeads
<1>4. UNCHANGED <<Left, Searched, SlotOf>>
    BY <1>1, <1>2, <1>3, FreeReleases, OthersUntouched DEF IInv, TypeOK
<1>5. Opened' = [Opened EXCEPT ![<<"dd", d>>] = NoIno]
    <2>1. dd'[d].hdl = -1 /\ \A e \in DD : e # d => dd'[e] = dd[e]
        BY <1>1 DEF NoRef, IInv, TypeOK
    <2> QED BY <2>1, <1>1, DDChanged
<1> QED BY <1>1, <1>3, <1>4, <1>5, Nobody, OpenedValues, CloseAsPromised

LEMMA FileOpenPromised ==
    ASSUME IInv, IInv', NEW d \in DD, NEW g \in GuestFD, NEW i \in Ino, NEW w \in BOOLEAN,
           fopen(d, g, i, w)
    PROVE  Files!Next
<1>1. PICK p \in Hdl, h \in Hdl, f \in Fd :
          /\ getFreeHostFD(p) /\ NewFd(f) /\ allocHostFD(p, f, i, w, h)
          /\ file' = [file EXCEPT ![g] = [hdl |-> h, refcnt |-> 1, ino |-> i, write |-> w]]
    BY DEF fopen
<1>2. ~IsOpen(g) /\ UNCHANGED <<opendirTable, now, dd, search, lost>>
    BY DEF fopen
<1>3. UNCHANGED <<Left, Searched, SlotOf>>
    BY <1>1, <1>2, AllocAcquires, OthersUntouched DEF IInv, TypeOK
<1>4. h # -1
    BY DEF Hdl
<1>5. Opened' = [Opened EXCEPT ![<<"file", g>>] = i]
    <2>1. /\ file'[g] = [hdl |-> h, refcnt |-> 1, ino |-> i, write |-> w]
          /\ \A e \in GuestFD : e # g => file'[e] = file[e]
        BY <1>1 DEF IInv, TypeOK
    <2> QED BY <2>1, <1>2, <1>4, FileChanged
<1> QED BY <1>2, <1>3, <1>5, OpenedValues, OpenAsPromised

LEMMA FileClosePromised ==
    ASSUME IInv, IInv', NEW g \in GuestFD, LastClose(g), dev_close(g)
    PROVE  Files!Next
<1>1. IsOpen(g) /\ freeHostFD(file[g].hdl) /\ file' = [file EXCEPT ![g] = NoFile]
      /\ UNCHANGED <<opendirTable, now, dd, search, lost>>
    BY DEF dev_close
<1>2. file[g].hdl \in Hdl /\ Used(file[g].hdl) /\ file[g].ino = fdTab[file[g].hdl].ino
    BY <1>1, NamedIsUsed DEF IInv, Blocks, FileNamed
<1>3. file[g].ino \in Ino
    BY <1>2 DEF IInv, Tables, HandleLeads
<1>4. UNCHANGED <<Left, Searched, SlotOf>>
    BY <1>1, <1>2, <1>3, FreeReleases, OthersUntouched DEF IInv, TypeOK
<1>5. Opened' = [Opened EXCEPT ![<<"file", g>>] = NoIno]
    <2>1. file'[g].hdl = -1 /\ \A e \in GuestFD : e # g => file'[e] = file[e]
        BY <1>1 DEF NoFile, IInv, TypeOK
    <2> QED BY <2>1, <1>1, FileChanged
<1> QED BY <1>1, <1>3, <1>4, <1>5, Nobody, OpenedValues, CloseAsPromised

\* The descriptors of searches and of handles are not touched.
LEMMA TablesUntouched ==
    ASSUME UNCHANGED <<opendirTable, hostFd>>
    PROVE  Searched' = Searched /\ (UNCHANGED search => SlotOf' = SlotOf)
BY DEF Searched, SlotOf, Own, Running

LEMMA DriveClosePromised ==
    ASSUME IInv, IInv', NEW v \in Drv, drv_close(v)
    PROVE  Files!Next
<1> DEFINE d == root[v]
<1> DEFINE h == dd[d].hdl
<1>1. d \in DD /\ InUse(d) /\ h \in Hdl /\ Used(h) /\ dd[d].ino = fdTab[h].ino
    BY NamedIsUsed DEF drv_close, IInv, TypeOK, Blocks, DDNamed
<1>2. /\ dd' = [dd EXCEPT ![d] = NoRef] /\ lost' = [lost EXCEPT ![h] = @ + 1]
      /\ UNCHANGED <<fdTab, opendirTable, hostFd, file, search>>
    BY DEF drv_close, handleVars
<1>3. dd[d].ino \in Ino
    BY <1>1 DEF IInv, Tables, HandleLeads
<1> HIDE DEF h, d
<1>4. Opened' = [Opened EXCEPT ![<<"dd", d>>] = NoIno]
    <2>1. dd'[d].hdl = -1 /\ \A e \in DD : e # d => dd'[e] = dd[e]
        BY <1>1, <1>2 DEF NoRef, IInv, TypeOK
    <2> QED BY <2>1, <1>1, <1>2, DDChanged
<1>5. \A k \in Hdl : lost'[k] # 0 <=> lost[k] # 0 \/ k = h
    BY <1>1, <1>2 DEF IInv, TypeOK
<1>6. Left' = Left \cup {dd[d].ino}
    BY <1>1, <1>2, <1>5 DEF Left
<1>7. UNCHANGED <<Searched, SlotOf>>
    BY <1>2, TablesUntouched
<1>8. <<"dd", d>> \in DDBlock /\ Opened[<<"dd", d>>] = dd[d].ino
    BY <1>1, OpenedValues DEF DDBlock
<1> QED BY <1>3, <1>4, <1>6, <1>7, <1>8, Nobody, LeaveAsPromised

\* Calls that change no block.
LEMMA BlocksUntouched ==
    ASSUME IInv, IInv', \A h \in Hdl : lost[h] # 0 => fdTab'[h].ino = fdTab[h].ino, UNCHANGED <<dd, lost>>,
           \A g \in GuestFD : file'[g].hdl = file[g].hdl /\ file'[g].ino = file[g].ino
    PROVE  UNCHANGED <<Opened, Held, Left>>
<1>1. Left' = Left
    BY DEF Left
<1>2. Opened' = Opened
    <2> SUFFICES ASSUME NEW b \in Block PROVE Denotes(b)' = Denotes(b)
        BY DEF Opened
    <2> QED BY OpenedValues DEF Denotes, InUse, IsOpen
<1>3. Named' = Named
    BY <1>2 DEF Named
<1> QED BY <1>1, <1>2, <1>3, HeldIsNamed, HeldIsNamedNext DEF HeldAreNamed

\* The host's descriptors are open on files: nothing else is ever opened.
OpenOnFiles == \A f \in Fd : hostFd[f] # Closed => hostFd[f].ino \in Ino

LEMMA OpenOnFilesStep == IInv /\ OpenOnFiles /\ [Next]_vars => OpenOnFiles'
<1> SUFFICES ASSUME IInv, OpenOnFiles, [Next]_vars PROVE OpenOnFiles'
    OBVIOUS
<1>0. hostFd \in [Fd -> [ino : Ino \cup {NoIno}, write : BOOLEAN]]
    BY DEF IInv, TypeOK, HandleTypeOK
<1>1. ASSUME NEW f \in Fd, NEW i \in Ino, NEW w, hostFd' = WithOpen(f, i, w)
      PROVE  OpenOnFiles'
    BY <1>0, <1>1 DEF WithOpen, OpenOnFiles
<1>2. ASSUME NEW F, hostFd' = WithClosed(F)
      PROVE  OpenOnFiles'
    BY <1>2 DEF WithClosed, OpenOnFiles
<1>3. CASE UNCHANGED hostFd
    BY <1>3 DEF OpenOnFiles
<1>4. ASSUME NEW h, freeHostFD(h)
      PROVE  OpenOnFiles'
    BY <1>2, <1>3, <1>4 DEF freeHostFD
<1>5. ASSUME NEW i \in Ino, NEW h, hostpath2HostFD(i, h)
      PROVE  OpenOnFiles'
    BY <1>1, <1>3, <1>5 DEF hostpath2HostFD, FoundDirectory, OpenedDirectory, allocHostFD
<1>6. ASSUME NEW v \in Drv, NEW d \in DD, drv_open(v, d)
      PROVE  OpenOnFiles'
    BY <1>5, <1>6 DEF drv_open
<1>7. CASE \E v \in Drv : drv_close(v) \/ setNewDrv(v) \/ eject(v)
    BY <1>3, <1>7 DEF drv_close, setNewDrv, eject, handleVars
<1>8. ASSUME NEW d \in DD, NEW e \in DD, path2DD(d, e)
      PROVE  OpenOnFiles'
    BY <1>3, <1>5, <1>8 DEF path2DD, ReuseDirectory
<1>9. ASSUME NEW d \in DD, freeDD(d)
      PROVE  OpenOnFiles'
    BY <1>4, <1>9 DEF freeDD
<1>10. ASSUME NEW d \in DD, NEW g \in GuestFD, NEW i \in Ino, NEW w \in BOOLEAN, fopen(d, g, i, w)
       PROVE  OpenOnFiles'
    BY <1>1, <1>3, <1>10 DEF fopen, allocHostFD
<1>11. ASSUME NEW g \in GuestFD, Fdup(g) \/ dev_close(g)
       PROVE  OpenOnFiles'
    BY <1>3, <1>4, <1>11 DEF Fdup, dev_close, handleVars
<1>12. CASE OpenFailed \/ Tick
    BY <1>3, <1>12 DEF OpenFailed, Tick
<1>13. ASSUME NEW s \in Search, NEW d \in DD, NEW p \in Pd, NEW kind \in {"dta", "dhd"},
              opendir(s, d, p, kind)
       PROVE  OpenOnFiles'
    <2>1. hostFd[fdTab[dd[d].hdl].fd].ino \in Ino
        BY <1>13, Directories DEF opendir, IsDirectory
    <2>2. PICK o \in Odh, f \in Fd :
              hostFd' = [WithClosed(IF Running(o) THEN {opendirTable[o].fd} ELSE {})
                            EXCEPT ![f] = [ino |-> hostFd[fdTab[dd[d].hdl].fd].ino, write |-> FALSE]]
        BY <1>13 DEF opendir, allocOpendir
    <2> QED BY <2>1, <2>2 DEF WithClosed, OpenOnFiles
<1>14. CASE \E s, t \in Search : CopyDTA(s, t)
    BY <1>3, <1>14 DEF CopyDTA, handleVars
<1>15. ASSUME NEW s \in Search, NEW p \in Pd,
              readdir(s, p) \/ rewindRefused(s, p) \/ snextEnd(s, p) \/ dclosedir(s, p)
       PROVE  OpenOnFiles'
    BY <1>2, <1>3, <1>15 DEF readdir, rewindRefused, snextEnd, dclosedir, closeOpendir, handleVars
<1>16. CASE \E p \in Pd : pterm(p)
    BY <1>2, <1>16 DEF pterm, ptermOpendir
<1>17. CASE UNCHANGED vars
    BY <1>3, <1>17 DEF vars, handleVars
<1> QED
    BY <1>6, <1>7, <1>8, <1>9, <1>10, <1>11, <1>12, <1>13, <1>14, <1>15, <1>16, <1>17 DEF Next

\* Searches that end, or are forgotten.
LEMMA EndAsPromised ==
    ASSUME IInv, NEW O \in SUBSET Odh, UNCHANGED <<Opened, Held, Left>>,
           \A o \in Odh : Running(o)' <=> Running(o) /\ o \notin O,
           \A o \in Odh \ O : /\ opendirTable'[o] = opendirTable[o]
                              /\ Running(o) => hostFd'[opendirTable[o].fd] = hostFd[opendirTable[o].fd],
           \A s \in Search : search'[s] = search[s] \/ search'[s].odh = -1
    PROVE  Files!Next
<1> DEFINE S == {s \in Search : search'[s] # search[s]}
<1>1. Searched' = [o \in Odh |-> IF o \in O THEN NoIno ELSE Searched[o]]
    BY DEF Searched
<1>2. -1 \notin Odh
    BY DEF Odh
<1>3. ASSUME NEW s \in Search, search'[s] = search[s]
      PROVE  Own(s)' <=> Own(s) /\ search[s].odh \notin O
    BY <1>3 DEF Own
<1>4. ASSUME NEW s \in Search
      PROVE  (IF Own(s) THEN search[s].odh ELSE -1)'
                = IF s \in S \/ SlotOf[s] \in O THEN -1 ELSE SlotOf[s]
    <2>1. CASE search'[s] = search[s]
        BY <1>2, <1>3, <2>1 DEF SlotOf
    <2>2. CASE search'[s] # search[s]
        BY <1>2, <2>2 DEF Own
    <2> QED BY <2>1, <2>2
<1>5. SlotOf' = [s \in Search |-> IF s \in S \/ SlotOf[s] \in O THEN -1 ELSE SlotOf[s]]
    BY <1>4 DEF SlotOf
<1>6. S \in SUBSET Search
    OBVIOUS
<1> QED BY <1>1, <1>5, <1>6 DEF Files!Next, Files!End, Files!fileVars
\* A search that begins takes a free slot, or that of a search it ends: no other
\* search has its hash value, so none goes on in the slot.
LEMMA BeginAsPromised ==
    ASSUME IInv, IInv', OpenOnFiles, NEW s \in Search, NEW d \in DD, NEW p \in Pd,
           NEW kind \in {"dta", "dhd"}, opendir(s, d, p, kind)
    PROVE  Files!Next
<1> DEFINE i == hostFd[fdTab[dd[d].hdl].fd].ino
<1>1. PICK o \in Odh, f \in Fd, x \in Hash :
          /\ NewFd(f) /\ NewHash(x) /\ allocOpendir(o, f, i, p, x)
          /\ search' = [search EXCEPT ![s] = [kind |-> kind, odh |-> o, pd |-> p, hash |-> x,
                                              ino |-> dd[d].ino, drv |-> dd[d].drv]]
    BY DEF opendir
<1>2. UNCHANGED <<fdTab, now, dd, file, lost>>
    BY DEF opendir
<1>3. i \in Ino
    BY Directories DEF opendir, IsDirectory
<1> HIDE DEF i
<1>4. /\ \A q \in Odh : Running(q)' <=> Running(q) \/ q = o
      /\ \A q \in Odh : q # o => opendirTable'[q] = opendirTable[q]
      /\ \A q \in Odh : q # o /\ Running(q) => hostFd'[opendirTable[q].fd] = hostFd[opendirTable[q].fd]
      /\ opendirTable'[o].hash = x /\ hostFd'[opendirTable'[o].fd].ino = i
    BY <1>1, <1>2, <1>3, OpeningSearch DEF IInv, TypeOK
<1>5. \A t \in Search : search[t].hash # x
    BY <1>1 DEF NewHash, IsFirst
<1>6. /\ search'[s].odh = o /\ search'[s].hash = x
      /\ \A t \in Search : t # s => search'[t] = search[t]
    BY <1>1 DEF IInv, TypeOK
<1>7. Searched' = [Searched EXCEPT ![o] = i]
    BY <1>4 DEF Searched
<1>8. SlotOf' = [t \in Search |-> IF t = s THEN o ELSE IF SlotOf[t] = o THEN -1 ELSE SlotOf[t]]
    <2>1. Own(s)'
        BY <1>4, <1>6 DEF Own
    <2>2. \A t \in Search : t # s => (Own(t)' <=> Own(t) /\ search[t].odh # o)
        BY <1>4, <1>5, <1>6 DEF Own
    <2>3. -1 \notin Odh
        BY DEF Odh
    <2>4. \A t \in Search : (IF Own(t) THEN search[t].odh ELSE -1)'
                              = IF t = s THEN o ELSE IF SlotOf[t] = o THEN -1 ELSE SlotOf[t]
        BY <1>6, <2>1, <2>2, <2>3 DEF SlotOf
    <2> QED BY <2>4 DEF SlotOf
<1>9. Searched[o] = NoIno \/ \A q \in Odh : Searched[q] # NoIno
    <2>1. Running(o) => \A q \in Odh : Running(q)
        BY <1>1 DEF allocOpendir, Victim, IsFirst
    <2>2. \A q \in Odh : Running(q) => opendirTable[q].fd \in Fd /\ hostFd[opendirTable[q].fd] # Closed
        BY DEF IInv, Tables, FdsOwnedOnce
    <2> QED BY <2>1, <2>2, Nobody DEF Searched, OpenOnFiles
<1>10. UNCHANGED <<Opened, Held, Left>>
    BY <1>2, BlocksUntouched
<1> QED BY <1>3, <1>7, <1>8, <1>9, <1>10 DEF Files!Next, Files!Begin, Files!fileVars

LEMMA CopyAsPromised ==
    ASSUME IInv, IInv', NEW s \in Search, NEW t \in Search, CopyDTA(s, t)
    PROVE  Files!Next
<1>1. search[t] = Idle /\ search' = [search EXCEPT ![t] = search[s]]
      /\ UNCHANGED <<fdTab, opendirTable, hostFd, dd, file, lost>>
    BY DEF CopyDTA, handleVars
<1>2. \A u \in Search : search'[u] = IF u = t THEN search[s] ELSE search[u]
    BY <1>1 DEF IInv, TypeOK
<1>3. SlotOf[t] = -1
    BY <1>1 DEF SlotOf, Own, Idle, Odh
<1>4. SlotOf' = [SlotOf EXCEPT ![t] = SlotOf[s]]
    <2>1. \A u \in Search : Own(u)' <=> IF u = t THEN Own(s) ELSE Own(u)
        BY <1>1, <1>2 DEF Own, Running
    <2> QED BY <1>2, <2>1 DEF SlotOf
<1>5. Searched' = Searched
    BY <1>1, TablesUntouched
<1>6. UNCHANGED <<Opened, Held, Left>>
    BY <1>1, BlocksUntouched
<1> QED BY <1>3, <1>4, <1>5, <1>6 DEF Files!Next, Files!Copy, Files!fileVars

LEMMA ContinueAsPromised ==
    ASSUME IInv, IInv', NEW s \in Search, NEW p \in Pd, readdir(s, p)
    PROVE  UNCHANGED Files!vars
<1>1. /\ opendirTable' = [opendirTable EXCEPT ![search[s].odh].lru = now]
      /\ search[s].odh \in Odh /\ Running(search[s].odh)
      /\ UNCHANGED <<fdTab, hostFd, dd, file, search, lost>>
    BY DEF readdir, Granted, getOpendir, Refresh, guestVars
<1>2. \A q \in Odh : /\ Running(q)' <=> Running(q)
                     /\ opendirTable'[q].fd = opendirTable[q].fd
                     /\ opendirTable'[q].hash = opendirTable[q].hash
    BY <1>1 DEF IInv, TypeOK, HandleTypeOK, Running
<1>3. Searched' = Searched
    BY <1>1, <1>2 DEF Searched
<1>4. \A u \in Search : Own(u)' <=> Own(u)
    BY <1>1, <1>2 DEF Own
<1>5. SlotOf' = SlotOf
    BY <1>1, <1>4 DEF SlotOf
<1>6. UNCHANGED <<Opened, Held, Left>>
    BY <1>1, BlocksUntouched
<1> QED BY <1>3, <1>5, <1>6 DEF Files!vars, Files!fileVars, Files!searchVars

LEMMA GoneAsPromised ==
    ASSUME IInv, IInv', NEW p \in Pd, pterm(p)
    PROVE  Files!Next
<1> DEFINE O == Orphans(p)
<1>1. /\ O \in SUBSET Odh /\ \A o \in O : Running(o)
      /\ opendirTable' = [o \in Odh |-> IF o \in O THEN NoSearch(o) ELSE opendirTable[o]]
      /\ hostFd' = WithClosed({opendirTable[o].fd : o \in O})
      /\ search' = [s \in Search |-> IF search[s].pd = p THEN Idle ELSE search[s]]
      /\ UNCHANGED <<fdTab, now, dd, file, lost>>
    BY DEF pterm, ptermOpendir, Orphans
<1> HIDE DEF O
<1>2. /\ \A o \in Odh : Running(o)' <=> Running(o) /\ o \notin O
      /\ \A o \in Odh : o \notin O => opendirTable'[o] = opendirTable[o]
      /\ \A o \in Odh \ O : Running(o) => hostFd'[opendirTable[o].fd] = hostFd[opendirTable[o].fd]
    BY <1>1, ClosingSearches DEF IInv, TypeOK
<1>3. \A s \in Search : search'[s] = search[s] \/ search'[s].odh = -1
    BY <1>1 DEF Idle
<1>4. UNCHANGED <<Opened, Held, Left>>
    BY <1>1, BlocksUntouched
<1> QED BY <1>1, <1>2, <1>3, <1>4, EndAsPromised

\* One search is closed by its owner ...
LEMMA CloseSearchAsPromised ==
    ASSUME IInv, IInv', NEW s \in Search, NEW p \in Pd, Granted(s, p),
           closeOpendir(search[s].odh, search[s].hash), search' = [search EXCEPT ![s] = Idle],
           UNCHANGED <<fdTab, now, dd, file, lost>>
    PROVE  Files!Next
<1> DEFINE o == search[s].odh
<1>1. o \in Odh /\ Running(o) /\ opendirTable[o].hash = search[s].hash
    BY DEF Granted, getOpendir
<1>2. /\ \A q \in Odh : Running(q)' <=> Running(q) /\ q # o
      /\ \A q \in Odh : q # o => opendirTable'[q] = opendirTable[q]
      /\ \A q \in Odh : q # o /\ Running(q) => hostFd'[opendirTable[q].fd] = hostFd[opendirTable[q].fd]
    <2>1. closeOpendir(o, opendirTable[o].hash)
        BY <1>1
    <2> QED BY <1>1, <2>1, CloseCloses DEF IInv, TypeOK
<1>3. \A t \in Search : search'[t] = search[t] \/ search'[t].odh = -1
    BY DEF IInv, TypeOK, Idle
<1> HIDE DEF o
<1>4. UNCHANGED <<Opened, Held, Left>>
    BY BlocksUntouched
<1>5. {o} \in SUBSET Odh
    BY <1>1
<1> QED BY <1>2, <1>3, <1>4, <1>5, EndAsPromised

\* ... or given up, while its slot stays taken.
LEMMA ForgetAsPromised ==
    ASSUME IInv, IInv', NEW s \in Search, UNCHANGED <<fdTab, opendirTable, hostFd, dd, file, lost>>,
           search' = [search EXCEPT ![s] = Idle] \/ search' = [search EXCEPT ![s].odh = -1]
    PROVE  Files!Next
<1>1. \A t \in Search : search'[t] = search[t] \/ search'[t].odh = -1
    BY DEF IInv, TypeOK, Idle
<1>2. \A o \in Odh : Running(o)' <=> Running(o) /\ o \notin {}
    BY DEF Running
<1>3. UNCHANGED <<Opened, Held, Left>>
    BY BlocksUntouched
<1>4. {} \in SUBSET Odh
    OBVIOUS
<1> QED BY <1>1, <1>2, <1>3, <1>4, EndAsPromised
\* What neither opens nor closes anything.
LEMMA OthersAsPromised ==
    ASSUME IInv, IInv', UNCHANGED <<opendirTable, hostFd, dd, search, lost>>,
           \A h \in Hdl : lost[h] # 0 => fdTab'[h].ino = fdTab[h].ino,
           \A g \in GuestFD : file'[g].hdl = file[g].hdl /\ file'[g].ino = file[g].ino
    PROVE  UNCHANGED Files!vars
BY TablesUntouched, BlocksUntouched DEF Files!vars, Files!fileVars, Files!searchVars

LEMMA StepAsPromised ==
    ASSUME IInv, IInv', OpenOnFiles, [Next]_vars
    PROVE  Files!Next \/ UNCHANGED Files!vars
<1>1. CASE \E v \in Drv, d \in DD : drv_open(v, d)
    BY <1>1, DriveOpenPromised
<1>2. CASE \E v \in Drv : drv_close(v)
    BY <1>2, DriveClosePromised
<1>3. CASE \E v \in Drv : setNewDrv(v) \/ eject(v)
    BY <1>3, OthersAsPromised DEF setNewDrv, eject, handleVars, guestVars
<1>4. CASE \E d, e \in DD : path2DD(d, e)
    BY <1>4, PathPromised
<1>5. CASE \E d \in DD : freeDD(d)
    BY <1>5, FreePromised
<1>6. CASE \E d \in DD, g \in GuestFD, i \in Ino, w \in BOOLEAN : fopen(d, g, i, w)
    BY <1>6, FileOpenPromised
<1>7. ASSUME NEW g \in GuestFD, NEW n, file' = [file EXCEPT ![g].refcnt = n],
             UNCHANGED <<handleVars, dd, search, lost>>
      PROVE  UNCHANGED Files!vars
    <2>1. \A e \in GuestFD : file'[e].hdl = file[e].hdl /\ file'[e].ino = file[e].ino
        BY <1>7 DEF IInv, TypeOK
    <2> QED BY <1>7, <2>1, OthersAsPromised DEF handleVars
<1>8. ASSUME NEW g \in GuestFD, Fdup(g)
      PROVE  UNCHANGED Files!vars
    BY <1>7, <1>8 DEF Fdup
<1>9. ASSUME NEW g \in GuestFD, dev_close(g)
      PROVE  Files!Next \/ UNCHANGED Files!vars
    <2>1. CASE LastClose(g)
        BY <1>9, <2>1, FileClosePromised
    <2>2. CASE ~LastClose(g)
        BY <1>7, <1>9, <2>2 DEF dev_close, handleVars
    <2> QED BY <2>1, <2>2
<1>10. CASE OpenFailed
    <2>1. PICK p \in Hdl, f \in Fd \cup {-1} : fdTab' = [fdTab EXCEPT ![p].fd = f]
        BY <1>10 DEF OpenFailed
    <2>2. \A h \in Hdl : fdTab'[h].ino = fdTab[h].ino
        BY <2>1 DEF IInv, TypeOK, HandleTypeOK
    <2> QED BY <1>10, <2>2, OthersAsPromised DEF OpenFailed, guestVars
<1>11. CASE \E s \in Search, d \in DD, p \in Pd, kind \in {"dta", "dhd"} : opendir(s, d, p, kind)
    BY <1>11, BeginAsPromised
<1>12. CASE \E s, t \in Search : CopyDTA(s, t)
    BY <1>12, CopyAsPromised
<1>13. CASE \E s \in Search, p \in Pd : readdir(s, p)
    BY <1>13, ContinueAsPromised
<1>14. CASE \E s \in Search, p \in Pd : rewindRefused(s, p)
    BY <1>14, ForgetAsPromised DEF rewindRefused, handleVars
<1>15. ASSUME NEW s \in Search, NEW p \in Pd, snextEnd(s, p)
       PROVE  Files!Next
    BY <1>15, CloseSearchAsPromised DEF snextEnd
<1>16. ASSUME NEW s \in Search, NEW p \in Pd, dclosedir(s, p)
       PROVE  Files!Next
    <2>1. CASE Mounted(s) /\ Granted(s, p)
        BY <1>16, <2>1, CloseSearchAsPromised DEF dclosedir
    <2>2. CASE ~(Mounted(s) /\ Granted(s, p))
        BY <1>16, <2>2, ForgetAsPromised DEF dclosedir
    <2> QED BY <2>1, <2>2
<1>17. CASE \E p \in Pd : pterm(p)
    BY <1>17, GoneAsPromised
<1>18. CASE Tick \/ UNCHANGED vars
    BY <1>18, OthersAsPromised DEF Tick, vars, handleVars, guestVars
<1> QED
    BY <1>1, <1>2, <1>3, <1>4, <1>5, <1>6, <1>8, <1>9, <1>10, <1>11, <1>12, <1>13, <1>14, <1>15,
       <1>16, <1>17, <1>18 DEF Next

\* The handles, descriptors and hash values keep the promise of module OpenFiles:
\* a file stays open exactly as long as the driver's blocks denote it, and a search
\* that has lost its entry never goes on (HostHandles.cpp:124, 270, 314).
THEOREM OpenFilesImplemented == Spec => OpenFilesSpec
<1>1. Init => OpenOnFiles /\ Files!Init
    <2> SUFFICES ASSUME Init PROVE OpenOnFiles /\ Files!Init
        OBVIOUS
    <2>1. OpenOnFiles
        BY DEF Init, HandleInit, OpenOnFiles
    <2>2. Opened = [b \in Block |-> NoIno]
        <3>1. \A b \in Block : Denotes(b) = NoIno
            BY DEF Block, DDBlock, Denotes, InUse, IsOpen, Init, NoRef, NoFile
        <3> QED BY <3>1 DEF Opened
    <2>3. Held = {} /\ Left = {}
        BY DEF Held, Left, Init, HandleInit
    <2>4. Searched = [o \in Odh |-> NoIno]
        BY DEF Searched, Running, Init, HandleInit, UnusedSearch
    <2>5. SlotOf = [s \in Search |-> -1]
        BY DEF SlotOf, Own, Init, Idle, Odh
    <2> QED BY <2>1, <2>2, <2>3, <2>4, <2>5 DEF Files!Init
<1>2. IInv /\ IInv' /\ OpenOnFiles /\ [Next]_vars => [Files!Next]_(Files!vars)
    BY StepAsPromised
<1> QED
    BY <1>1, <1>2, HandlesInvariant, OpenOnFilesStep, PTL DEF Spec, OpenFilesSpec, Files!Spec
=============================================================================
