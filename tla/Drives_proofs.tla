--------------------------- MODULE Drives_proofs ---------------------------
(***************************************************************************)
(* Proofs about module Drives: the tables of volumes and images agree,     *)
(* whatever main and emulator thread do in which order once the starter    *)
(* thread is done, and what follows from that.                             *)
(***************************************************************************)
EXTENDS Drives, TLAPS

TableTypes ==
    /\ imgPath \in [Img -> Path \cup {None}]
    /\ imgFd \in [Img -> {"closed", "open", "error"}]
    /\ nparts \in [Img -> 0 .. NPARTITIONS]
    /\ partDrv \in [Img -> [Part -> Drive \cup {None}]]
    /\ volImg \in [Drive -> Img \cup {None}]
    /\ volPart \in [Drive -> Part \cup {None}]
    /\ bootsec_read \subseteq Drive
    /\ non_bootsec_read \subseteq Drive
    /\ sec_written \subseteq Drive
    /\ m_drvbits \subseteq Drive

OtherTypes ==
    /\ hostDir \subseteq Drive
    /\ xfs_drvbits \subseteq Drive
    /\ drvbits \subseteq Drive
    /\ starter \in {"directories", "clear", "images", "store", "done"}
    /\ toMount \subseteq Drive
    /\ main \in {"loop", "dialogue", "update", "store", "done"}
    /\ avail \subseteq Floppy
    /\ mainBits \subseteq Drive
    /\ guest \in {"off", "run", "alert", "update", "store"}
    /\ openImg \in Img \cup {None}
    /\ guestBits \subseteq Drive

(* findImagePath() finds at most one image. *)
PathsUnique ==
    \A i, j \in Img : imgPath[i] # None /\ imgPath[i] = imgPath[j] => i = j

(* A boot sector is read from an open image. *)
TriedIsOpen == \A d \in Mounted \cap bootsec_read : imgFd[volImg[d]] = "open"

Tables == TableTypes /\ TablesAgree /\ PathsUnique /\ TriedIsOpen

(* The image the alert is about exists, and nobody else opens it. *)
Alert == guest = "alert" =>
            openImg \in Img /\ imgPath[openImg] # None /\ imgFd[openImg] = "closed"

(* Nobody else is at work until the starter is done. *)
Starting ==
    /\ starter # "done" => main = "loop" /\ guest = "off"
    /\ starter \in {"directories", "clear"} => Mounted = {}
    /\ starter = "images" => toMount \cap (Mounted \cup hostDir) = {}
    /\ starter = "clear" => toMount \cap hostDir = {}

IInv == Tables /\ OtherTypes /\ OneMedium /\ Alert /\ Starting

LEMMA NoneIsNone == None \notin Drive /\ None \notin Path /\ None \notin Img /\ None \notin Part
BY DrivesAssumption DEF Img, Part

----------------------------------------------------------------------------
(* eject() and setNewDrv() *)

LEMMA EjectTypes ==
    ASSUME TableTypes, NEW D \in SUBSET Drive, eject(D)
    PROVE  TableTypes'
<1> DEFINE partitions == PartitionsWithout(D)
<1>1. partitions \in [Img -> [Part -> Drive \cup {None}]]
    BY DEF PartitionsWithout, TableTypes
<1>2. partDrv' \in [Img -> [Part -> Drive \cup {None}]]
    BY <1>1 DEF eject
<1>3. imgPath' \in [Img -> Path \cup {None}]
    BY DEF eject, TableTypes
<1>4. imgFd' \in [Img -> {"closed", "open", "error"}]
    BY DEF eject, TableTypes
<1>5. volImg' \in [Drive -> Img \cup {None}]
    BY DEF eject, TableTypes
<1>6. m_drvbits' \subseteq Drive
    BY DEF eject, TableTypes
<1> QED BY <1>2, <1>3, <1>4, <1>5, <1>6 DEF eject, TableTypes

(* The partitions of the volumes D are those that belong to a drive of D. *)
LEMMA EjectPartitions ==
    ASSUME Tables, NEW D \in SUBSET Drive, NEW i \in Img, NEW p \in Part
    PROVE  PartitionsWithout(D)[i][p] = IF partDrv[i][p] \in D THEN None ELSE partDrv[i][p]
<1> USE NoneIsNone
<1>1. CASE \E d \in D \cap Mounted : volImg[d] = i /\ volPart[d] = p
    <2>1. partDrv[i][p] \in D
        BY <1>1 DEF Tables, TablesAgree
    <2> QED BY <1>1, <2>1 DEF PartitionsWithout
<1>2. CASE ~\E d \in D \cap Mounted : volImg[d] = i /\ volPart[d] = p
    <2>1. partDrv[i][p] \notin D
        <3> SUFFICES ASSUME partDrv[i][p] \in D PROVE FALSE
            OBVIOUS
        <3>1. volImg[partDrv[i][p]] = i /\ volPart[partDrv[i][p]] = p
            BY DEF Tables, TablesAgree
        <3> QED BY <1>2, <3>1 DEF Mounted
    <2> QED BY <1>2, <2>1 DEF PartitionsWithout
<1> QED BY <1>1, <1>2

LEMMA EjectVolumes ==
    ASSUME Tables, NEW D \in SUBSET Drive, eject(D)
    PROVE  /\ Mounted' = Mounted \ D
           /\ \A d \in Drive \ D : volImg'[d] = volImg[d] /\ volPart'[d] = volPart[d]
           /\ \A i \in Img, p \in Part :
                 partDrv'[i][p] = IF partDrv[i][p] \in D THEN None ELSE partDrv[i][p]
<1>1. /\ Mounted' = Mounted \ D
      /\ \A d \in Drive \ D : volImg'[d] = volImg[d] /\ volPart'[d] = volPart[d]
    BY DEF eject, Tables, TableTypes, Mounted
<1>2. partDrv' = PartitionsWithout(D)
    BY DEF eject
<1> QED BY <1>1, <1>2, EjectPartitions

LEMMA EjectImages ==
    ASSUME Tables, NEW D \in SUBSET Drive, eject(D), NEW i \in Img
    PROVE  \/ /\ \A p \in Part : partDrv'[i][p] = None
              /\ imgPath'[i] = None
           \/ /\ \E p \in Part : partDrv'[i][p] # None
              /\ imgPath'[i] = imgPath[i] /\ imgFd'[i] = imgFd[i]
<1> USE NoneIsNone
<1> DEFINE gone == {j \in Unused(PartitionsWithout(D)) : \E d \in D : volImg[d] = j}
<1>1. /\ partDrv' = PartitionsWithout(D)
      /\ imgPath' = [j \in Img |-> IF j \in gone THEN None ELSE imgPath[j]]
      /\ imgFd' = [j \in Img |-> IF j \in gone THEN "closed" ELSE imgFd[j]]
    BY DEF eject
<1>2. CASE \E p \in Part : partDrv'[i][p] # None
    <2>1. i \notin gone
        BY <1>1, <1>2 DEF Unused
    <2> HIDE DEF gone
    <2> QED BY <1>1, <1>2, <2>1
<1>3. CASE \A p \in Part : partDrv'[i][p] = None
    <2>1. CASE i \in gone
        <3> HIDE DEF gone
        <3> QED BY <1>1, <1>3, <2>1
    <2>2. CASE i \notin gone
        <3>1. \A d \in D : volImg[d] # i
            BY <1>1, <1>3, <2>2 DEF Unused
        <3>2. ASSUME NEW p \in Part PROVE partDrv[i][p] = None
            <4>1. partDrv'[i][p] = IF partDrv[i][p] \in D THEN None ELSE partDrv[i][p]
                BY <1>1, EjectPartitions
            <4>2. CASE partDrv[i][p] \in D
                BY <3>1, <4>2 DEF Tables, TablesAgree
            <4> QED BY <1>3, <4>1, <4>2
        <3>3. imgPath[i] = None
            BY <3>2 DEF Tables, TablesAgree, Free
        <3>4. imgPath'[i] = imgPath[i]
            <4> HIDE DEF gone
            <4> QED BY <1>1, <2>2
        <3> QED BY <1>3, <3>3, <3>4
    <2> QED BY <2>1, <2>2
<1> QED BY <1>2, <1>3

LEMMA EjectKeepsTables ==
    ASSUME Tables, NEW D \in SUBSET Drive, eject(D)
    PROVE  Tables'
<1> USE NoneIsNone
<1>1. TableTypes /\ TableTypes'
    BY EjectTypes DEF Tables
<1>2. Mounted' = Mounted \ D /\ Mounted \subseteq Drive
    BY <1>1, EjectVolumes DEF Mounted
<1>3. ASSUME NEW d \in Mounted'
      PROVE  /\ volImg'[d] = volImg[d] /\ volImg[d] \in Img
             /\ volPart'[d] = volPart[d] /\ volPart[d] \in Part
             /\ partDrv'[volImg[d]][volPart[d]] = d
             /\ imgPath'[volImg[d]] = imgPath[volImg[d]] /\ imgPath[volImg[d]] # None
             /\ imgFd'[volImg[d]] = imgFd[volImg[d]]
    <2>1. d \in Mounted /\ d \in Drive \ D /\ d # None
        BY <1>2
    <2>2. /\ volImg'[d] = volImg[d] /\ volImg[d] \in Img
          /\ volPart'[d] = volPart[d]
        BY <1>1, <2>1, EjectVolumes DEF Mounted, TableTypes
    <2>3. /\ volPart[d] \in Part /\ partDrv[volImg[d]][volPart[d]] = d
          /\ imgPath[volImg[d]] # None
        BY <2>1 DEF Tables, TablesAgree
    <2>4. partDrv'[volImg[d]][volPart[d]] = d
        BY <1>1, <2>1, <2>2, <2>3, EjectVolumes
    <2>5. /\ imgPath'[volImg[d]] = imgPath[volImg[d]]
          /\ imgFd'[volImg[d]] = imgFd[volImg[d]]
        BY <1>1, <2>1, <2>2, <2>3, <2>4, EjectImages
    <2> QED BY <2>2, <2>3, <2>4, <2>5
<1>4. ASSUME NEW i \in Img, NEW p \in Part, partDrv'[i][p] # None
      PROVE  volImg'[partDrv'[i][p]] = i /\ volPart'[partDrv'[i][p]] = p
    <2> DEFINE d == partDrv[i][p]
    <2>1. partDrv'[i][p] = d /\ d # None /\ d \notin D
        BY <1>1, <1>4, EjectVolumes
    <2>2. d \in Drive \ D
        BY <1>1, <2>1 DEF TableTypes
    <2>3. volImg[d] = i /\ volPart[d] = p
        BY <2>1 DEF Tables, TablesAgree
    <2> QED BY <1>1, <2>1, <2>2, <2>3, EjectVolumes
<1>5. ASSUME NEW i \in Img, imgPath'[i] # None PROVE Free(i)' # Part
    BY <1>1, <1>5, EjectImages DEF Free
<1>6. m_drvbits' = Mounted'
    BY <1>2 DEF eject, Tables, TablesAgree
<1>7. TablesAgree'
    BY <1>3, <1>4, <1>5, <1>6 DEF TablesAgree
<1>8. PathsUnique'
    <2> SUFFICES ASSUME NEW i \in Img, NEW j \in Img, imgPath'[i] # None,
                        imgPath'[i] = imgPath'[j]
                 PROVE  i = j
        BY DEF PathsUnique
    <2>1. imgPath'[i] = imgPath[i] /\ imgPath'[j] = imgPath[j]
        BY <1>1, EjectImages
    <2> QED BY <2>1 DEF Tables, PathsUnique
<1>9. TriedIsOpen'
    BY <1>2, <1>3 DEF eject, Tables, TriedIsOpen
<1> QED BY <1>1, <1>7, <1>8, <1>9 DEF Tables

LEMMA RegisterTypes ==
    ASSUME TableTypes, NEW d \in Drive, NEW path \in Path, NEW i \in Img, NEW p \in Part,
           Register(d, path, i, p)
    PROVE  TableTypes'
<1>1. imgPath' \in [Img -> Path \cup {None}]
    BY DEF Register, TableTypes
<1>2. imgFd' \in [Img -> {"closed", "open", "error"}] /\ nparts' \in [Img -> 0 .. NPARTITIONS]
    <2>1. CASE imgPath[i] = path
        BY <2>1 DEF Register, TableTypes
    <2>2. CASE imgPath[i] # path
        <3>1. imgFd' = [imgFd EXCEPT ![i] = "closed"] /\ nparts' = [nparts EXCEPT ![i] = 0]
            BY <2>2 DEF Register
        <3>2. 0 \in 0 .. NPARTITIONS
            BY DrivesAssumption
        <3> QED BY <3>1, <3>2 DEF TableTypes
    <2> QED BY <2>1, <2>2
<1>3. partDrv' \in [Img -> [Part -> Drive \cup {None}]]
    BY DEF Register, TableTypes
<1>4. volImg' \in [Drive -> Img \cup {None}] /\ volPart' \in [Drive -> Part \cup {None}]
    BY DEF Register, TableTypes
<1> QED BY <1>1, <1>2, <1>3, <1>4 DEF Register, TableTypes

LEMMA RegisterKeepsTables ==
    ASSUME Tables, NEW d \in Drive, d \notin Mounted, NEW path \in Path,
           NEW i \in Img, NEW p \in Free(i), findImagePath(path, i),
           Register(d, path, i, p)
    PROVE  Tables' /\ Mounted' = Mounted \cup {d}
<1> USE NoneIsNone
<1>1. TableTypes /\ TableTypes' /\ p \in Part
    BY RegisterTypes DEF Tables, Free
<1>2. /\ imgPath' = [imgPath EXCEPT ![i] = path]
      /\ partDrv' = [partDrv EXCEPT ![i][p] = d]
      /\ volImg' = [volImg EXCEPT ![d] = i]
      /\ volPart' = [volPart EXCEPT ![d] = p]
    BY DEF Register
<1>3. Mounted' = Mounted \cup {d}
    BY <1>1, <1>2 DEF Mounted, TableTypes
<1>4. imgPath[i] = path \/ imgPath[i] = None
    BY DEF findImagePath, IsFirst
<1>5. ASSUME NEW e \in Mounted
      PROVE  /\ e # d /\ volImg'[e] = volImg[e] /\ volPart'[e] = volPart[e]
             /\ volImg[e] \in Img /\ volPart[e] \in Part
             /\ partDrv'[volImg[e]][volPart[e]] = e
             /\ imgPath'[volImg[e]] # None
             /\ imgPath[volImg[e]] # None
    <2>1. /\ e \in Drive /\ e # d
          /\ volImg[e] \in Img
        BY <1>1 DEF Mounted, TableTypes
    <2>2. /\ volPart[e] \in Part /\ imgPath[volImg[e]] # None
          /\ partDrv[volImg[e]][volPart[e]] = e
        BY DEF Tables, TablesAgree
    <2>3. <<volImg[e], volPart[e]>> # <<i, p>>
        BY <2>1, <2>2 DEF Free
    <2>4. partDrv'[volImg[e]][volPart[e]] = e
        BY <1>1, <1>2, <2>1, <2>2, <2>3 DEF TableTypes
    <2>5. volImg'[e] = volImg[e] /\ volPart'[e] = volPart[e]
        BY <1>1, <1>2, <2>1 DEF TableTypes
    <2>6. imgPath'[volImg[e]] # None
        BY <1>1, <1>2, <2>1, <2>2 DEF TableTypes
    <2> QED BY <2>1, <2>2, <2>4, <2>5, <2>6
<1>6. /\ volImg'[d] = i /\ volPart'[d] = p /\ imgPath'[i] = path
      /\ partDrv'[i][p] = d
    BY <1>1, <1>2 DEF TableTypes
<1>7. ASSUME NEW j \in Img, NEW q \in Part, partDrv'[j][q] # None
      PROVE  volImg'[partDrv'[j][q]] = j /\ volPart'[partDrv'[j][q]] = q
    <2>1. CASE j = i /\ q = p
        BY <1>6, <2>1
    <2>2. CASE ~(j = i /\ q = p)
        <3>1. partDrv'[j][q] = partDrv[j][q]
            BY <1>1, <1>2, <2>2 DEF TableTypes
        <3>2. partDrv[j][q] \in Drive
            BY <1>1, <1>7, <3>1 DEF TableTypes
        <3>3. volImg[partDrv[j][q]] = j /\ volPart[partDrv[j][q]] = q
            BY <1>7, <3>1 DEF Tables, TablesAgree
        <3>4. partDrv[j][q] \in Mounted
            BY <3>2, <3>3 DEF Mounted
        <3> QED BY <1>5, <3>1, <3>3, <3>4
    <2> QED BY <2>1, <2>2
<1>8. ASSUME NEW j \in Img, imgPath'[j] # None PROVE Free(j)' # Part
    <2>1. CASE j = i
        BY <1>1, <1>6, <2>1 DEF Free
    <2>2. CASE j # i
        <3>1. imgPath'[j] = imgPath[j] /\ partDrv'[j] = partDrv[j]
            BY <1>1, <1>2, <2>2 DEF TableTypes
        <3>2. Free(j) # Part /\ Free(j)' = Free(j)
            BY <1>8, <3>1 DEF Tables, TablesAgree, Free
        <3> QED BY <3>2
    <2> QED BY <2>1, <2>2
<1>9. m_drvbits' = Mounted'
    BY <1>3 DEF Register, Tables, TablesAgree
<1>10. TablesAgree'
    <2>1. \A e \in Mounted' :
            /\ volPart'[e] \in Part
            /\ imgPath'[volImg'[e]] # None
            /\ partDrv'[volImg'[e]][volPart'[e]] = e
        BY <1>1, <1>3, <1>5, <1>6
    <2> QED BY <1>7, <1>8, <1>9, <2>1 DEF TablesAgree
<1>11. PathsUnique'
    <2> SUFFICES ASSUME NEW j \in Img, NEW k \in Img, imgPath'[j] # None,
                        imgPath'[j] = imgPath'[k]
                 PROVE  j = k
        BY DEF PathsUnique
    <2>1. \A m \in Img \ {i} : imgPath'[m] = imgPath[m] /\ imgPath[m] # path
        <3> SUFFICES ASSUME NEW m \in Img \ {i}
                     PROVE  imgPath'[m] = imgPath[m] /\ imgPath[m] # path
            OBVIOUS
        <3>1. imgPath'[m] = imgPath[m]
            BY <1>1, <1>2 DEF TableTypes
        <3>2. CASE imgPath[i] = path
            BY <3>1, <3>2 DEF Tables, PathsUnique
        <3>3. CASE imgPath[i] # path
            BY <3>1, <3>3 DEF findImagePath
        <3> QED BY <3>1, <3>2, <3>3
    <2> QED BY <1>6, <2>1 DEF Tables, PathsUnique
<1>12. TriedIsOpen'
    <2> SUFFICES ASSUME NEW e \in Mounted', e \in bootsec_read'
                 PROVE  imgFd'[volImg'[e]] = "open"
        BY DEF TriedIsOpen
    <2>1. e # d /\ e \in Mounted /\ e \in bootsec_read
        BY <1>3 DEF Register
    <2>2. imgFd[volImg[e]] = "open" /\ volImg'[e] = volImg[e] /\ volImg[e] \in Img
          /\ imgPath[volImg[e]] # None
        BY <1>5, <2>1 DEF Tables, TriedIsOpen
    <2>3. CASE imgPath[i] = path
        BY <2>2, <2>3 DEF Register
    <2>4. CASE imgPath[i] # path
        BY <1>1, <1>4, <2>2, <2>4 DEF Register, TableTypes
    <2> QED BY <2>3, <2>4
<1> QED BY <1>1, <1>3, <1>10, <1>11, <1>12 DEF Tables

LEMMA SetNewDrvKeepsTables ==
    ASSUME Tables, NEW d \in Drive, d \notin Mounted, NEW path \in Path, setNewDrv(d, path)
    PROVE  /\ Tables'
           /\ Mounted' \subseteq Mounted \cup {d}
           /\ \A i \in Img : imgPath[i] # None => imgPath'[i] = imgPath[i]
           /\ \A i \in Img : imgPath[i] # None => imgFd'[i] = imgFd[i]
<1>1. CASE UNCHANGED <<imgVars, volVars>>
    BY <1>1 DEF imgVars, volVars, Tables, TableTypes, TablesAgree, PathsUnique, TriedIsOpen,
                Mounted, Free
<1>2. CASE ~UNCHANGED <<imgVars, volVars>>
    <2>1. PICK i \in Img, p \in Part :
            /\ findImagePath(path, i)
            /\ IsFirst(p, Free(i))
            /\ Register(d, path, i, p)
        BY <1>2 DEF setNewDrv
    <2>2. p \in Free(i)
        BY <2>1 DEF IsFirst
    <2>3. Tables' /\ Mounted' = Mounted \cup {d}
        BY <2>1, <2>2, RegisterKeepsTables
    <2>4. imgPath[i] \in {None, path}
        BY <2>1 DEF findImagePath, IsFirst
    <2>5. \A j \in Img : imgPath[j] # None => imgPath'[j] = imgPath[j] /\ imgFd'[j] = imgFd[j]
        <3> SUFFICES ASSUME NEW j \in Img, imgPath[j] # None
                     PROVE  imgPath'[j] = imgPath[j] /\ imgFd'[j] = imgFd[j]
            OBVIOUS
        <3>1. CASE j # i
            BY <2>1, <3>1 DEF Register, Tables, TableTypes
        <3>2. CASE j = i
            BY <2>1, <2>4, <3>2 DEF Register, Tables, TableTypes
        <3> QED BY <3>1, <3>2
    <2> QED BY <2>3, <2>5
<1> QED BY <1>1, <1>2

----------------------------------------------------------------------------
(* The invariant: one lemma per part, one step per action. *)

LEMMA FailedIsMounted == FailedToMount \in SUBSET Drive /\ Mounted \in SUBSET Drive
BY DEF FailedToMount, Mounted

LEMMA NothingInTables ==
    ASSUME Tables, UNCHANGED <<imgVars, volVars>>
    PROVE  Tables' /\ Mounted' = Mounted
BY DEF imgVars, volVars, Tables, TableTypes, TablesAgree, PathsUnique, TriedIsOpen,
       Mounted, Free

LEMMA RwabsOpens ==
    ASSUME TableTypes, NEW d \in Mounted, openDrvImage(volImg[d]) \/ IsOpen(volImg[d])
    PROVE  /\ imgFd' \in [Img -> {"closed", "open", "error"}]
           /\ nparts' \in [Img -> 0 .. NPARTITIONS]
           /\ imgFd'[volImg[d]] = "open"
           /\ \A i \in Img : imgFd[i] = "open" => imgFd'[i] = "open"
<1> USE NoneIsNone
<1>1. volImg[d] \in Img
    BY DEF Mounted, TableTypes
<1>2. CASE IsOpen(volImg[d])
    BY <1>2 DEF IsOpen, TableTypes
<1>3. CASE openDrvImage(volImg[d])
    <2>1. imgFd' = [imgFd EXCEPT ![volImg[d]] = "open"]
        BY <1>3 DEF openDrvImage
    <2>2. PICK n \in 1 .. NPARTITIONS : nparts' = [nparts EXCEPT ![volImg[d]] = n]
        BY <1>3 DEF openDrvImage, getMbr
    <2>3. n \in 0 .. NPARTITIONS
        BY <2>2, DrivesAssumption
    <2>4. nparts' \in [Img -> 0 .. NPARTITIONS]
        BY <2>2, <2>3 DEF TableTypes
    <2> QED BY <1>1, <2>1, <2>4 DEF TableTypes
<1> QED BY <1>2, <1>3

LEMMA RwabsTypes ==
    ASSUME TableTypes, AtariRwabs
    PROVE  TableTypes'
<1>1. UNCHANGED <<imgPath, partDrv, volImg, volPart, m_drvbits>>
    BY DEF AtariRwabs
<1>2. PICK d \in Mounted :
        /\ openDrvImage(volImg[d]) \/ IsOpen(volImg[d])
        /\ bootsec_read' \subseteq bootsec_read \cup {d}
        /\ non_bootsec_read' \subseteq non_bootsec_read \cup {d}
        /\ sec_written' \subseteq sec_written \cup {d}
    BY DEF AtariRwabs
<1>3. d \in Drive
    BY DEF Mounted
<1>4. imgFd' \in [Img -> {"closed", "open", "error"}] /\ nparts' \in [Img -> 0 .. NPARTITIONS]
    BY <1>2, RwabsOpens
<1> QED BY <1>1, <1>2, <1>3, <1>4 DEF TableTypes

LEMMA RwabsKeepsTables ==
    ASSUME Tables, AtariRwabs
    PROVE  Tables' /\ Mounted' = Mounted
<1> USE NoneIsNone
<1>1. UNCHANGED <<imgPath, partDrv, volImg, volPart, m_drvbits>>
    BY DEF AtariRwabs
<1>2. PICK d \in Mounted :
        /\ openDrvImage(volImg[d]) \/ IsOpen(volImg[d])
        /\ bootsec_read' \subseteq bootsec_read \cup {d}
    BY DEF AtariRwabs
<1>4. /\ imgFd'[volImg[d]] = "open"
      /\ \A i \in Img : imgFd[i] = "open" => imgFd'[i] = "open"
    BY <1>2, RwabsOpens DEF Tables
<1>5. TableTypes'
    BY RwabsTypes DEF Tables
<1>6. Mounted' = Mounted
    BY <1>1 DEF Mounted
<1>7. TablesAgree' /\ PathsUnique'
    BY <1>1, <1>6 DEF Tables, TablesAgree, PathsUnique, Free
<1>8. TriedIsOpen'
    <2> SUFFICES ASSUME NEW e \in Mounted, e \in bootsec_read'
                 PROVE  imgFd'[volImg[e]] = "open"
        BY <1>1, <1>6 DEF TriedIsOpen
    <2>1. CASE e = d
        BY <1>4, <2>1
    <2>2. CASE e # d
        <3>1. imgFd[volImg[e]] = "open" /\ volImg[e] \in Img
            BY <1>2, <2>2 DEF Tables, TriedIsOpen, Mounted, TableTypes
        <3> QED BY <1>4, <3>1
    <2> QED BY <2>1, <2>2
<1> QED BY <1>5, <1>6, <1>7, <1>8 DEF Tables

LEMMA OpenFailedKeepsTables ==
    ASSUME Tables, Alert, openFailed
    PROVE  Tables' /\ Mounted' = Mounted
<1>1. /\ UNCHANGED <<imgPath, nparts, partDrv, volVars>>
      /\ imgFd' = [imgFd EXCEPT ![openImg] = "error"]
      /\ openImg \in Img /\ imgFd[openImg] = "closed"
    BY DEF openFailed, Alert
<1>2. TableTypes'
    BY <1>1 DEF Tables, TableTypes, volVars
<1>3. Mounted' = Mounted
    BY <1>1 DEF Mounted, volVars
<1>4. TablesAgree' /\ PathsUnique'
    BY <1>1, <1>3 DEF Tables, TablesAgree, PathsUnique, Free, volVars
<1>5. TriedIsOpen'
    BY <1>1, <1>3 DEF Tables, TableTypes, TriedIsOpen, Mounted, volVars
<1> QED BY <1>2, <1>3, <1>4, <1>5 DEF Tables

LEMMA SetNewDrvTypes ==
    ASSUME TableTypes, NEW d \in Drive, NEW path \in Path, setNewDrv(d, path)
    PROVE  TableTypes'
<1>1. CASE UNCHANGED <<imgVars, volVars>>
    BY <1>1 DEF imgVars, volVars, TableTypes
<1>2. CASE ~UNCHANGED <<imgVars, volVars>>
    <2>1. PICK i \in Img, p \in Part : Register(d, path, i, p)
        BY <1>2 DEF setNewDrv
    <2> QED BY <2>1, RegisterTypes
<1> QED BY <1>1, <1>2

(* The types: one step per action, dropped files at any time. *)
Types == TableTypes /\ OtherTypes

LEMMA StepTableTypes ==
    ASSUME Types, [Next]_vars
    PROVE  TableTypes'
<1> USE DEF Types
<1>1. CASE initDrvBits
    BY <1>1 DEF initDrvBits, imgVars, TableTypes
<1>2. CASE initImages
    <2>1. PICK d \in toMount, path \in Path : setNewDrv(d, path)
        BY <1>2 DEF initImages
    <2> QED BY <2>1, SetNewDrvTypes DEF OtherTypes
<1>3. CASE dropImage
    <2>1. PICK d \in avail, path \in Path : setNewDrv(d, path)
        BY <1>3 DEF dropImage
    <2>2. d \in Drive
        BY <2>1, DrivesAssumption DEF OtherTypes
    <2> QED BY <2>1, <2>2, SetNewDrvTypes
<1>4. CASE dropFile \/ exit
    BY <1>4, EjectTypes, FailedIsMounted DEF dropFile, exit
<1>5. CASE RawDrvrImage
    <2>1. PICK d \in Drive : eject({d})
        BY <1>5 DEF RawDrvrImage
    <2>2. {d} \in SUBSET Drive
        OBVIOUS
    <2> QED BY <2>1, <2>2, EjectTypes
<1>6. CASE AtariRwabs
    BY <1>6, RwabsTypes
<1>7. CASE openFailed
    BY <1>7 DEF openFailed, TableTypes, volVars
<1>8. CASE UNCHANGED <<imgVars, volVars>>
    BY <1>8 DEF imgVars, volVars, TableTypes
<1>9. CASE \/ activateXfsDrives \/ starterReadsBits \/ startEmulator \/ dropCancelled
           \/ dropDirectory \/ mainReadsBits \/ mainStoresBits \/ openFails
           \/ RawDrvrDirectory \/ xfs_drv_close \/ guestReadsBits \/ guestStoresBits
           \/ UNCHANGED vars
    BY <1>8, <1>9
       DEF activateXfsDrives, starterReadsBits, startEmulator, dropCancelled, dropDirectory,
           mainReadsBits, mainStoresBits, openFails, RawDrvrDirectory, xfs_drv_close,
           guestReadsBits, guestStoresBits, vars
<1> QED BY <1>1, <1>2, <1>3, <1>4, <1>5, <1>6, <1>7, <1>9 DEF Next, Starter, Main, Guest

LEMMA StepOtherTypes ==
    ASSUME Types, [Next]_vars
    PROVE  OtherTypes'
<1> USE DrivesAssumption DEF Types, OtherTypes, guestVars, mainVars, startVars, xfsVars
<1>1. BothDriveBits \subseteq Drive
    BY DEF BothDriveBits, TableTypes
<1>2. CASE activateXfsDrives
    BY <1>2 DEF activateXfsDrives
<1>3. CASE initDrvBits \/ initImages
    BY <1>3 DEF initDrvBits, initImages
<1>4. CASE starterReadsBits \/ startEmulator
    BY <1>1, <1>4 DEF starterReadsBits, startEmulator
<1>5. CASE dropFile
    BY <1>5 DEF dropFile, Available
<1>6. CASE dropCancelled \/ dropImage
    BY <1>6 DEF dropCancelled, dropImage
<1>7. CASE dropDirectory \/ mainReadsBits
    BY <1>1, <1>7 DEF dropDirectory, mainReadsBits
<1>8. CASE mainStoresBits \/ exit
    BY <1>8 DEF mainStoresBits, exit
<1>9. CASE AtariRwabs \/ openFailed
    BY <1>9 DEF AtariRwabs, openFailed
<1>10. CASE openFails
    BY <1>10 DEF openFails, TableTypes, Mounted
<1>11. CASE RawDrvrImage \/ RawDrvrDirectory \/ xfs_drv_close
    BY <1>11 DEF RawDrvrImage, RawDrvrDirectory, xfs_drv_close
<1>12. CASE guestReadsBits \/ guestStoresBits
    BY <1>1, <1>12 DEF guestReadsBits, guestStoresBits
<1>13. CASE UNCHANGED vars
    BY <1>13 DEF vars
<1> QED BY <1>2, <1>3, <1>4, <1>5, <1>6, <1>7, <1>8, <1>9, <1>10, <1>11, <1>12, <1>13
        DEF Next, Starter, Main, Guest

(* What a step may do to the tables. *)
LEMMA StepTables ==
    ASSUME IInv, [Next]_vars
    PROVE  Tables'
<1> USE DEF IInv
<1>1. CASE initDrvBits
    <2>1. Mounted = {} /\ Mounted' = Mounted /\ m_drvbits' = {}
        BY <1>1 DEF initDrvBits, Starting, Mounted
    <2>2. UNCHANGED <<imgVars, volImg, volPart, bootsec_read>>
        BY <1>1 DEF initDrvBits
    <2>3. TableTypes'
        BY StepTableTypes DEF Tables, Types
    <2>4. TablesAgree' /\ PathsUnique' /\ TriedIsOpen'
        BY <2>1, <2>2 DEF Tables, TablesAgree, PathsUnique, TriedIsOpen, Free, imgVars
    <2> QED BY <2>3, <2>4 DEF Tables
<1>2. CASE initImages
    <2>1. PICK d \in toMount, path \in Path : setNewDrv(d, path)
        BY <1>2 DEF initImages
    <2>2. d \in Drive /\ d \notin Mounted
        BY <1>2, <2>1 DEF initImages, Starting, OtherTypes
    <2> QED BY <2>1, <2>2, SetNewDrvKeepsTables
<1>3. CASE dropFile
    BY <1>3, EjectKeepsTables, FailedIsMounted DEF dropFile
<1>4. CASE dropImage
    <2>1. PICK d \in avail, path \in Path : setNewDrv(d, path)
        BY <1>4 DEF dropImage
    <2>2. d \in Drive /\ d \notin Mounted
        BY <1>4, <2>1, DrivesAssumption DEF OtherTypes, OneMedium, dropImage
    <2> QED BY <2>1, <2>2, SetNewDrvKeepsTables
<1>5. CASE exit
    BY <1>5, EjectKeepsTables, FailedIsMounted DEF exit
<1>6. CASE RawDrvrImage
    <2>1. PICK d \in Drive : eject({d})
        BY <1>6 DEF RawDrvrImage
    <2>2. {d} \in SUBSET Drive
        OBVIOUS
    <2> QED BY <2>1, <2>2, EjectKeepsTables
<1>7. CASE AtariRwabs
    BY <1>7, RwabsKeepsTables
<1>8. CASE openFailed
    BY <1>8, OpenFailedKeepsTables
<1>9. CASE \/ activateXfsDrives \/ starterReadsBits \/ startEmulator \/ dropCancelled
           \/ dropDirectory \/ mainReadsBits \/ mainStoresBits \/ openFails
           \/ RawDrvrDirectory \/ xfs_drv_close \/ guestReadsBits \/ guestStoresBits
           \/ UNCHANGED vars
    BY <1>9, NothingInTables
       DEF activateXfsDrives, starterReadsBits, startEmulator, dropCancelled, dropDirectory,
           mainReadsBits, mainStoresBits, openFails, RawDrvrDirectory, xfs_drv_close,
           guestReadsBits, guestStoresBits, vars
<1> QED BY <1>1, <1>2, <1>3, <1>4, <1>5, <1>6, <1>7, <1>8, <1>9 DEF Next, Starter, Main, Guest

(* The media: the main thread alone adds one, to a drive without. *)
LEMMA StepOneMedium ==
    ASSUME IInv, [Next]_vars
    PROVE  OneMedium'
<1> USE DEF IInv, OneMedium, guestVars, mainVars, xfsVars
<1>1. CASE initImages
    <2>1. PICK d \in toMount, path \in Path : setNewDrv(d, path)
        BY <1>1 DEF initImages
    <2>2. d \in Drive /\ d \notin Mounted \cup hostDir /\ main = "loop"
        BY <1>1, <2>1 DEF initImages, Starting, OtherTypes
    <2>3. Mounted' \subseteq Mounted \cup {d}
        BY <2>1, <2>2, SetNewDrvKeepsTables
    <2> QED BY <1>1, <2>2, <2>3 DEF initImages
<1>2. CASE dropFile
    <2>1. Mounted' = Mounted \ FailedToMount
        BY <1>2, EjectVolumes, FailedIsMounted DEF dropFile, Tables
    <2> QED BY <1>2, <2>1 DEF dropFile, Available
<1>3. CASE dropImage
    <2>1. PICK d \in avail, path \in Path : setNewDrv(d, path)
        BY <1>3 DEF dropImage
    <2>2. d \in Drive /\ d \notin Mounted \cup hostDir
        BY <1>3, <2>1, DrivesAssumption DEF OtherTypes, dropImage
    <2>3. Mounted' \subseteq Mounted \cup {d}
        BY <2>1, <2>2, SetNewDrvKeepsTables
    <2> QED BY <1>3, <2>2, <2>3 DEF dropImage
<1>4. CASE dropDirectory
    <2>1. PICK d \in avail : hostDir' = hostDir \cup {d}
        BY <1>4 DEF dropDirectory
    <2>2. Mounted' = Mounted /\ main' = "update" /\ d \notin Mounted
        BY <1>4, <2>1, NothingInTables DEF dropDirectory
    <2> QED BY <2>1, <2>2
<1>5. CASE exit
    <2>1. Mounted' = {}
        BY <1>5, EjectVolumes, FailedIsMounted DEF exit, Tables
    <2> QED BY <1>5, <2>1 DEF exit
<1>6. CASE RawDrvrImage
    <2>1. PICK d \in Drive : eject({d})
        BY <1>6 DEF RawDrvrImage
    <2>2. Mounted' = Mounted \ {d}
        BY <2>1, EjectVolumes DEF Tables
    <2> QED BY <1>6, <2>2 DEF RawDrvrImage
<1>7. CASE AtariRwabs \/ openFailed
    BY <1>7, RwabsKeepsTables, OpenFailedKeepsTables DEF AtariRwabs, openFailed
<1>8. CASE RawDrvrDirectory \/ xfs_drv_close
    <2>1. Mounted' = Mounted /\ hostDir' \subseteq hostDir
        BY <1>8, NothingInTables DEF RawDrvrDirectory, xfs_drv_close
    <2> QED BY <1>8, <2>1 DEF RawDrvrDirectory, xfs_drv_close
<1>9. CASE \/ starterReadsBits \/ startEmulator \/ dropCancelled \/ mainReadsBits
           \/ mainStoresBits \/ openFails \/ guestReadsBits \/ guestStoresBits
           \/ UNCHANGED vars
    <2>1. Mounted' = Mounted
        BY <1>9, NothingInTables
           DEF starterReadsBits, startEmulator, dropCancelled, mainReadsBits, mainStoresBits,
               openFails, guestReadsBits, guestStoresBits, vars
    <2> QED BY <1>9, <2>1
            DEF starterReadsBits, startEmulator, dropCancelled, mainReadsBits, mainStoresBits,
                openFails, guestReadsBits, guestStoresBits, vars
<1>10. CASE activateXfsDrives \/ initDrvBits
    <2>1. Mounted = {} /\ Mounted' = Mounted
        BY <1>10 DEF activateXfsDrives, initDrvBits, Starting, Mounted, volVars
    <2>2. main' = "loop"
        BY <1>10 DEF activateXfsDrives, initDrvBits, Starting
    <2> QED BY <2>1, <2>2
<1> QED BY <1>1, <1>2, <1>3, <1>4, <1>5, <1>6, <1>7, <1>8, <1>9, <1>10
        DEF Next, Starter, Main, Guest

(* The image of the alert: no volume of it was tried, so none is tidied up. *)
LEMMA StepAlert ==
    ASSUME IInv, [Next]_vars
    PROVE  Alert'
<1> USE DEF IInv
<1>1. CASE guest' # "alert"
    BY <1>1 DEF Alert
<1>2. CASE guest' = "alert" /\ guest # "alert"
    <2>1. openFails
        BY <1>2 DEF Next, Starter, Main, Guest, activateXfsDrives, initDrvBits, initImages,
                    starterReadsBits, startEmulator, dropFile, dropCancelled,
                    dropImage, dropDirectory, mainReadsBits, mainStoresBits, exit, AtariRwabs,
                    openFailed, RawDrvrImage, RawDrvrDirectory, xfs_drv_close, guestReadsBits,
                    guestStoresBits, vars, guestVars
    <2>2. PICK d \in Mounted : imgFd[volImg[d]] = "closed" /\ openImg' = volImg[d]
        BY <2>1 DEF openFails
    <2>3. volImg[d] \in Img /\ imgPath[volImg[d]] # None
        BY <2>2 DEF Tables, TableTypes, TablesAgree, Mounted
    <2> QED BY <2>1, <2>2, <2>3 DEF Alert, openFails, imgVars
<1>3. CASE guest' = "alert" /\ guest = "alert"
    <2>1. openImg \in Img /\ imgPath[openImg] # None /\ imgFd[openImg] = "closed"
        BY <1>3 DEF Alert
    <2>2. ~Starter
        BY <1>3 DEF Starter, Starting, activateXfsDrives, initDrvBits, initImages,
                    starterReadsBits, startEmulator
    <2>3. CASE dropImage
        <3>1. PICK d \in avail, path \in Path : setNewDrv(d, path)
            BY <2>3 DEF dropImage
        <3>2. d \in Drive /\ d \notin Mounted
            BY <2>3, <3>1, DrivesAssumption DEF OtherTypes, OneMedium, dropImage
        <3>3. openImg' = openImg
            BY <2>3 DEF dropImage, guestVars
        <3> QED BY <2>1, <3>1, <3>2, <3>3, SetNewDrvKeepsTables DEF Alert
    <2>4. CASE dropFile
        <3>1. eject(FailedToMount) /\ openImg' = openImg
            BY <2>4 DEF dropFile, guestVars
        <3>2. PICK p \in Part : partDrv[openImg][p] # None
            BY <2>1 DEF Tables, TablesAgree, Free
        <3>3. volImg[partDrv[openImg][p]] = openImg
            BY <2>1, <3>2 DEF Tables, TablesAgree
        <3>4. partDrv[openImg][p] \notin FailedToMount
            BY <2>1, <3>3 DEF FailedToMount, Tables, TriedIsOpen
        <3>5. partDrv'[openImg][p] # None
            BY <2>1, <3>1, <3>2, <3>4, EjectVolumes, FailedIsMounted DEF Tables
        <3> QED BY <2>1, <3>1, <3>5, EjectImages, FailedIsMounted DEF Tables, Alert
    <2>5. CASE \/ dropCancelled \/ dropDirectory \/ mainReadsBits
               \/ mainStoresBits \/ UNCHANGED vars
        BY <2>1, <2>5 DEF dropCancelled, dropDirectory, mainReadsBits,
                          mainStoresBits, vars, imgVars, guestVars, Alert
    <2>6. ~exit /\ ~Guest
        BY <1>3 DEF exit, Guest, AtariRwabs, openFails, openFailed, RawDrvrImage,
                    RawDrvrDirectory, xfs_drv_close, guestReadsBits, guestStoresBits
    <2> QED BY <2>2, <2>3, <2>4, <2>5, <2>6 DEF Next, Main
<1> QED BY <1>1, <1>2, <1>3

(* The start: nobody drops a file before the starter is done. *)
LEMMA StepStarting ==
    ASSUME ~DropDuringStart, IInv, [Next]_vars
    PROVE  Starting'
<1> USE DEF IInv
<1>1. CASE starter' = "done"
    BY <1>1 DEF Starting
<1>2. CASE starter' # "done" /\ Starter
    <2>1. starter # "done" /\ main' = "loop" /\ guest' = "off"
        BY <1>2 DEF Starter, Starting, activateXfsDrives, initDrvBits, initImages,
                    starterReadsBits, startEmulator, mainVars, guestVars
    <2>2. CASE activateXfsDrives
        <3>1. starter' = "clear" /\ toMount' \cap hostDir' = {}
            BY <2>2 DEF activateXfsDrives
        <3>2. Mounted' = {}
            BY <2>2 DEF activateXfsDrives, Starting, Mounted, volVars
        <3> QED BY <2>1, <3>1, <3>2 DEF Starting
    <2>3. CASE initDrvBits
        <3>1. starter' = "images" /\ UNCHANGED <<toMount, hostDir, volImg>>
            BY <2>3 DEF initDrvBits, xfsVars
        <3>2. Mounted' = {} /\ toMount \cap hostDir = {}
            BY <2>3, <3>1 DEF initDrvBits, Starting, Mounted
        <3> QED BY <2>1, <3>1, <3>2 DEF Starting
    <2>4. CASE initImages
        <3>1. PICK d \in toMount, path \in Path :
                setNewDrv(d, path) /\ toMount' = toMount \ {d}
            BY <2>4 DEF initImages
        <3>2. starter = "images" /\ starter' = "images" /\ hostDir' = hostDir
            BY <2>4 DEF initImages, xfsVars
        <3>3. d \in Drive /\ d \notin Mounted
            BY <3>1, <3>2 DEF Starting, OtherTypes
        <3>4. Mounted' \subseteq Mounted \cup {d}
            BY <3>1, <3>3, SetNewDrvKeepsTables
        <3> QED BY <2>1, <3>1, <3>2, <3>4 DEF Starting
    <2>5. CASE starterReadsBits
        BY <2>1, <2>5 DEF starterReadsBits, Starting
    <2> QED BY <1>2, <2>2, <2>3, <2>4, <2>5 DEF Starter, startEmulator
<1>3. CASE starter' # "done" /\ ~Starter
    <2>1. UNCHANGED vars
        BY <1>3 DEF Next, Main, Guest, Starting, dropFile, dropCancelled, dropImage,
                    dropDirectory, mainReadsBits, mainStoresBits, exit, AtariRwabs, openFails,
                    openFailed, RawDrvrImage, RawDrvrDirectory, xfs_drv_close, guestReadsBits,
                    guestStoresBits, startVars
    <2> QED BY <2>1 DEF vars, volVars, xfsVars, startVars, mainVars, guestVars, Starting, Mounted
<1> QED BY <1>1, <1>2, <1>3

LEMMA InitIInv == Init => IInv
<1> SUFFICES ASSUME Init PROVE IInv
    OBVIOUS
<1> USE DrivesAssumption, NoneIsNone DEF Init
<1>1. Mounted = {}
    BY DEF Mounted
<1>2. TableTypes
    <2>1. 0 \in 0 .. NPARTITIONS
        OBVIOUS
    <2> QED BY <2>1 DEF TableTypes
<1>3. TablesAgree /\ PathsUnique /\ TriedIsOpen
    BY <1>1 DEF TablesAgree, PathsUnique, TriedIsOpen
<1>4. OtherTypes
    BY DEF OtherTypes
<1>5. OneMedium /\ Alert /\ Starting
    BY <1>1 DEF OneMedium, Alert, Starting
<1> QED BY <1>2, <1>3, <1>4, <1>5 DEF IInv, Tables

\* Every variable keeps its type, for any number of drives, images and
\* partitions, even when files are dropped before the starter thread is done
\* (MagiC.cpp:1039, EmulationRunner.cpp:726).
THEOREM DrivesTypes == Spec => []TypeOK
<1>1. Init => Types
    BY InitIInv DEF IInv, Tables, Types
<1>2. Types /\ [Next]_vars => Types'
    BY StepTableTypes, StepOtherTypes DEF Types
<1>3. Types => TypeOK
    BY DEF Types, TableTypes, OtherTypes, TypeOK
<1> QED BY <1>1, <1>2, <1>3, PTL DEF Spec

\* Once the starter thread is done the main and the emulator thread may use the
\* tables in any order, without a lock: the invariant that the following theorems
\* rest on (volume_images.cpp:1044).
THEOREM DrivesInvariant == ~DropDuringStart /\ Spec => []IInv
<1> SUFFICES ASSUME ~DropDuringStart PROVE Spec => []IInv
    OBVIOUS
<1>1. Init => IInv
    BY InitIInv
<1>2. IInv /\ [Next]_vars => IInv'
    <2> SUFFICES ASSUME IInv, [Next]_vars PROVE IInv'
        OBVIOUS
    <2>1. Types
        BY DEF IInv, Tables, Types
    <2> QED BY <2>1, StepTables, StepOtherTypes, StepOneMedium, StepAlert, StepStarting DEF IInv
<1> QED BY <1>1, <1>2, PTL DEF Spec

\* The assertions of eject() and openDrvImage() hold (volume_images.cpp:963,
\* 1159): the tables of volumes and of images agree, if no file is dropped before
\* the starter thread is done.
THEOREM VolumesAndImagesAgree == ~DropDuringStart /\ Spec => []TablesAgree
<1>1. IInv => TablesAgree
    BY DEF IInv, Tables
<1> QED BY <1>1, DrivesInvariant, PTL

\* No two drives share a partition of a file (volume_images.cpp:1076), if no
\* file is dropped before the starter thread is done.
THEOREM PartitionsNotShared == ~DropDuringStart /\ Spec => []NoPartitionTwice
<1>1. IInv => NoPartitionTwice
    <2> SUFFICES ASSUME IInv, NEW d \in Mounted, NEW e \in Mounted,
                        imgPath[volImg[d]] = imgPath[volImg[e]], volPart[d] = volPart[e]
                 PROVE  d = e
        BY DEF NoPartitionTwice
    <2>1. volImg[d] \in Img /\ volImg[e] \in Img
        BY DEF IInv, Tables, TableTypes, Mounted
    <2>2. volImg[d] = volImg[e]
        BY <2>1 DEF IInv, Tables, TablesAgree, PathsUnique
    <2> QED BY <2>2 DEF IInv, Tables, TablesAgree
<1> QED BY <1>1, DrivesInvariant, PTL

\* What a dialogue offers stays free, no drive gets two media
\* (MagiC.cpp:3001), even if the guest ejects meanwhile, if no file is dropped
\* before the starter thread is done.
THEOREM DialogueStaysTrue == ~DropDuringStart /\ Spec => []OneMedium
<1>1. IInv => OneMedium
    BY DEF IInv
<1> QED BY <1>1, DrivesInvariant, PTL

\* The image an alert is about outlives the alert (volume_images.cpp:972), if no
\* file is dropped before the starter thread is done.
THEOREM AlertIsAboutAnImage == ~DropDuringStart /\ Spec => []AlertedImageStays
<1>1. IInv => AlertedImageStays
    BY DEF IInv, Alert, AlertedImageStays
<1> QED BY <1>1, DrivesInvariant, PTL

(* After exit() nobody is left to mount anything. *)
Ended == main = "done" => guest = "off" /\ starter = "done" /\ Mounted = {}

LEMMA StepEnded ==
    ASSUME IInv, Ended, [Next]_vars
    PROVE  Ended'
<1>1. CASE exit
    <2>1. starter = "done" /\ starter' = starter /\ guest' = "off"
        BY <1>1 DEF exit, IInv, Starting, startVars
    <2>2. Mounted' = {}
        BY <1>1, EjectVolumes, FailedIsMounted DEF exit, IInv
    <2> QED BY <2>1, <2>2 DEF Ended
<1>2. CASE main # "done" /\ ~exit
    <2>1. main' # "done"
        BY <1>2 DEF Next, Starter, Main, Guest, activateXfsDrives, initDrvBits, initImages,
                    starterReadsBits, startEmulator, dropFile, dropCancelled, dropImage,
                    dropDirectory, mainReadsBits, mainStoresBits, AtariRwabs, openFails,
                    openFailed, RawDrvrImage, RawDrvrDirectory, xfs_drv_close, guestReadsBits,
                    guestStoresBits, mainVars, vars
    <2> QED BY <2>1 DEF Ended
<1>3. CASE main = "done"
    <2>1. UNCHANGED vars
        BY <1>3 DEF Ended, Next, Starter, Main, Guest, activateXfsDrives, initDrvBits, initImages,
                    starterReadsBits, startEmulator, dropFile, dropCancelled, dropImage,
                    dropDirectory, mainReadsBits, mainStoresBits, exit, AtariRwabs, openFails,
                    openFailed, RawDrvrImage, RawDrvrDirectory, xfs_drv_close, guestReadsBits,
                    guestStoresBits
    <2> QED BY <1>3, <2>1 DEF Ended, Mounted, vars, volVars, startVars, mainVars, guestVars
<1> QED BY <1>1, <1>2, <1>3

\* The assertions of CVolumeImages::exit() hold (volume_images.cpp:105, 109): all
\* drives ejected, no image is left, if no file is dropped before the starter
\* thread is done.
THEOREM ExitLeavesNothing == ~DropDuringStart /\ Spec => []NothingLeftMounted
<1>1. Init => Ended
    BY DEF Init, Ended
<1>2. IInv /\ Ended /\ [Next]_vars => Ended'
    BY StepEnded
<1>3. IInv /\ Ended => NothingLeftMounted
    <2> SUFFICES ASSUME IInv, Ended, main = "done" PROVE NothingLeftMounted
        BY DEF NothingLeftMounted
    <2>1. Mounted = {} /\ m_drvbits = {}
        BY DEF Ended, IInv, Tables, TablesAgree
    <2>2. ASSUME NEW i \in Img PROVE imgPath[i] = None
        <3>1. ASSUME NEW p \in Part PROVE partDrv[i][p] = None
            <4> SUFFICES ASSUME partDrv[i][p] # None PROVE FALSE
                OBVIOUS
            <4>1. partDrv[i][p] \in Drive /\ volImg[partDrv[i][p]] = i
                BY DEF IInv, Tables, TableTypes, TablesAgree
            <4> QED BY <2>1, <4>1, NoneIsNone DEF Mounted
        <3> QED BY <3>1 DEF Free, IInv, Tables, TablesAgree
    <2> QED BY <2>1, <2>2 DEF NothingLeftMounted
<1> QED BY <1>1, <1>2, <1>3, DrivesInvariant, PTL DEF Spec
=============================================================================
