------------------------------- MODULE Drives -------------------------------
(***************************************************************************)
(* Atari drives that come and go: disk images (volume_images.cpp), host    *)
(* directories (HostXFS), and the guest's list of drives _drvbits.         *)
(*                                                                         *)
(*   starter    the thread that initialises the emulator: the configured   *)
(*              directories and images, then it starts the emulator thread *)
(*   main       the event loop: mounts what the user drops on the window   *)
(*              after a dialogue that may stay open for long, and ejects   *)
(*              everything at the end                                      *)
(*   guest      on the emulator thread: reads and writes sectors, which    *)
(*              opens an image at first, and ejects drives                 *)
(*                                                                         *)
(* No lock protects the tables or the drive bits, nobody waits for anybody *)
(* (HostXFS.h:81, volume_images.cpp:1044).  A call that changes a table is *)
(* one step here; what lies between two calls is not.                      *)
(***************************************************************************)
EXTENDS Integers

CONSTANTS Drive,          \* 'A' .. 'Z'
          Floppy,         \* those a dropped file may become: A:, B:
          Path,           \* host paths of disk images
          None,           \* nullptr, "unused"
          NDRVIMAGES, NPARTITIONS,
          DropDuringStart \* files are dropped before the starter is done, too

Img  == 0 .. NDRVIMAGES - 1
Part == 0 .. NPARTITIONS - 1

ASSUME DrivesAssumption ==
    /\ NDRVIMAGES \in Nat
    /\ NPARTITIONS \in Nat \ {0}
    /\ None \notin Drive \cup Path \cup Int
    /\ Floppy \subseteq Drive
    /\ DropDuringStart \in BOOLEAN

VARIABLES
    imgPath,              \* drv_images[i]->host_path; None: drv_images[i] is nullptr
    imgFd,                \* ->fd: "closed", "open", or "error"
    nparts,               \* ->nparts
    partDrv,              \* ->partitions[p].drv
    volImg, volPart,      \* drv_volumes[d]: image and partition; None: nullptr
    bootsec_read, non_bootsec_read, sec_written,     \* drives with these flags
    m_drvbits,
    hostDir,              \* drives with a directory: CHostXFS::drv_host_path
    xfs_drvbits,
    drvbits,              \* _drvbits in the guest's memory
    starter,              \* where the starter thread is
    toMount,              \* drives whose configured image it has not mounted yet
    main,                 \* where the main thread is
    avail,                \* what it offers in its dialogue
    mainBits,             \* what updateDriveBits() has read
    guest,                \* where the emulator thread is
    openImg,              \* the image it is opening
    guestBits             \* what updateDriveBits() has read in either thread of the emulator

imgVars   == <<imgPath, imgFd, nparts, partDrv>>
volVars   == <<volImg, volPart, bootsec_read, non_bootsec_read, sec_written, m_drvbits>>
xfsVars   == <<hostDir, xfs_drvbits>>
startVars == <<starter, toMount>>
mainVars  == <<main, avail, mainBits>>
guestVars == <<guest, openImg, guestBits>>
vars == <<imgVars, volVars, xfsVars, drvbits, startVars, mainVars, guestVars>>

Mounted == {d \in Drive : volImg[d] # None}      \* CVolumeImages::isDrvValid()

Init ==
    /\ imgPath = [i \in Img |-> None]
    /\ imgFd = [i \in Img |-> "closed"]
    /\ nparts = [i \in Img |-> 0]
    /\ partDrv = [i \in Img |-> [p \in Part |-> None]]
    /\ volImg = [d \in Drive |-> None]
    /\ volPart = [d \in Drive |-> None]
    /\ bootsec_read = {} /\ non_bootsec_read = {} /\ sec_written = {}
    /\ m_drvbits = {}
    /\ hostDir = {}
    /\ xfs_drvbits = {}
    /\ drvbits = {}
    /\ starter = "directories" /\ toMount = {}
    /\ main = "loop" /\ avail = {} /\ mainBits = {}
    /\ guest = "off" /\ openImg = None /\ guestBits = {}

----------------------------------------------------------------------------
(* CVolumeImages *)

Free(i)      == {p \in Part : partDrv[i][p] = None}
IsFirst(n, S) == n \in S /\ \A m \in S : n <= m

\* a plausible other findImagePath(): never finds
NeverFound(path, i) == IsFirst(i, {j \in Img : imgPath[j] = None})

findImagePath(path, i) ==
    \/ imgPath[i] = path
    \/ /\ \A j \in Img : imgPath[j] # path
       /\ IsFirst(i, {j \in Img : imgPath[j] = None})

\* drive d gets partition p of image i, which is new or registered
Register(d, path, i, p) ==
    /\ imgPath' = [imgPath EXCEPT ![i] = path]
    /\ IF imgPath[i] = path
       THEN UNCHANGED <<imgFd, nparts>>
       ELSE /\ imgFd' = [imgFd EXCEPT ![i] = "closed"]
            /\ nparts' = [nparts EXCEPT ![i] = 0]
    /\ partDrv' = [partDrv EXCEPT ![i][p] = d]
    /\ volImg' = [volImg EXCEPT ![d] = i]
    /\ volPart' = [volPart EXCEPT ![d] = p]
    /\ bootsec_read' = bootsec_read \ {d}
    /\ non_bootsec_read' = non_bootsec_read \ {d}
    /\ sec_written' = sec_written \ {d}
    /\ m_drvbits' = m_drvbits \cup {d}

(* No free image, or no free partition in it: the path is dropped. *)
setNewDrv(d, path) ==
    IF \E i \in Img : findImagePath(path, i) /\ Free(i) # {}
    THEN \E i \in Img, p \in Part :
            /\ findImagePath(path, i)
            /\ IsFirst(p, Free(i))
            /\ Register(d, path, i, p)
    ELSE UNCHANGED <<imgVars, volVars>>

\* a plausible other PartitionsWithout(): the volume is freed, its partition not
PartitionsKept(D) == partDrv

PartitionsWithout(D) ==
    [i \in Img |-> [p \in Part |->
        IF \E d \in D \cap Mounted : volImg[d] = i /\ volPart[d] = p
        THEN None ELSE partDrv[i][p]]]

\* a plausible other Unused(): an image that nobody has opened is overlooked
UnusedIfOpen(partitions) ==
    {i \in Img : imgFd[i] = "open" /\ \A p \in Part : partitions[i][p] = None}

Unused(partitions) == {i \in Img : \A p \in Part : partitions[i][p] = None}

(* Ejects the drives D, and those of their images that nobody uses any more. *)
eject(D) ==
    LET partitions == PartitionsWithout(D)
        gone == {i \in Unused(partitions) : \E d \in D : volImg[d] = i}
    IN  /\ partDrv' = partitions
        /\ imgPath' = [i \in Img |-> IF i \in gone THEN None ELSE imgPath[i]]
        /\ imgFd' = [i \in Img |-> IF i \in gone THEN "closed" ELSE imgFd[i]]
        /\ volImg' = [d \in Drive |-> IF d \in D THEN None ELSE volImg[d]]
        /\ m_drvbits' = m_drvbits \ D
        /\ UNCHANGED <<nparts, volPart, bootsec_read, non_bootsec_read, sec_written>>

\* a plausible other FailedToMount: of volumes never tried
NotMountedYet == {d \in Mounted : d \notin non_bootsec_read /\ d \notin sec_written}

FailedToMount == {d \in Mounted \cap bootsec_read :
                    d \notin non_bootsec_read /\ d \notin sec_written}

----------------------------------------------------------------------------
(* updateDriveBits() reads both tables and then stores. *)
BothDriveBits == xfs_drvbits \cup m_drvbits

(* The starter thread: CMagiC::init().  A drive is configured as a directory, as
   an image, or not at all. *)

activateXfsDrives ==
    /\ starter = "directories"
    /\ hostDir' \in SUBSET Drive
    /\ xfs_drvbits' = hostDir'
    /\ toMount' \in SUBSET (Drive \ hostDir')
    /\ starter' = "clear"
    /\ UNCHANGED <<imgVars, volVars, drvbits, mainVars, guestVars>>

initDrvBits ==
    /\ starter = "clear"
    /\ m_drvbits' = {}
    /\ starter' = "images"
    /\ UNCHANGED <<imgVars, volImg, volPart, bootsec_read, non_bootsec_read, sec_written,
                   xfsVars, drvbits, toMount, mainVars, guestVars>>

initImages ==
    /\ starter = "images"
    /\ \E d \in toMount, path \in Path : setNewDrv(d, path) /\ toMount' = toMount \ {d}
    /\ UNCHANGED <<xfsVars, drvbits, starter, mainVars, guestVars>>

starterReadsBits ==
    /\ starter = "images" /\ toMount = {}
    /\ guestBits' = BothDriveBits
    /\ starter' = "store"
    /\ UNCHANGED <<imgVars, volVars, xfsVars, drvbits, toMount, mainVars, guest, openImg>>

startEmulator ==
    /\ starter = "store"
    /\ drvbits' = guestBits
    /\ starter' = "done"
    /\ guest' = "run"
    /\ UNCHANGED <<imgVars, volVars, xfsVars, toMount, mainVars, openImg, guestBits>>

Starter == activateXfsDrives \/ initDrvBits \/ initImages \/ starterReadsBits \/ startEmulator

----------------------------------------------------------------------------
(* The main thread. *)

\* a plausible other Available: directories are overlooked
AvailableIfNoImage(D) == Floppy \ D

Available(D) == Floppy \ (D \cup hostDir)

(* sendDragAndDropFile() up to its dialogue, or to its refusal *)
dropFile ==
    /\ main = "loop"
    /\ DropDuringStart \/ starter = "done"
    /\ eject(FailedToMount)
    /\ avail' = Available(Mounted \ FailedToMount)
    /\ main' = IF avail' = {} THEN "loop" ELSE "dialogue"
    /\ UNCHANGED <<xfsVars, drvbits, startVars, mainBits, guestVars>>

dropCancelled ==
    /\ main = "dialogue"
    /\ main' = "loop"
    /\ UNCHANGED <<imgVars, volVars, xfsVars, drvbits, startVars, avail, mainBits, guestVars>>

dropImage ==
    /\ main = "dialogue"
    /\ \E d \in avail, path \in Path : setNewDrv(d, path)
    /\ main' = "update"
    /\ UNCHANGED <<xfsVars, drvbits, startVars, avail, mainBits, guestVars>>

dropDirectory ==
    /\ main = "dialogue"
    /\ \E d \in avail : hostDir' = hostDir \cup {d}
    /\ main' = "update"
    /\ UNCHANGED <<imgVars, volVars, xfs_drvbits, drvbits, startVars, avail, mainBits, guestVars>>

mainReadsBits ==
    /\ main = "update"
    /\ mainBits' = BothDriveBits
    /\ main' = "store"
    /\ UNCHANGED <<imgVars, volVars, xfsVars, drvbits, startVars, avail, guestVars>>

mainStoresBits ==
    /\ main = "store"
    /\ drvbits' = mainBits
    /\ main' = "loop"
    /\ UNCHANGED <<imgVars, volVars, xfsVars, startVars, avail, mainBits, guestVars>>

exit ==
    /\ main = "loop"
    /\ guest = "run"
    /\ eject(Mounted)
    /\ main' = "done"
    /\ guest' = "off"
    /\ UNCHANGED <<xfsVars, drvbits, startVars, avail, mainBits, openImg, guestBits>>

Main == dropFile \/ dropCancelled \/ dropImage
        \/ dropDirectory \/ mainReadsBits \/ mainStoresBits \/ exit

----------------------------------------------------------------------------
(* The guest. *)

\* a plausible other getMbr(): one partition more than there is room for
getMbrOneMore == 1 .. NPARTITIONS + 1

(* The number of partitions it finds, one if there is no partition table. *)
getMbr == 1 .. NPARTITIONS

(* openDrvImage() succeeds ... *)
openDrvImage(i) ==
    /\ imgFd[i] = "closed"
    /\ imgFd' = [imgFd EXCEPT ![i] = "open"]
    /\ \E n \in getMbr : nparts' = [nparts EXCEPT ![i] = n]

IsOpen(i) == imgFd[i] = "open" /\ UNCHANGED <<imgFd, nparts>>

AtariRwabs ==
    /\ guest = "run"
    /\ \E d \in Mounted :
        /\ openDrvImage(volImg[d]) \/ IsOpen(volImg[d])
        /\ IF volPart[d] < nparts'[volImg[d]]
           THEN \/ /\ bootsec_read' = bootsec_read \cup {d}
                   /\ UNCHANGED <<non_bootsec_read, sec_written>>
                \/ /\ non_bootsec_read' = non_bootsec_read \cup {d}
                   /\ UNCHANGED <<bootsec_read, sec_written>>
                \/ /\ sec_written' = sec_written \cup {d}
                   /\ UNCHANGED <<bootsec_read, non_bootsec_read>>
           ELSE UNCHANGED <<bootsec_read, non_bootsec_read, sec_written>>
    /\ UNCHANGED <<imgPath, partDrv, volImg, volPart, m_drvbits, xfsVars, drvbits, startVars,
                   mainVars, guestVars>>

(* ... or fails, with an alert that the emulator thread waits for. *)
openFails ==
    /\ guest = "run"
    /\ \E d \in Mounted : imgFd[volImg[d]] = "closed" /\ openImg' = volImg[d]
    /\ guest' = "alert"
    /\ UNCHANGED <<imgVars, volVars, xfsVars, drvbits, startVars, mainVars, guestBits>>

openFailed ==
    /\ guest = "alert"
    /\ imgFd' = [imgFd EXCEPT ![openImg] = "error"]
    /\ guest' = "run"
    /\ openImg' = None
    /\ UNCHANGED <<imgPath, nparts, partDrv, volVars, xfsVars, drvbits, startVars, mainVars,
                   guestBits>>

RawDrvrImage ==
    /\ guest = "run"
    /\ \E d \in Drive : eject({d})
    /\ guest' = "update"
    /\ UNCHANGED <<xfsVars, drvbits, startVars, mainVars, openImg, guestBits>>

RawDrvrDirectory ==
    /\ guest = "run"
    /\ \E d \in Drive :
        /\ hostDir' = hostDir \ {d}
        /\ xfs_drvbits' = IF d \in hostDir THEN xfs_drvbits \ {d} ELSE xfs_drvbits
    /\ guest' = "update"
    /\ UNCHANGED <<imgVars, volVars, drvbits, startVars, mainVars, openImg, guestBits>>

xfs_drv_close ==
    /\ guest = "run"
    /\ \E d \in hostDir : hostDir' = hostDir \ {d}
    /\ UNCHANGED <<imgVars, volVars, xfs_drvbits, drvbits, startVars, mainVars, guestVars>>

guestReadsBits ==
    /\ guest = "update"
    /\ guestBits' = BothDriveBits
    /\ guest' = "store"
    /\ UNCHANGED <<imgVars, volVars, xfsVars, drvbits, startVars, mainVars, openImg>>

guestStoresBits ==
    /\ guest = "store"
    /\ drvbits' = guestBits
    /\ guest' = "run"
    /\ UNCHANGED <<imgVars, volVars, xfsVars, startVars, mainVars, openImg, guestBits>>

Guest == AtariRwabs \/ openFails \/ openFailed \/ RawDrvrImage \/ RawDrvrDirectory
         \/ xfs_drv_close \/ guestReadsBits \/ guestStoresBits

Next == Starter \/ Main \/ Guest

Spec == Init /\ [][Next]_vars

----------------------------------------------------------------------------
TypeOK ==
    /\ imgPath \in [Img -> Path \cup {None}]
    /\ imgFd \in [Img -> {"closed", "open", "error"}]
    /\ nparts \in [Img -> 0 .. NPARTITIONS]
    /\ partDrv \in [Img -> [Part -> Drive \cup {None}]]
    /\ volImg \in [Drive -> Img \cup {None}]
    /\ volPart \in [Drive -> Part \cup {None}]
    /\ bootsec_read \subseteq Drive
    /\ non_bootsec_read \subseteq Drive
    /\ sec_written \subseteq Drive
    /\ m_drvbits \subseteq Drive
    /\ hostDir \subseteq Drive
    /\ xfs_drvbits \subseteq Drive
    /\ drvbits \subseteq Drive
    /\ starter \in {"directories", "clear", "images", "store", "done"}
    /\ toMount \subseteq Drive
    /\ main \in {"loop", "dialogue", "update", "store", "done"}
    /\ avail \subseteq Floppy
    /\ mainBits \subseteq Drive
    /\ guest \in {"off", "run", "alert", "update", "store"}
    /\ openImg \in Img \cup {None}
    /\ guestBits \subseteq Drive

\* What eject() and openDrvImage() assert (volume_images.cpp:963, 1159): a
\* mounted drive has a partition of an image that exists, a partition in use
\* belongs to a mounted drive, an image exists as long as it is used, and the
\* drive bits say which drives are mounted.
TablesAgree ==
    /\ \A d \in Mounted :
          /\ volPart[d] \in Part
          /\ imgPath[volImg[d]] # None
          /\ partDrv[volImg[d]][volPart[d]] = d
    /\ \A i \in Img, p \in Part :
          partDrv[i][p] # None => volImg[partDrv[i][p]] = i /\ volPart[partDrv[i][p]] = p
    /\ \A i \in Img : imgPath[i] # None => Free(i) # Part
    /\ m_drvbits = Mounted

\* Two drives never have the same partition of the same file: what one of them
\* writes is not what the other one has cached (volume_images.cpp:163, 1076).
NoPartitionTwice ==
    \A d, e \in Mounted :
        d # e => <<imgPath[volImg[d]], volPart[d]>> # <<imgPath[volImg[e]], volPart[e]>>

\* The drives a dialogue offers stay free while it is open, whatever the guest
\* does meanwhile: no drive gets two media (MagiC.cpp:3001, 3057, 3097).
OneMedium ==
    /\ Mounted \cap hostDir = {}
    /\ main = "dialogue" => avail \cap (Mounted \cup hostDir) = {}

\* The image is still there when the alert about it is closed: a drop meanwhile
\* does not tidy it up (volume_images.cpp:972, 1131).
AlertedImageStays == guest = "alert" => imgPath[openImg] # None

\* The drive bits are updated "whenever a volume is added or removed"
\* (MagiC.cpp:2891): when nobody is at it, a mounted image is a drive of the
\* guest.  Two updates at once may lose one of them.
MountedShown ==
    (starter = "done" /\ main \notin {"update", "store"} /\ guest \notin {"update", "store"})
        => m_drvbits \subseteq drvbits

\* What CVolumeImages::exit() asserts at the end, when it has ejected every drive:
\* "assert(m_drvbits == 0)", "assert(drv_images[i] == nullptr)"
\* (volume_images.cpp:105, 109).
NothingLeftMounted ==
    main = "done" => m_drvbits = {} /\ \A i \in Img : imgPath[i] = None
=============================================================================
