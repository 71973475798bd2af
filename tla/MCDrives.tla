------------------------------ MODULE MCDrives ------------------------------
(***************************************************************************)
(* An instance of Drives for TLC: A:, B: and C:, three image files and two *)
(* entries in the table of images, each with two partitions.               *)
(***************************************************************************)
EXTENDS Drives, TLC

CONSTANTS A, B, C, i1, i2, i3

MCDrive == {A, B, C}
MCFloppy == {A, B}
MCPath == {i1, i2, i3}
Symmetry == Permutations(MCPath) \cup Permutations(MCFloppy)

(* What is left of a drive that is no longer mounted, or of updateDriveBits()
   when it has stored, is not read again. *)
View == <<imgPath, imgFd, partDrv, volImg, m_drvbits, xfsVars, drvbits, startVars, main, guest,
          openImg,
          [i \in Img |-> IF imgFd[i] = "open" THEN nparts[i] ELSE 0],
          [d \in Mounted |-> volPart[d]],
          bootsec_read \cap Mounted, non_bootsec_read \cap Mounted, sec_written \cap Mounted,
          IF main = "dialogue" THEN avail ELSE {},
          IF main = "store" THEN mainBits ELSE {},
          IF guest = "store" \/ starter = "store" THEN guestBits ELSE {}>>
=============================================================================
