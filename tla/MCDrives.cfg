SPECIFICATION Spec
CONSTANTS
  A = A
  B = B
  C = C
  i1 = i1
  i2 = i2
  i3 = i3
  Drive <- MCDrive
  Floppy <- MCFloppy
  Path <- MCPath
  None = None
  NDRVIMAGES = 2
  NPARTITIONS = 2
  DropDuringStart = FALSE
SYMMETRY Symmetry
VIEW View
INVARIANTS TypeOK TablesAgree NoPartitionTwice OneMedium AlertedImageStays NothingLeftMounted
CHECK_DEADLOCK FALSE
