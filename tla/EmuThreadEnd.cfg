\* Handed over and ended: an arbitrary guest that masks interrupts, too.
SPECIFICATION FairSpec
CONSTANTS
  HZPERVBL = 1
  Interrupts = {"KBMOUSE", "200HZ"}
  GuestMask = {3, 7}
  GuestCalls = {"Yield", "Exit", "Error"}
  QuitDuringStart = FALSE
INVARIANTS WakeupsDelivered NoGuestAfterExit
PROPERTIES RequestsSpec TerminationEnds
