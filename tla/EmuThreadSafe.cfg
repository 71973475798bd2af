\* The safety properties with all interrupts, to be run by hand.
SPECIFICATION Spec
CONSTANTS
  HZPERVBL = 2
  Interrupts = {"KBMOUSE", "200HZ", "VBL"}
  GuestMask = {3, 7}
  GuestCalls = {"Yield", "Exit", "Error"}
  QuitDuringStart = FALSE
INVARIANTS TypeOK WakeupsDelivered NoGuestAfterExit
PROPERTIES RequestsSpec
