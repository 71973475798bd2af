SPECIFICATION FairSpec
CONSTANTS
  HZPERVBL = 2
  Interrupts = {"KBMOUSE", "VBL"}
  GuestMask = {3}
  GuestCalls = {"Yield"}
  QuitDuringStart = FALSE

PROPERTIES InterruptsServed
