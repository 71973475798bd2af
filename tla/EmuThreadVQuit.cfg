SPECIFICATION FairSpec
CONSTANTS
  HZPERVBL = 1
  Interrupts = {"KBMOUSE", "200HZ"}
  GuestMask = {3}
  GuestCalls = {"Yield"}
  QuitDuringStart = TRUE

PROPERTIES TerminationEnds
