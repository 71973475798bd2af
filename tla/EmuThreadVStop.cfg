SPECIFICATION Spec
CONSTANTS
  HZPERVBL = 2
  Interrupts = {"KBMOUSE", "200HZ", "VBL"}
  GuestMask = {3, 7}
  GuestCalls = {"Yield", "Exit", "Error"}
  QuitDuringStart = FALSE

PROPERTIES StoppedGuestStays
