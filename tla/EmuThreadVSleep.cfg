SPECIFICATION Spec
CONSTANTS
  HZPERVBL = 2
  Interrupts = {"KBMOUSE", "200HZ", "VBL"}
  GuestMask = {3}
  GuestCalls = {"Yield"}
  QuitDuringStart = FALSE
INVARIANTS AwakeWhenPending
