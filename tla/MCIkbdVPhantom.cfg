SPECIFICATION Spec
CONSTANTS
  Axis = {"x"}
  bRelativeMouse = TRUE
  MAXSTEP = 1
  FRAC = 2
  ScreenCentre = 1
  KEYBOARDBUFLEN = 6
  ScanCode = {30}
  Position = {}
  Movement <- MCMovement
  JoystickWithoutRoom = FALSE
  MAXEVENTS = 5
PROPERTIES NoPhantomMovement
CHECK_DEADLOCK FALSE
