SPECIFICATION Spec
CONSTANTS
  Axis = {"x", "y"}
  bRelativeMouse = TRUE
  MAXSTEP = 1
  FRAC = 2
  ScreenCentre = 1
  KEYBOARDBUFLEN = 6
  ScanCode = {30}
  Position = {}
  Movement <- MCMovement
  JoystickWithoutRoom = FALSE
  MAXEVENTS = 4
PROPERTIES MovementConserved
CHECK_DEADLOCK FALSE
