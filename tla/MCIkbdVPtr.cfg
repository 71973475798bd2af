SPECIFICATION Spec
CONSTANTS
  Axis = {"x"}
  bRelativeMouse = FALSE
  MAXSTEP = 1
  FRAC = 1
  ScreenCentre = 1
  KEYBOARDBUFLEN = 6
  ScanCode = {30}
  Position <- MCPosition
  Movement = {}
  JoystickWithoutRoom = FALSE
  MAXEVENTS = 5
INVARIANTS PointerReached
CHECK_DEADLOCK FALSE
