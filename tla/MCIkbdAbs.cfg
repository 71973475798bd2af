SPECIFICATION FairSpec
CONSTANTS
  Axis = {"x"}
  bRelativeMouse = FALSE
  MAXSTEP = 1
  FRAC = 1
  ScreenCentre = 1
  KEYBOARDBUFLEN = 6
  ScanCode = {30}
  Position <- MCPosition
  Movement = {}
  JoystickWithoutRoom = FALSE
  MAXEVENTS = 5
INVARIANTS TypeOK Framing NothingLeftBehind
PROPERTIES StreamSpec InputArrivesUnlessStuck
CHECK_DEADLOCK FALSE
