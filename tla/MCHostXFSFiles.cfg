SPECIFICATION Spec
CONSTANTS
    HOST_HANDLE_NUM = 3
    OPENDIR_N = 1
    OPENDIR_AUTO_CLOSE_SEC = 0
    MaxFd = 3
    MaxHash = 5
    MaxNow = 1
    MaxRef = 2
    NoIno = NoIno
    NoPd = NoPd
    NoDD = NoDD
    d1 = d1
    d2 = d2
    f1 = f1
    p1 = p1
    p2 = p2
    dd1 = dd1
    dd2 = dd2
    dd3 = dd3
    g1 = g1
    g2 = g2
    s1 = s1
    s2 = s2
    Ino <- MCIno
    Dir <- MCDir
    Pd <- MCPd
    Drv = {C}
    DD = {dd1, dd2, dd3}
    GuestFD = {g1, g2}
    Search = {}
SYMMETRY Symmetry
CONSTRAINT LittleLost
INVARIANTS TypeOK RefsBalance FdsOwnedOnce HandleNamesItsFile InoOnce
PROPERTIES OpenFilesSpec
