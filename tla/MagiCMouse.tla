----------------------------- MODULE MagiCMouse -----------------------------
(***************************************************************************)
(* class CMagiCMouse (src/src/MagiCMouse.cpp): the host side of the Atari  *)
(* mouse.  It remembers what the host wants (button state, absolute target *)
(* position or accumulated relative movement) and what the guest has been  *)
(* told so far, and turns the difference into three byte mouse packets of  *)
(* at most MAXSTEP pixels per axis.                                        *)
(*                                                                         *)
(* The module holds the class' static variables and its methods as         *)
(* actions; IkbdBuffer composes them with the keyboard ring buffer.        *)
(***************************************************************************)
EXTENDS Integers

CONSTANTS Axis,             \* the axes of the screen: {"x", "y"} or one of them
          bRelativeMouse,   \* Preferences::bRelativeMouse
          MAXSTEP,          \* largest step of a packet: 127
          FRAC,             \* movements are doubles: units of 1/FRAC pixel
          ScreenCentre      \* pointer position at VDI initialisation

ASSUME MouseAssumption ==
    /\ Axis \subseteq {"x", "y"}
    /\ bRelativeMouse \in BOOLEAN
    /\ MAXSTEP \in Nat \ {0}
    /\ FRAC \in Nat \ {0}
    /\ ScreenCentre \in Int

Button == {0, 1}

VARIABLES m_pLineAVars,            \* TRUE once the VDI has been initialised
          m_actAtariPos,           \* where the class believes the guest's pointer is
          m_actHostPos,            \* where the host wants it
          m_actHostMovPos,         \* accumulated relative movement
          m_bActAtariMouseButton,  \* buttons the guest has been told are down
          m_bActHostMouseButton,   \* buttons that are down on the host
          curPos                   \* CURX, CURY: the pointer in the guest's LineA
                                   \* variables, read here and written by the guest

mouseVars == <<m_pLineAVars, m_actAtariPos, m_actHostPos, m_actHostMovPos,
               m_bActAtariMouseButton, m_bActHostMouseButton>>

MouseTypeOK ==
    /\ m_pLineAVars \in BOOLEAN
    /\ m_actAtariPos \in [Axis -> Int]
    /\ m_actHostPos \in [Axis -> Int]
    /\ m_actHostMovPos \in [Axis -> Int]
    /\ m_bActAtariMouseButton \in SUBSET Button
    /\ m_bActHostMouseButton \in SUBSET Button

Everywhere(v) == [a \in Axis |-> v]

\* Static storage: everything is zero until init() runs.
MouseInit ==
    /\ m_pLineAVars = FALSE
    /\ m_actAtariPos = Everywhere(0)
    /\ m_actHostPos = Everywhere(0)
    /\ m_actHostMovPos = Everywhere(0)
    /\ m_bActAtariMouseButton = {}
    /\ m_bActHostMouseButton = {}

-----------------------------------------------------------------------------
\* The cast (int) of a double: truncation towards zero.
Pixels(v) == IF v >= 0 THEN v \div FRAC ELSE -((-v) \div FRAC)

\* The part of a distance that fits into one packet.
Clamp(d) == IF d > MAXSTEP THEN MAXSTEP
            ELSE IF d < -MAXSTEP THEN -MAXSTEP
            ELSE d

\* xdiff, ydiff of getNewPositionAndButtonState().
Distance(a) == IF bRelativeMouse THEN Pixels(m_actHostMovPos[a])
                                 ELSE m_actHostPos[a] - m_actAtariPos[a]

\* Mutant: the whole distance goes into the books, the packet carries a part.
ComposePacketWhole ==
    /\ m_bActAtariMouseButton' = m_bActHostMouseButton
    /\ IF bRelativeMouse
       THEN /\ m_actHostMovPos' = Everywhere(0)
            /\ UNCHANGED m_actAtariPos
       ELSE /\ m_actAtariPos' = m_actHostPos
            /\ UNCHANGED m_actHostMovPos
    /\ UNCHANGED <<m_pLineAVars, m_actHostPos, m_bActHostMouseButton>>

Step == [a \in Axis |-> Clamp(Distance(a))]

\* getNewPositionAndButtonState() returns true.
UpdateNecessary ==
    \/ \E a \in Axis : Distance(a) # 0
    \/ m_bActAtariMouseButton # m_bActHostMouseButton

-----------------------------------------------------------------------------
\* init(): called when the guest's VDI is opened.
MouseInstall ==
    /\ m_pLineAVars' = TRUE
    /\ m_bActAtariMouseButton' = {}
    /\ m_bActHostMouseButton' = {}
    /\ m_actAtariPos' = Everywhere(ScreenCentre)
    /\ UNCHANGED <<m_actHostPos, m_actHostMovPos>>

setNewButtonState(down) == m_bActHostMouseButton' = down

\* setNewMovement(): adds the vector it is given.
setNewMovement(v) ==
    /\ m_actHostMovPos' = IF m_pLineAVars
                          THEN [a \in Axis |-> m_actHostMovPos[a] + v[a]]
                          ELSE m_actHostMovPos
    /\ UNCHANGED <<m_actHostPos, m_actAtariPos>>

\* setNewPosition(): besides the target, the guest's real pointer is read anew.
setNewPosition(p) ==
    /\ m_actHostPos' = IF m_pLineAVars THEN p ELSE m_actHostPos
    /\ m_actAtariPos' = IF m_pLineAVars THEN curPos ELSE m_actAtariPos
    /\ UNCHANGED m_actHostMovPos

\* What the two of them return, seen in the state they leave.
MoveNecessary ==
    /\ m_pLineAVars
    /\ \E a \in Axis : Distance(a) # 0

\* The second half of getNewPositionAndButtonState(): the packet is composed
\* and what it says is booked as known to the guest.
ComposePacket ==
    /\ m_bActAtariMouseButton' = m_bActHostMouseButton
    /\ IF bRelativeMouse
       THEN /\ m_actHostMovPos' =
                  [a \in Axis |-> m_actHostMovPos[a] - FRAC * Step[a]]
            /\ UNCHANGED m_actAtariPos
       ELSE /\ m_actAtariPos' = [a \in Axis |-> m_actAtariPos[a] + Step[a]]
            /\ UNCHANGED m_actHostMovPos
    /\ UNCHANGED <<m_pLineAVars, m_actHostPos, m_bActHostMouseButton>>
=============================================================================
