----------------------------- MODULE IkbdBuffer -----------------------------
(***************************************************************************)
(* Keyboard, mouse and joystick input, from the SDL event loop to the      *)
(* guest's interrupt handler.                                              *)
(*                                                                         *)
(*   main thread      sendSdlKeyboard, sendMousePosition,                  *)
(*                    sendMouseMovement, sendMouseButton,                  *)
(*                    sendJoystickState        (src/src/MagiC.cpp)         *)
(*   emulator thread  the keyboard/mouse block of EmuThread() and the      *)
(*                    callback AtariGetKeyboardOrMouseData()               *)
(*   guest            midikey_int and ikbdsys                              *)
(*                                             (src/kernel/HOSTBIOS)       *)
(*                                                                         *)
(* Every one of these runs as a whole under m_KbCriticalRegionId (the      *)
(* guest's code runs in the emulator thread), so each is one action here.  *)
(* The order inside the emulator thread's loop, its events and its other   *)
(* interrupts are the subject of module EmuThread.                         *)
(*                                                                         *)
(* A byte in the ring is a cell: its kind, which is known to the sender    *)
(* only, and its value.  The guest recovers the kind by counting.          *)
(***************************************************************************)
EXTENDS MagiCMouse, Sequences, FiniteSetsExt

CONSTANTS KEYBOARDBUFLEN,       \* cells of the ring, one of them is never used
          ScanCode,             \* bytes a key press or release can produce
          Position,             \* positions the host pointer can take
          Movement,             \* relative movements the host can report
          JoystickWithoutRoom,  \* the guest polls the joystick at any time
          MAXEVENTS             \* bound: number of host events in a behaviour

ASSUME IkbdAssumption ==
    /\ KEYBOARDBUFLEN \in Nat
    /\ KEYBOARDBUFLEN > 3
    /\ JoystickWithoutRoom \in BOOLEAN
    /\ MAXEVENTS \in Nat
    /\ ScanCode \subseteq Int
    /\ Position \subseteq [Axis -> Int]
    /\ Movement \subseteq [Axis -> Int]

VARIABLES m_cKeyboardOrMouseData,  \* the ring
          m_pKbRead, m_pKbWrite,   \* its two pointers, as indices
          kbPending,               \* m_bInterruptMouseKeyboardPending
          m_bInterruptJoystickButtons,
          m_bInterruptMouseButton, \* buttons that are down, as the event loop knows
          m_InterruptMouse,        \* ...MouseWhere or ...MouseMoveRel, by mode
          irq6,                    \* interrupt 6 raised, not yet taken by the CPU
          isr,                     \* where the guest is in midikey_int
          ikbd,                    \* kind of byte ikbdsys expects next (ikbd_state, ikbd_cnt)
          pack,                    \* mouse packet under construction (pack_relmouse)
          guestButton,             \* buttons that are down, as the guest knows
          events,                  \* host events so far
          moved                    \* auxiliary: relative movement reported by the
                                   \* host since the emulator thread last looked

ringVars == <<m_cKeyboardOrMouseData, m_pKbRead, m_pKbWrite>>
hostVars == <<kbPending, m_bInterruptJoystickButtons, m_bInterruptMouseButton,
              m_InterruptMouse, events, moved>>
guestVars == <<isr, ikbd, pack, guestButton, curPos>>
vars == <<mouseVars, ringVars, hostVars, guestVars, irq6>>

-----------------------------------------------------------------------------
Kind == {"key", "mouse", "dx", "dy", "joy", "joy0", "joy1"}

\* What must follow a byte of a kind inside its packet.
Continuation(k) == IF k = "mouse" THEN "dx"
                   ELSE IF k = "dx" THEN "dy"
                   ELSE IF k = "joy" THEN "joy0"
                   ELSE IF k = "joy0" THEN "joy1"
                   ELSE "none"

Starter == {"key", "mouse", "joy"}
InPacket == {"dx", "dy", "joy0", "joy1"}

Byte == [kind : Kind \cup {"nul"}, val : Int]
Cell(k, v) == [kind |-> k, val |-> v]
KeyCell(c) == Cell("key", c)
StepOf(a) == IF a \in Axis THEN Step[a] ELSE 0

\* The packet code says which buttons are down: bit 1 the left, bit 0 the right.
Packetcode(down) == (IF 0 \in down THEN 2 ELSE 0) + (IF 1 \in down THEN 1 ELSE 0)
ButtonsOf(code) == {b \in Button : IF b = 0 THEN code >= 2 ELSE code % 2 = 1}

MousePacket == <<Cell("mouse", Packetcode(m_bActHostMouseButton)),
                 Cell("dx", StepOf("x")), Cell("dy", StepOf("y"))>>
JoyPacket == <<Cell("joy", 0), Cell("joy0", 0), Cell("joy1", 0)>>
NUL == Cell("nul", 0)

Slots == 0 .. KEYBOARDBUFLEN - 1

\* Mutant: the wrap compares with > instead of >=.
SlotTooFar(p, k) == IF p + k > KEYBOARDBUFLEN THEN p + k - KEYBOARDBUFLEN ELSE p + k

\* The slot k places after slot p: increment and wrap.
Slot(p, k) == IF p + k >= KEYBOARDBUFLEN THEN p + k - KEYBOARDBUFLEN ELSE p + k

Used == IF m_pKbRead <= m_pKbWrite
        THEN m_pKbWrite - m_pKbRead
        ELSE KEYBOARDBUFLEN - (m_pKbRead - m_pKbWrite)

GetKbBufferFree == KEYBOARDBUFLEN - Used - 1

\* Mutant: data is only noticed in front of the read pointer, not after a wrap.
AnyDataInFront == m_pKbRead < m_pKbWrite

AnyData == m_pKbRead # m_pKbWrite

\* Mutant: the cell that tells a full ring from an empty one is given away.
RoomForKeyFull == GetKbBufferFree >= 0

RoomForKey == GetKbBufferFree >= 1
RoomForPacket == GetKbBufferFree >= 3

\* PutKeyToBuffer(), once and three times.
PutKeyToBuffer(c) ==
    /\ m_cKeyboardOrMouseData' = [m_cKeyboardOrMouseData EXCEPT ![m_pKbWrite] = c]
    /\ m_pKbWrite' = Slot(m_pKbWrite, 1)

PutPacketToBuffer(p) ==
    /\ m_cKeyboardOrMouseData' = [m_cKeyboardOrMouseData EXCEPT
                                    ![m_pKbWrite] = p[1],
                                    ![Slot(m_pKbWrite, 1)] = p[2],
                                    ![Slot(m_pKbWrite, 2)] = p[3]]
    /\ m_pKbWrite' = Slot(m_pKbWrite, 3)

Init ==
    /\ MouseInit
    /\ m_cKeyboardOrMouseData = [i \in Slots |-> NUL]
    /\ m_pKbRead = 0
    /\ m_pKbWrite = 0
    /\ kbPending = FALSE
    /\ m_bInterruptJoystickButtons = FALSE
    /\ m_bInterruptMouseButton = {}
    /\ m_InterruptMouse = Everywhere(0)
    /\ irq6 = FALSE
    /\ isr = "idle"
    /\ ikbd = "none"
    /\ pack = [code |-> 0, dx |-> 0]
    /\ guestButton = {}
    /\ curPos = Everywhere(0)
    /\ events = 0
    /\ moved = Everywhere(0)

-----------------------------------------------------------------------------
(* The main thread: handlers of SDL events. *)

HostEvent == events < MAXEVENTS /\ events' = events + 1

\* A key is refused when the ring has no room for it; keys without an Atari
\* scan code are dropped before anything is changed.
sendSdlKeyboard(code) ==
    /\ HostEvent
    /\ RoomForKey
    /\ PutKeyToBuffer(KeyCell(code))
    /\ kbPending' = TRUE
    /\ UNCHANGED <<mouseVars, m_pKbRead, m_bInterruptJoystickButtons,
                   m_bInterruptMouseButton, m_InterruptMouse, moved, guestVars, irq6>>

sendMousePosition(p) ==
    /\ ~bRelativeMouse
    /\ HostEvent
    /\ m_InterruptMouse' = p
    /\ kbPending' = TRUE
    /\ UNCHANGED <<mouseVars, ringVars, m_bInterruptJoystickButtons,
                   m_bInterruptMouseButton, moved, guestVars, irq6>>

sendMouseMovement(v) ==
    /\ bRelativeMouse
    /\ HostEvent
    /\ m_InterruptMouse' = v
    /\ kbPending' = TRUE
    /\ moved' = [a \in Axis |-> moved[a] + v[a]]
    /\ UNCHANGED <<mouseVars, ringVars, m_bInterruptJoystickButtons,
                   m_bInterruptMouseButton, guestVars, irq6>>

sendMouseButton(b, isDown) ==
    /\ HostEvent
    /\ m_bInterruptMouseButton' = IF isDown THEN m_bInterruptMouseButton \cup {b}
                                            ELSE m_bInterruptMouseButton \ {b}
    /\ kbPending' = TRUE
    /\ UNCHANGED <<mouseVars, ringVars, m_bInterruptJoystickButtons,
                   m_InterruptMouse, moved, guestVars, irq6>>

\* The answer to the guest's joystick interrogation.  The code puts the three
\* bytes without asking for room; JoystickWithoutRoom = FALSE restricts the
\* model to guests that interrogate only while there is room.
sendJoystickState ==
    /\ HostEvent
    /\ JoystickWithoutRoom \/ RoomForPacket
    /\ PutPacketToBuffer(JoyPacket)
    /\ m_bInterruptJoystickButtons' = TRUE
    /\ kbPending' = TRUE
    /\ UNCHANGED <<mouseVars, m_pKbRead, m_bInterruptMouseButton,
                   m_InterruptMouse, moved, guestVars, irq6>>

-----------------------------------------------------------------------------
(* The emulator thread. *)

\* The block "if (m_bInterruptMouseKeyboardPending)" of EmuThread().  It is not
\* reached while an interrupt is raised: the thread waits for its callback.
HandleKbMouse ==
    /\ kbPending
    /\ ~irq6
    /\ kbPending' = FALSE
    /\ \/ /\ ~RoomForPacket                \* "Tastenpuffer ist voll"
          /\ UNCHANGED <<mouseVars, m_bInterruptJoystickButtons, irq6, moved>>
       \/ /\ RoomForPacket
          /\ setNewButtonState(m_bInterruptMouseButton)
          /\ IF bRelativeMouse THEN setNewMovement(m_InterruptMouse)
                               ELSE setNewPosition(m_InterruptMouse)
          /\ UNCHANGED <<m_pLineAVars, m_bActAtariMouseButton>>
          /\ m_bInterruptJoystickButtons' = FALSE
          /\ moved' = IF m_pLineAVars THEN Everywhere(0) ELSE moved
          /\ irq6' = \/ m_bActHostMouseButton' # m_bActAtariMouseButton
                     \/ MoveNecessary'
                     \/ AnyData
                     \/ m_bInterruptJoystickButtons
    /\ UNCHANGED <<ringVars, m_bInterruptMouseButton, m_InterruptMouse, events, guestVars>>

\* The CPU accepts the interrupt: IRQCallback() takes the request back and
\* the guest enters midikey_int.  Level 6 stays masked until its rte.
IRQCallback ==
    /\ irq6
    /\ isr = "idle"
    /\ irq6' = FALSE
    /\ isr' = "ikbdsys"
    /\ UNCHANGED <<mouseVars, ringVars, hostVars, ikbd, pack, guestButton, curPos>>

\* AtariVdiInit(): the guest opens its VDI and hands over its LineA variables.
\* The driver starts with no button pressed and its pointer in mid-screen.
AtariVdiInit ==
    /\ isr = "idle"
    /\ HostEvent
    /\ MouseInstall
    /\ guestButton' = {}
    /\ curPos' = Everywhere(ScreenCentre)
    /\ UNCHANGED <<ringVars, kbPending, m_bInterruptJoystickButtons, m_bInterruptMouseButton,
                   m_InterruptMouse, moved, isr, ikbd, pack, irq6>>

\* Mutant: a mouse packet is made as well when the ring is not empty.
MousePacketDueAnyTime == m_pLineAVars /\ UpdateNecessary /\ RoomForPacket

\* First half of AtariGetKeyboardOrMouseData(): an empty ring is filled with a
\* mouse packet if the guest has something to learn.
MousePacketDue == m_pKbRead = m_pKbWrite /\ m_pLineAVars /\ UpdateNecessary

\* ikbdsys: a byte inside a packet is collected, the last one of a mouse packet
\* moves the pointer; outside of a packet it is a key, or it starts a packet.
\* A byte that is not what the sender meant leaves ikbdsys out of step for good.
Understood(c) == c.kind = ikbd \/ (ikbd = "none" /\ c.kind \in Starter \cup {"nul"})

Consume(c) ==
    /\ ikbd' = IF Understood(c) THEN Continuation(c.kind) ELSE "outOfStep"
    /\ pack' = IF c.kind = "mouse" THEN [code |-> c.val, dx |-> 0]
               ELSE IF c.kind = "dx" THEN [code |-> pack.code, dx |-> c.val]
               ELSE pack
    /\ IF Understood(c) /\ c.kind = "dy"
       THEN /\ guestButton' = ButtonsOf(pack.code)
            /\ curPos' = [a \in Axis |-> curPos[a] + (IF a = "x" THEN pack.dx ELSE c.val)]
       ELSE UNCHANGED <<guestButton, curPos>>

-----------------------------------------------------------------------------
(* The guest: midikey_int calls ikbdsys until the host says there is no more. *)

\* ikbdsys: get a byte - AtariGetKeyboardOrMouseData(0) - and digest it.
ikbdsys ==
    /\ isr = "ikbdsys"
    /\ isr' = "more"
    /\ \/ /\ m_pKbRead # m_pKbWrite
          /\ Consume(m_cKeyboardOrMouseData[m_pKbRead])
          /\ m_pKbRead' = Slot(m_pKbRead, 1)
          /\ UNCHANGED <<mouseVars, m_cKeyboardOrMouseData, m_pKbWrite>>
       \/ /\ MousePacketDue
          /\ PutPacketToBuffer(MousePacket)
          /\ ComposePacket
          /\ Consume(MousePacket[1])
          /\ m_pKbRead' = Slot(m_pKbRead, 1)
       \/ /\ m_pKbRead = m_pKbWrite
          /\ ~MousePacketDue
          /\ Consume(NUL)
          /\ UNCHANGED <<mouseVars, ringVars>>
    /\ UNCHANGED <<hostVars, irq6>>

\* Mutant: midikey_int takes one byte per interrupt.
mdki_loopOnce ==
    /\ isr = "more"
    /\ isr' = "idle"
    /\ UNCHANGED <<mouseVars, ringVars, hostVars, irq6, ikbd, pack, guestButton, curPos>>

\* The end of midikey_int's loop - AtariGetKeyboardOrMouseData(1): once more,
\* or leave the interrupt.
mdki_loop ==
    /\ isr = "more"
    /\ \/ /\ MousePacketDue
          /\ PutPacketToBuffer(MousePacket)
          /\ ComposePacket
          /\ isr' = "ikbdsys"
       \/ /\ ~MousePacketDue
          /\ isr' = IF AnyData THEN "ikbdsys" ELSE "idle"
          /\ UNCHANGED <<mouseVars, m_cKeyboardOrMouseData, m_pKbWrite>>
    /\ UNCHANGED <<m_pKbRead, hostVars, irq6, ikbd, pack, guestButton, curPos>>

-----------------------------------------------------------------------------
Host ==
    \/ \E c \in ScanCode : sendSdlKeyboard(c)
    \/ \E p \in Position : sendMousePosition(p)
    \/ \E v \in Movement : sendMouseMovement(v)
    \/ \E b \in Button, isDown \in BOOLEAN : sendMouseButton(b, isDown)
    \/ sendJoystickState

Guest == IRQCallback \/ ikbdsys \/ mdki_loop \/ AtariVdiInit

Next == Host \/ HandleKbMouse \/ Guest

Spec == Init /\ [][Next]_vars

\* The emulator thread goes round its loop again and again (module EmuThread),
\* and the guest does not stay at interrupt level 6 for ever.
Fairness ==
    /\ WF_vars(HandleKbMouse)
    /\ WF_vars(IRQCallback)
    /\ WF_vars(ikbdsys)
    /\ WF_vars(mdki_loop)

FairSpec == Spec /\ Fairness

-----------------------------------------------------------------------------
TypeOK ==
    /\ MouseTypeOK
    /\ m_cKeyboardOrMouseData \in [Slots -> Byte]
    /\ m_pKbRead \in Slots
    /\ m_pKbWrite \in Slots
    /\ kbPending \in BOOLEAN
    /\ m_bInterruptJoystickButtons \in BOOLEAN
    /\ m_bInterruptMouseButton \in SUBSET Button
    /\ m_InterruptMouse \in [Axis -> Int]
    /\ irq6 \in BOOLEAN
    /\ isr \in {"idle", "ikbdsys", "more"}
    /\ ikbd \in InPacket \cup {"none", "outOfStep"}
    /\ pack \in [code : Int, dx : Int]
    /\ guestButton \in SUBSET Button
    /\ curPos \in [Axis -> Int]
    /\ events \in 0 .. MAXEVENTS
    /\ moved \in [Axis -> Int]

-----------------------------------------------------------------------------
\* The slots that hold unread bytes.
Occupied == {s \in Slots : IF m_pKbRead <= m_pKbWrite
                           THEN m_pKbRead <= s /\ s < m_pKbWrite
                           ELSE m_pKbRead <= s \/ s < m_pKbWrite}

KindAt(s) == m_cKeyboardOrMouseData[s].kind

\* The bytes in the ring form whole packets: every unread byte is followed by
\* the byte its packet demands, what comes first is what ikbdsys waits for, and
\* no packet is cut off at the end, so that ikbdsys, which counts, never takes
\* packet data for a key or a key for packet data (HOSTBIOS.S:2999).  Three parties put bytes there - the event
\* loop keys and joystick packets, the callback mouse packets - and nothing but
\* the order of their calls keeps the packets apart (MagiC.cpp:1565, 3370).
Framing ==
    /\ m_pKbRead # m_pKbWrite =>
          IF ikbd = "none" THEN KindAt(m_pKbRead) \in Starter
                           ELSE KindAt(m_pKbRead) = ikbd
    /\ m_pKbRead = m_pKbWrite => ikbd = "none"
    /\ \A s \in Occupied :
          LET next == Slot(s, 1) IN
          IF Continuation(KindAt(s)) = "none"
          THEN next \in Occupied => KindAt(next) \in Starter
          ELSE next \in Occupied /\ KindAt(next) = Continuation(KindAt(s))

\* The guest leaves its interrupt handler only between two packets, and with an
\* empty ring or with something on its way that will make EmuThread() look
\* again: no byte is left behind that nothing would fetch - unless the ring is
\* so full that EmuThread() gives up (MagiC.cpp:1387).
Stuck == ~RoomForPacket /\ ~irq6 /\ isr = "idle"

NothingLeftBehind ==
    isr = "idle" =>
        /\ ikbd = "none"
        /\ m_pKbRead # m_pKbWrite => irq6 \/ kbPending \/ Stuck

\* The ring and its pointers behave as a bounded queue of whole messages
\* (MagiC.cpp:1565, 3363).
Contents == [i \in 1 .. Used |-> m_cKeyboardOrMouseData[Slot(m_pKbRead, i - 1)]]

Packets == {<<Cell("mouse", code), Cell("dx", dx), Cell("dy", dy)>> :
                code \in 0 .. 3, dx \in -MAXSTEP .. MAXSTEP, dy \in -MAXSTEP .. MAXSTEP}

Messages == {<<KeyCell(c)>> : c \in ScanCode} \cup {JoyPacket} \cup Packets

Stream == INSTANCE InputStream WITH
            queue <- Contents,
            Message <- Messages,
            Capacity <- KEYBOARDBUFLEN - 1

StreamSpec == Stream!Spec

\* A ring gets emptier only by being read (MagiC.cpp:1561: whoever puts a byte
\* ensures before that there is room).
OnlyReadingFrees == [][GetKbBufferFree' > GetKbBufferFree => m_pKbRead' # m_pKbRead]_vars

\* Once the host is silent, what it sent has arrived in the guest: the ring is
\* empty and the guest's buttons are those the emulator thread took over - or
\* the ring was too full, which nothing repairs (MagiC.cpp:1384-1438).
Arrived ==
    /\ m_pKbRead = m_pKbWrite
    /\ isr = "idle"
    /\ ~kbPending
    /\ m_pLineAVars => guestButton = m_bActHostMouseButton

InputArrivesUnlessStuck == <>[]Arrived \/ <>[]Stuck

\* sendMouseButton(): "Löst einen Interrupt 6 aus" (MagiC.cpp:1874): a button
\* the guest has not heard of brings it into its interrupt handler.
ButtonCausesInterrupt ==
    (kbPending /\ m_pLineAVars /\ m_bInterruptMouseButton # m_bActAtariMouseButton)
        ~> (isr # "idle" \/ m_bInterruptMouseButton = m_bActAtariMouseButton)

\* getNewPositionAndButtonState() reports "neither movement nor button update
\* necessary" (MagiCMouse.cpp:173, 180) only when, with nothing in flight any
\* more, the guest's pointer is where the host wants it.
PointerReached ==
    (/\ ~bRelativeMouse /\ m_pLineAVars
     /\ m_pKbRead = m_pKbWrite /\ ikbd = "none" /\ ~UpdateNecessary)
        => curPos = m_actHostPos

\* setNewMovement() is passed the "new mouse pointer movement from host"
\* (MagiCMouse.cpp:76): when the host has reported none since the emulator
\* thread last looked - a key or a button brings it here - nothing is added.
NoPhantomMovement ==
    [][(HandleKbMouse /\ moved = Everywhere(0)) => m_actHostMovPos' = m_actHostMovPos]_vars

\* The values of some cells, added up.
TotalValue(cells, S) == MapThenSumSet(LAMBDA s : cells[s].val, S)
Unread(k) == {s \in Occupied : KindAt(s) = k}
Total(k) == TotalValue(m_cKeyboardOrMouseData, Unread(k))

\* Movement along axis a that has left CMagiCMouse but not reached the pointer.
InFlight(a) == IF a = "x" THEN Total("dx") + (IF ikbd = "dy" THEN pack.dx ELSE 0)
                          ELSE Total("dy")

\* Pointer movement is neither lost nor invented on the way from CMagiCMouse
\* through the ring into the guest, along any axis and whatever the packets'
\* size: what the class books as done arrives (MagiCMouse.cpp:190-222).
Booked(a) == IF bRelativeMouse
             THEN m_actHostMovPos[a] + FRAC * (curPos[a] + InFlight(a))
             ELSE (curPos[a] + InFlight(a)) - m_actAtariPos[a]

MovementConserved ==
    [][~HandleKbMouse /\ ~AtariVdiInit => \A a \in Axis : Booked(a)' = Booked(a)]_vars
=============================================================================
