-------------------------- MODULE IkbdBuffer_proofs --------------------------
(***************************************************************************)
(* Proofs about IkbdBuffer, for every size of the ring, every set of scan  *)
(* codes, positions and movements and both mouse modes.                    *)
(*                                                                         *)
(* The assumption ~JoystickWithoutRoom is the contract at PutKeyToBuffer() *)
(* (src/src/MagiC.cpp:1561); without it the theorems are false.            *)
(***************************************************************************)
EXTENDS IkbdBuffer, SequenceTheorems, TLAPS

-----------------------------------------------------------------------------
(* Arithmetic of the ring. *)

\* The next slot is a slot.
LEMMA SlotInRing ==
    ASSUME NEW p \in Slots, NEW k \in 0 .. 3
    PROVE  Slot(p, k) \in Slots
BY IkbdAssumption DEF Slots, Slot

\* The number of unread bytes leaves one cell of the ring unused.
LEMMA UsedInRange ==
    ASSUME m_pKbRead \in Slots, m_pKbWrite \in Slots
    PROVE  /\ Used \in 0 .. KEYBOARDBUFLEN - 1
           /\ Used = 0 <=> m_pKbRead = m_pKbWrite
BY IkbdAssumption DEF Slots, Used

LEMMA EverywhereType ==
    ASSUME NEW v \in Int
    PROVE  Everywhere(v) \in [Axis -> Int]
BY DEF Everywhere

\* Steps of the mouse class are integers within the packet's range.
LEMMA StepType ==
    ASSUME MouseTypeOK
    PROVE  /\ Step \in [Axis -> -MAXSTEP .. MAXSTEP]
           /\ Step \in [Axis -> Int]
<1> SUFFICES ASSUME NEW a \in Axis
             PROVE  Clamp(Distance(a)) \in -MAXSTEP .. MAXSTEP
    BY DEF Step
<1>1. Distance(a) \in Int
  <2>1. CASE bRelativeMouse
    <3>1. m_actHostMovPos[a] \in Int
        BY DEF MouseTypeOK
    <3>2. \A v \in Int : Pixels(v) \in Int
        BY MouseAssumption DEF Pixels
    <3> QED BY <2>1, <3>1, <3>2 DEF Distance
  <2>2. CASE ~bRelativeMouse
    BY <2>2 DEF Distance, MouseTypeOK
  <2> QED BY <2>1, <2>2
<1> QED BY <1>1, MouseAssumption DEF Clamp

-----------------------------------------------------------------------------
(* Type correctness. *)

\* Writing cells into the ring leaves a ring with pointers inside it.
LEMMA PutType ==
    ASSUME TypeOK, NEW p, p[1] \in Byte, p[2] \in Byte, p[3] \in Byte,
           PutPacketToBuffer(p)
    PROVE  /\ m_cKeyboardOrMouseData' \in [Slots -> Byte]
           /\ m_pKbWrite' \in Slots
<1>1. m_pKbWrite' \in Slots
    BY SlotInRing DEF PutPacketToBuffer, TypeOK
<1> QED BY <1>1 DEF PutPacketToBuffer, TypeOK

\* Mouse and joystick packets are three cells.
LEMMA PacketType ==
    ASSUME TypeOK
    PROVE  \A i \in 1 .. 3 : MousePacket[i] \in Byte /\ JoyPacket[i] \in Byte
<1>1. StepOf("x") \in Int /\ StepOf("y") \in Int
    BY StepType DEF StepOf, TypeOK
<1>2. Packetcode(m_bActHostMouseButton) \in Int
    BY DEF Packetcode
<1> QED BY <1>1, <1>2 DEF MousePacket, JoyPacket, Cell, Byte, Kind

\* Composing a packet keeps the mouse class well typed.
LEMMA ComposeType ==
    ASSUME TypeOK, ComposePacket
    PROVE  MouseTypeOK'
<1>1. Step \in [Axis -> Int]
    BY StepType DEF TypeOK
<1>2. CASE bRelativeMouse
  <2>1. m_actHostMovPos' \in [Axis -> Int]
    <3>1. \A a \in Axis : m_actHostMovPos[a] \in Int /\ Step[a] \in Int
        BY <1>1 DEF TypeOK, MouseTypeOK
    <3>2. \A i, j \in Int : i - FRAC * j \in Int
        BY MouseAssumption
    <3> QED BY <1>2, <3>1, <3>2 DEF ComposePacket
  <2> QED BY <1>2, <2>1 DEF ComposePacket, TypeOK, MouseTypeOK
<1>3. CASE ~bRelativeMouse
  <2>1. m_actAtariPos' \in [Axis -> Int]
      BY <1>1, <1>3 DEF ComposePacket, TypeOK, MouseTypeOK
  <2> QED BY <1>3, <2>1 DEF ComposePacket, TypeOK, MouseTypeOK
<1> QED BY <1>2, <1>3

\* Whatever byte ikbdsys digests, its own state stays well typed.
LEMMA ConsumeType ==
    ASSUME TypeOK, NEW c \in Byte, Consume(c)
    PROVE  /\ ikbd' \in InPacket \cup {"none", "outOfStep"}
           /\ pack' \in [code : Int, dx : Int]
           /\ guestButton' \in SUBSET Button
           /\ curPos' \in [Axis -> Int]
<1>1. ikbd' \in InPacket \cup {"none", "outOfStep"}
    BY DEF Consume, Continuation, InPacket
<1>2. ButtonsOf(pack.code) \in SUBSET Button
    BY DEF ButtonsOf
<1>3. c.val \in Int /\ pack.dx \in Int /\ pack.code \in Int
    BY DEF TypeOK, Byte
<1>4. [a \in Axis |-> curPos[a] + (IF a = "x" THEN pack.dx ELSE c.val)] \in [Axis -> Int]
    BY <1>3 DEF TypeOK
<1>5. pack' \in [code : Int, dx : Int]
    BY <1>3 DEF Consume, TypeOK
<1>6. guestButton' \in SUBSET Button /\ curPos' \in [Axis -> Int]
    BY <1>2, <1>4 DEF Consume, TypeOK
<1> QED BY <1>1, <1>5, <1>6

\* The state has the types the code declares, in both mouse modes and whatever
\* the joystick does: in particular both ring pointers stay inside the ring
\* (MagiC.cpp:1565-1572, 3404-3408).
THEOREM TypeCorrect == Spec => []TypeOK
<1>1. Init => TypeOK
  <2> SUFFICES ASSUME Init PROVE TypeOK
      OBVIOUS
  <2>0. Everywhere(0) \in [Axis -> Int]
      BY EverywhereType
  <2>1. MouseTypeOK
      BY <2>0 DEF Init, MouseInit, MouseTypeOK
  <2>2. NUL \in Byte
      BY DEF NUL, Cell, Byte
  <2>3. 0 \in Slots
      BY IkbdAssumption DEF Slots
  <2>4. /\ m_cKeyboardOrMouseData \in [Slots -> Byte]
        /\ m_pKbRead \in Slots
        /\ m_pKbWrite \in Slots
        /\ m_bInterruptMouseButton \in SUBSET Button
        /\ guestButton \in SUBSET Button
        /\ events \in 0 .. MAXEVENTS
      BY <2>2, <2>3, IkbdAssumption DEF Init
  <2>5. /\ m_InterruptMouse \in [Axis -> Int]
        /\ curPos \in [Axis -> Int]
        /\ moved \in [Axis -> Int]
        /\ pack \in [code : Int, dx : Int]
      BY <2>0 DEF Init
  <2> QED BY <2>1, <2>4, <2>5 DEF Init, TypeOK
<1>2. TypeOK /\ [Next]_vars => TypeOK'
  <2> SUFFICES ASSUME TypeOK, [Next]_vars PROVE TypeOK'
      OBVIOUS
  <2>e. HostEvent => events' \in 0 .. MAXEVENTS
      BY IkbdAssumption DEF HostEvent, TypeOK
  <2>1. ASSUME NEW c \in ScanCode, sendSdlKeyboard(c) PROVE TypeOK'
    <3>1. KeyCell(c) \in Byte
        BY IkbdAssumption DEF KeyCell, Cell, Byte, Kind
    <3>2. m_pKbWrite' \in Slots
        BY <2>1, SlotInRing DEF sendSdlKeyboard, PutKeyToBuffer, TypeOK
    <3>3. m_cKeyboardOrMouseData' \in [Slots -> Byte]
        BY <2>1, <3>1 DEF sendSdlKeyboard, PutKeyToBuffer, TypeOK
    <3> QED BY <2>1, <2>e, <3>2, <3>3
            DEF sendSdlKeyboard, TypeOK, MouseTypeOK, mouseVars, guestVars
  <2>2. ASSUME NEW p \in Position, sendMousePosition(p) PROVE TypeOK'
    BY <2>2, <2>e, IkbdAssumption
       DEF sendMousePosition, TypeOK, MouseTypeOK, mouseVars, guestVars, ringVars
  <2>3. ASSUME NEW v \in Movement, sendMouseMovement(v) PROVE TypeOK'
    <3>1. v \in [Axis -> Int]
        BY IkbdAssumption
    <3>2. moved' \in [Axis -> Int]
        BY <2>3, <3>1 DEF sendMouseMovement, TypeOK
    <3> QED BY <2>3, <2>e, <3>1, <3>2
            DEF sendMouseMovement, TypeOK, MouseTypeOK, mouseVars, guestVars, ringVars
  <2>4. ASSUME NEW b \in Button, NEW isDown \in BOOLEAN, sendMouseButton(b, isDown)
        PROVE  TypeOK'
    BY <2>4, <2>e DEF sendMouseButton, TypeOK, MouseTypeOK, mouseVars, guestVars, ringVars
  <2>5. CASE sendJoystickState
    <3>1. /\ m_cKeyboardOrMouseData' \in [Slots -> Byte]
          /\ m_pKbWrite' \in Slots
        BY <2>5, PacketType, PutType DEF sendJoystickState
    <3> QED BY <2>5, <2>e, <3>1
            DEF sendJoystickState, TypeOK, MouseTypeOK, mouseVars, guestVars
  <2>6. CASE HandleKbMouse
    <3>1. MouseTypeOK'
      <4>1. CASE ~RoomForPacket
        BY <2>6, <4>1 DEF HandleKbMouse, TypeOK, MouseTypeOK, mouseVars
      <4>2. CASE RoomForPacket /\ bRelativeMouse
        <5>1. \A a \in Axis : m_actHostMovPos[a] \in Int /\ m_InterruptMouse[a] \in Int
            BY DEF TypeOK, MouseTypeOK
        <5>2. m_actHostMovPos' \in [Axis -> Int]
            BY <2>6, <4>2, <5>1 DEF HandleKbMouse, setNewMovement, TypeOK, MouseTypeOK
        <5> QED BY <2>6, <4>2, <5>2
                DEF HandleKbMouse, setNewMovement, setNewButtonState, TypeOK, MouseTypeOK
      <4>3. CASE RoomForPacket /\ ~bRelativeMouse
        BY <2>6, <4>3
           DEF HandleKbMouse, setNewPosition, setNewButtonState, TypeOK, MouseTypeOK
      <4> QED BY <4>1, <4>2, <4>3
    <3>2. irq6' \in BOOLEAN
      BY <2>6 DEF HandleKbMouse, TypeOK, MoveNecessary, AnyData
    <3>3. moved' \in [Axis -> Int]
      <4>1. Everywhere(0) \in [Axis -> Int]
          BY EverywhereType
      <4>2. moved' = moved \/ moved' = Everywhere(0)
          BY <2>6 DEF HandleKbMouse
      <4> QED BY <4>1, <4>2 DEF TypeOK
    <3>4. m_bInterruptJoystickButtons' \in BOOLEAN
      BY <2>6 DEF HandleKbMouse, TypeOK
    <3> QED BY <2>6, <3>1, <3>2, <3>3, <3>4 DEF HandleKbMouse, TypeOK, guestVars, ringVars
  <2>7. CASE IRQCallback
    BY <2>7 DEF IRQCallback, TypeOK, MouseTypeOK, mouseVars, ringVars, hostVars
  <2>8. CASE ikbdsys
    <3>1. m_cKeyboardOrMouseData[m_pKbRead] \in Byte /\ MousePacket[1] \in Byte /\ NUL \in Byte
      BY PacketType DEF TypeOK, NUL, Cell, Byte
    <3>2. PICK c \in Byte : Consume(c)
      BY <2>8, <3>1 DEF ikbdsys
    <3>3. /\ ikbd' \in InPacket \cup {"none", "outOfStep"}
          /\ pack' \in [code : Int, dx : Int]
          /\ guestButton' \in SUBSET Button
          /\ curPos' \in [Axis -> Int]
      BY <3>2, ConsumeType
    <3>4. MouseTypeOK'
      BY <2>8, ComposeType DEF ikbdsys, TypeOK, MouseTypeOK, mouseVars
    <3>5. /\ m_cKeyboardOrMouseData' \in [Slots -> Byte]
          /\ m_pKbWrite' \in Slots
      <4>1. CASE PutPacketToBuffer(MousePacket)
        BY <4>1, PutType, PacketType
      <4>2. CASE UNCHANGED <<m_cKeyboardOrMouseData, m_pKbWrite>>
        BY <4>2 DEF TypeOK
      <4> QED BY <2>8, <4>1, <4>2 DEF ikbdsys, ringVars
    <3>6. m_pKbRead' \in Slots
      BY <2>8, SlotInRing DEF ikbdsys, ringVars, TypeOK
    <3> QED BY <2>8, <3>3, <3>4, <3>5, <3>6 DEF ikbdsys, TypeOK, hostVars
  <2>9. CASE mdki_loop
    <3>1. MouseTypeOK'
      BY <2>9, ComposeType DEF mdki_loop, TypeOK, MouseTypeOK, mouseVars
    <3>2. /\ m_cKeyboardOrMouseData' \in [Slots -> Byte]
          /\ m_pKbWrite' \in Slots
      <4>1. CASE PutPacketToBuffer(MousePacket)
        BY <4>1, PutType, PacketType
      <4>2. CASE UNCHANGED <<m_cKeyboardOrMouseData, m_pKbWrite>>
        BY <4>2 DEF TypeOK
      <4> QED BY <2>9, <4>1, <4>2 DEF mdki_loop
    <3> QED BY <2>9, <3>1, <3>2 DEF mdki_loop, TypeOK, hostVars
  <2>10. CASE AtariVdiInit
    BY <2>10, <2>e, MouseAssumption
       DEF AtariVdiInit, MouseInstall, Everywhere, TypeOK, MouseTypeOK, ringVars
  <2>11. CASE UNCHANGED vars
    BY <2>11 DEF vars, TypeOK, MouseTypeOK, mouseVars, ringVars, hostVars, guestVars
  <2> QED BY <2>1, <2>2, <2>3, <2>4, <2>5, <2>6, <2>7, <2>8, <2>9, <2>10, <2>11
          DEF Next, Host, Guest
<1> QED BY <1>1, <1>2, PTL DEF Spec

-----------------------------------------------------------------------------
(* Which slots hold unread bytes. *)

\* The write pointer is never at an unread byte; the read pointer is, unless
\* the ring is empty; and behind an unread byte comes another, or the end.
LEMMA OccupiedFacts ==
    ASSUME TypeOK
    PROVE  /\ m_pKbWrite \notin Occupied
           /\ m_pKbRead # m_pKbWrite <=> m_pKbRead \in Occupied
           /\ m_pKbRead = m_pKbWrite => Occupied = {}
           /\ \A s \in Occupied : Slot(s, 1) \in Occupied \cup {m_pKbWrite}
           /\ \A s \in Occupied : Slot(s, 1) # m_pKbRead
BY IkbdAssumption DEF TypeOK, Occupied, Slots, Slot

LEMMA OccupiedAfterKey ==
    ASSUME TypeOK, RoomForKey, UNCHANGED m_pKbRead, m_pKbWrite' = Slot(m_pKbWrite, 1)
    PROVE  Occupied' = Occupied \cup {m_pKbWrite}
<1> USE IkbdAssumption DEF TypeOK, Slots, Slot, RoomForKey, GetKbBufferFree, Used
<1>1. ASSUME NEW s \in Slots
      PROVE  s \in Occupied' <=> s \in Occupied \cup {m_pKbWrite}
    BY DEF Occupied
<1> QED BY <1>1 DEF Occupied

LEMMA OccupiedAfterPacket ==
    ASSUME TypeOK, RoomForPacket, UNCHANGED m_pKbRead, m_pKbWrite' = Slot(m_pKbWrite, 3)
    PROVE  /\ Occupied' = Occupied \cup {m_pKbWrite, Slot(m_pKbWrite, 1), Slot(m_pKbWrite, 2)}
           /\ Slot(m_pKbWrite, 1) \notin Occupied
           /\ Slot(m_pKbWrite, 2) \notin Occupied
<1> USE IkbdAssumption DEF TypeOK, Slots, Slot, RoomForPacket, GetKbBufferFree, Used
<1>1. ASSUME NEW s \in Slots
      PROVE  s \in Occupied' <=>
                s \in Occupied \cup {m_pKbWrite, Slot(m_pKbWrite, 1), Slot(m_pKbWrite, 2)}
    BY DEF Occupied
<1>2. /\ Slot(m_pKbWrite, 1) \in Slots
      /\ Slot(m_pKbWrite, 2) \in Slots
    OBVIOUS
<1>3. /\ Slot(m_pKbWrite, 1) \notin Occupied
      /\ Slot(m_pKbWrite, 2) \notin Occupied
    BY DEF Occupied
<1> QED BY <1>1, <1>2, <1>3 DEF Occupied

LEMMA OccupiedAfterRead ==
    ASSUME TypeOK, m_pKbRead # m_pKbWrite, UNCHANGED m_pKbWrite,
           m_pKbRead' = Slot(m_pKbRead, 1)
    PROVE  Occupied' = Occupied \ {m_pKbRead}
<1> USE IkbdAssumption DEF TypeOK, Slots, Slot
<1>1. ASSUME NEW s \in Slots
      PROVE  s \in Occupied' <=> s \in Occupied \ {m_pKbRead}
    BY DEF Occupied
<1> QED BY <1>1 DEF Occupied

\* The slots of a packet are three, one behind the other.
LEMMA PacketSlots ==
    ASSUME TypeOK
    PROVE  /\ Slot(Slot(m_pKbWrite, 1), 1) = Slot(m_pKbWrite, 2)
           /\ Slot(Slot(m_pKbWrite, 2), 1) = Slot(m_pKbWrite, 3)
           /\ m_pKbWrite # Slot(m_pKbWrite, 1)
           /\ m_pKbWrite # Slot(m_pKbWrite, 2)
           /\ m_pKbWrite # Slot(m_pKbWrite, 3)
           /\ Slot(m_pKbWrite, 1) # Slot(m_pKbWrite, 2)
           /\ Slot(m_pKbWrite, 3) # Slot(m_pKbWrite, 1)
           /\ Slot(m_pKbWrite, 3) # Slot(m_pKbWrite, 2)
           /\ \A k \in 0 .. 3 : Slot(m_pKbWrite, k) \in Slots
BY IkbdAssumption DEF TypeOK, Slots, Slot

-----------------------------------------------------------------------------
(* Framing. *)

\* A key put behind whole packets leaves whole packets.
LEMMA KeyKeepsFraming ==
    ASSUME TypeOK, Framing, NEW c \in Byte, c.kind = "key", RoomForKey, PutKeyToBuffer(c),
           UNCHANGED <<m_pKbRead, ikbd>>
    PROVE  Framing'
<1>1. Occupied' = Occupied \cup {m_pKbWrite}
    BY OccupiedAfterKey DEF PutKeyToBuffer
<1>2. /\ m_pKbWrite \in Slots
      /\ m_pKbWrite' \notin Occupied'
      /\ m_pKbWrite' # m_pKbRead'
    BY IkbdAssumption DEF PutKeyToBuffer, TypeOK, Occupied, Slots, Slot, RoomForKey,
                          GetKbBufferFree, Used
<1>3. m_cKeyboardOrMouseData'[m_pKbWrite].kind = "key"
    BY <1>2 DEF PutKeyToBuffer, TypeOK
<1>4. \A s \in Occupied : m_cKeyboardOrMouseData'[s] = m_cKeyboardOrMouseData[s]
    BY OccupiedFacts DEF PutKeyToBuffer, TypeOK, Occupied
<1>5. ASSUME NEW s \in Occupied'
      PROVE  LET next == Slot(s, 1) IN
             IF Continuation(KindAt(s)') = "none"
             THEN next \in Occupied' => KindAt(next)' \in Starter
             ELSE next \in Occupied' /\ KindAt(next)' = Continuation(KindAt(s)')
  <2>1. CASE s = m_pKbWrite
    <3>1. Slot(s, 1) \notin Occupied'
        BY <1>2, <2>1 DEF PutKeyToBuffer
    <3>2. Continuation(KindAt(s)') = "none"
        BY <1>3, <2>1 DEF KindAt, Continuation
    <3> QED BY <3>1, <3>2
  <2>2. CASE s \in Occupied
    <3>1. KindAt(s)' = KindAt(s)
        BY <1>4, <2>2 DEF KindAt
    <3>2. CASE Slot(s, 1) \in Occupied
        BY <1>1, <1>4, <2>2, <3>1, <3>2 DEF Framing, KindAt
    <3>3. CASE Slot(s, 1) = m_pKbWrite
      <4>1. Slot(s, 1) \notin Occupied
          BY <3>3, OccupiedFacts
      <4>2. Continuation(KindAt(s)) = "none"
          BY <2>2, <4>1 DEF Framing
      <4> QED BY <1>3, <3>1, <3>3, <4>2 DEF KindAt, Starter
    <3> QED BY <2>2, <3>2, <3>3, OccupiedFacts
  <2> QED BY <1>1, <2>1, <2>2
<1>6. IF ikbd' = "none" THEN KindAt(m_pKbRead)' \in Starter ELSE KindAt(m_pKbRead)' = ikbd'
  <2>1. CASE m_pKbRead = m_pKbWrite
      BY <1>3, <2>1 DEF Framing, KindAt, Starter
  <2>2. CASE m_pKbRead # m_pKbWrite
      BY <1>4, <2>2, OccupiedFacts DEF Framing, KindAt
  <2> QED BY <2>1, <2>2
<1> QED BY <1>2, <1>5, <1>6 DEF Framing

\* A sequence of three bytes that is a packet.
IsPacket(p) ==
    /\ p[1] \in Byte /\ p[2] \in Byte /\ p[3] \in Byte
    /\ p[1].kind \in Starter
    /\ Continuation(p[1].kind) # "none"
    /\ p[2].kind = Continuation(p[1].kind)
    /\ Continuation(p[2].kind) # "none"
    /\ p[3].kind = Continuation(p[2].kind)
    /\ Continuation(p[3].kind) = "none"

LEMMA PacketsArePackets ==
    ASSUME TypeOK
    PROVE  IsPacket(MousePacket) /\ IsPacket(JoyPacket)
<1>1. \A i \in 1 .. 3 : MousePacket[i] \in Byte /\ JoyPacket[i] \in Byte
    BY PacketType
<1>2. /\ MousePacket[1].kind = "mouse" /\ MousePacket[2].kind = "dx" /\ MousePacket[3].kind = "dy"
      /\ JoyPacket[1].kind = "joy" /\ JoyPacket[2].kind = "joy0" /\ JoyPacket[3].kind = "joy1"
    BY DEF MousePacket, JoyPacket, Cell
<1> QED BY <1>1, <1>2 DEF IsPacket, Starter, Continuation

\* A packet put behind whole packets, with room for all of it, leaves whole packets.
LEMMA PacketKeepsFraming ==
    ASSUME TypeOK, Framing, NEW p, IsPacket(p), RoomForPacket, PutPacketToBuffer(p),
           UNCHANGED <<m_pKbRead, ikbd>>
    PROVE  Framing'
<1> DEFINE w0 == m_pKbWrite
           w1 == Slot(m_pKbWrite, 1)
           w2 == Slot(m_pKbWrite, 2)
           w3 == Slot(m_pKbWrite, 3)
           buf == m_cKeyboardOrMouseData
<1>1. /\ Occupied' = Occupied \cup {w0, w1, w2}
      /\ w0 \notin Occupied /\ w1 \notin Occupied /\ w2 \notin Occupied
    BY OccupiedAfterPacket, OccupiedFacts DEF PutPacketToBuffer
<1>2. /\ m_pKbWrite' = w3
      /\ w3 \notin Occupied'
      /\ w3 # m_pKbRead'
    BY IkbdAssumption DEF PutPacketToBuffer, TypeOK, Occupied, Slots, Slot, RoomForPacket,
                          GetKbBufferFree, Used
<1>3. /\ Slot(w0, 1) = w1 /\ Slot(w1, 1) = w2 /\ Slot(w2, 1) = w3
      /\ w0 # w1 /\ w0 # w2 /\ w1 # w2
      /\ w0 \in Slots /\ w1 \in Slots /\ w2 \in Slots
    BY PacketSlots DEF TypeOK
<1>4. buf'[w0] = p[1] /\ buf'[w1] = p[2] /\ buf'[w2] = p[3]
    BY <1>3 DEF PutPacketToBuffer, TypeOK
<1>5. \A s \in Occupied : buf'[s] = buf[s]
    BY <1>1, <1>3 DEF PutPacketToBuffer, TypeOK, Occupied
<1> HIDE DEF w0, w1, w2, w3
<1>6. ASSUME NEW s \in Occupied'
      PROVE  IF Continuation(buf'[s].kind) = "none"
             THEN Slot(s, 1) \in Occupied' => buf'[Slot(s, 1)].kind \in Starter
             ELSE /\ Slot(s, 1) \in Occupied'
                  /\ buf'[Slot(s, 1)].kind = Continuation(buf'[s].kind)
  <2>1. CASE s = w0
    BY <1>1, <1>3, <1>4, <2>1 DEF IsPacket
  <2>2. CASE s = w1
    BY <1>1, <1>3, <1>4, <2>2 DEF IsPacket
  <2>3. CASE s = w2
    BY <1>2, <1>3, <1>4, <2>3 DEF IsPacket
  <2>4. CASE s \in Occupied
    <3>1. buf'[s] = buf[s]
        BY <1>5, <2>4
    <3>2. CASE Slot(s, 1) \in Occupied
        BY <1>1, <1>5, <2>4, <3>1, <3>2 DEF Framing, KindAt
    <3>3. CASE Slot(s, 1) = w0
      <4>1. Continuation(buf[s].kind) = "none"
          BY <1>1, <2>4, <3>3 DEF Framing, KindAt
      <4> QED BY <1>4, <3>1, <3>3, <4>1 DEF IsPacket
    <3> QED BY <2>4, <3>2, <3>3, OccupiedFacts DEF w0
  <2> QED BY <1>1, <2>1, <2>2, <2>3, <2>4
<1>7. IF ikbd' = "none" THEN buf'[m_pKbRead].kind \in Starter
                        ELSE buf'[m_pKbRead].kind = ikbd'
  <2>1. CASE m_pKbRead = m_pKbWrite
    <3>1. ikbd' = "none" /\ buf'[m_pKbRead] = p[1]
        BY <1>4, <2>1 DEF Framing, w0
    <3> QED BY <3>1 DEF IsPacket
  <2>2. CASE m_pKbRead # m_pKbWrite
      BY <1>5, <2>2, OccupiedFacts DEF Framing, KindAt
  <2> QED BY <2>1, <2>2
<1> QED BY <1>2, <1>6, <1>7 DEF Framing, KindAt

\* Digesting the first byte leaves ikbdsys waiting for what comes next.
LEMMA ReadKeepsFraming ==
    ASSUME TypeOK, Framing, m_pKbRead # m_pKbWrite,
           Consume(m_cKeyboardOrMouseData[m_pKbRead]),
           m_pKbRead' = Slot(m_pKbRead, 1),
           UNCHANGED <<m_cKeyboardOrMouseData, m_pKbWrite>>
    PROVE  Framing'
<1> DEFINE k == KindAt(m_pKbRead)
<1>1. /\ Occupied' = Occupied \ {m_pKbRead}
      /\ m_pKbRead \in Occupied
    BY OccupiedAfterRead, OccupiedFacts
<1>2. ikbd' = Continuation(k)
  <2>1. k = ikbd \/ (ikbd = "none" /\ k \in Starter)
      BY DEF Framing
  <2> QED BY <2>1 DEF Consume, Understood, KindAt
<1>3. CASE Continuation(k) = "none"
  <2>1. m_pKbRead' # m_pKbWrite' => m_cKeyboardOrMouseData'[m_pKbRead'].kind \in Starter
    <3>1. m_pKbRead' # m_pKbWrite' => m_pKbRead' \in Occupied
        BY <1>1, OccupiedFacts
    <3> QED BY <1>1, <1>3, <3>1 DEF Framing, KindAt
  <2> QED BY <1>1, <1>2, <1>3, <2>1, OccupiedFacts DEF Framing, KindAt
<1>4. CASE Continuation(k) # "none"
  <2>1. /\ m_pKbRead' \in Occupied
        /\ KindAt(m_pKbRead') = Continuation(k)
      BY <1>1, <1>4 DEF Framing
  <2>2. m_pKbRead' # m_pKbWrite'
      BY <2>1, OccupiedFacts
  <2> QED BY <1>1, <1>2, <1>4, <2>1, <2>2, OccupiedFacts DEF Framing, KindAt
<1> QED BY <1>3, <1>4

\* A mouse packet made for an empty ring, its first byte taken at once.
LEMMA FreshPacketKeepsFraming ==
    ASSUME TypeOK, Framing, m_pKbRead = m_pKbWrite, PutPacketToBuffer(MousePacket),
           Consume(MousePacket[1]), m_pKbRead' = Slot(m_pKbRead, 1)
    PROVE  Framing'
<1> DEFINE w0 == m_pKbWrite
           w1 == Slot(m_pKbWrite, 1)
           w2 == Slot(m_pKbWrite, 2)
           w3 == Slot(m_pKbWrite, 3)
           buf == m_cKeyboardOrMouseData
<1>1. /\ m_pKbRead' = w1 /\ m_pKbWrite' = w3
      /\ Occupied' = {w1, w2}
    <2>1. m_pKbRead' = w1 /\ m_pKbWrite' = w3
        BY DEF PutPacketToBuffer
    <2>2. ASSUME NEW s \in Slots
          PROVE  s \in Occupied' <=> s \in {w1, w2}
        BY <2>1, IkbdAssumption DEF Occupied, TypeOK, Slots, Slot
    <2>3. w1 \in Slots /\ w2 \in Slots
        BY PacketSlots
    <2> QED BY <2>1, <2>2, <2>3 DEF Occupied
<1>2. /\ Slot(w1, 1) = w2 /\ Slot(w2, 1) = w3
      /\ w0 # w1 /\ w0 # w2 /\ w1 # w2 /\ w3 # w1 /\ w3 # w2
      /\ w0 \in Slots /\ w1 \in Slots /\ w2 \in Slots
    BY PacketSlots DEF TypeOK
<1>3. buf'[w1].kind = "dx" /\ buf'[w2].kind = "dy"
  <2>1. MousePacket[2].kind = "dx" /\ MousePacket[3].kind = "dy"
      BY DEF MousePacket, Cell
  <2> QED BY <1>2, <2>1 DEF PutPacketToBuffer, TypeOK
<1>4. ikbd' = "dx"
  <2>1. ikbd = "none" /\ MousePacket[1].kind = "mouse"
      BY DEF Framing, MousePacket, Cell
  <2> QED BY <2>1 DEF Consume, Understood, Starter, Continuation
<1> HIDE DEF w0, w1, w2, w3
<1>5. /\ w3 \notin Occupied'
      /\ \A s \in Occupied' :
            IF Continuation(buf'[s].kind) = "none"
            THEN Slot(s, 1) \in Occupied' => buf'[Slot(s, 1)].kind \in Starter
            ELSE /\ Slot(s, 1) \in Occupied'
                 /\ buf'[Slot(s, 1)].kind = Continuation(buf'[s].kind)
    BY <1>1, <1>2, <1>3 DEF Continuation
<1> QED BY <1>1, <1>2, <1>3, <1>4, <1>5 DEF Framing, KindAt

\* Everybody who puts bytes into the ring puts them so that the guest, which
\* counts, never loses step - provided that room has been ensured before
\* (MagiC.cpp:1561; HOSTBIOS.S:2999).
THEOREM FramingHolds ==
    ASSUME ~JoystickWithoutRoom
    PROVE  Spec => []Framing
<1>1. Init => Framing
    BY IkbdAssumption DEF Init, Framing, Occupied, Slots
<1>2. TypeOK /\ Framing /\ [Next]_vars => Framing'
  <2> SUFFICES ASSUME TypeOK, Framing, [Next]_vars PROVE Framing'
      OBVIOUS
  <2>1. ASSUME NEW c \in ScanCode, sendSdlKeyboard(c) PROVE Framing'
    <3>1. KeyCell(c) \in Byte /\ KeyCell(c).kind = "key"
        BY IkbdAssumption DEF KeyCell, Cell, Byte, Kind
    <3> QED BY <2>1, <3>1, KeyKeepsFraming DEF sendSdlKeyboard, guestVars
  <2>2. CASE sendJoystickState
    BY <2>2, PacketsArePackets, PacketKeepsFraming DEF sendJoystickState, guestVars
  <2>3. ASSUME UNCHANGED <<ringVars, ikbd>> PROVE Framing'
    BY <2>3 DEF ringVars, Framing, KindAt, Occupied
  <2>4. ASSUME NEW p \in Position, sendMousePosition(p) PROVE Framing'
    BY <2>3, <2>4 DEF sendMousePosition, guestVars
  <2>5. ASSUME NEW v \in Movement, sendMouseMovement(v) PROVE Framing'
    BY <2>3, <2>5 DEF sendMouseMovement, guestVars
  <2>6. ASSUME NEW b \in Button, NEW isDown \in BOOLEAN, sendMouseButton(b, isDown)
        PROVE  Framing'
    BY <2>3, <2>6 DEF sendMouseButton, guestVars
  <2>7. CASE HandleKbMouse
    BY <2>3, <2>7 DEF HandleKbMouse, guestVars
  <2>8. CASE IRQCallback
    BY <2>3, <2>8 DEF IRQCallback
  <2>9. CASE AtariVdiInit
    BY <2>3, <2>9 DEF AtariVdiInit
  <2>10. CASE ikbdsys
    <3>1. CASE m_pKbRead # m_pKbWrite
      BY <2>10, <3>1, ReadKeepsFraming DEF ikbdsys, MousePacketDue
    <3>2. CASE MousePacketDue
      BY <2>10, <3>2, FreshPacketKeepsFraming DEF ikbdsys, MousePacketDue
    <3>3. CASE m_pKbRead = m_pKbWrite /\ ~MousePacketDue
      <4>1. ikbd' = ikbd
          BY <2>10, <3>3 DEF ikbdsys, Framing, Consume, Understood, Continuation, NUL, Cell
      <4> QED BY <2>3, <2>10, <3>3, <4>1 DEF ikbdsys
    <3> QED BY <3>1, <3>2, <3>3
  <2>11. CASE mdki_loop
    <3>1. CASE MousePacketDue
      <4>1. RoomForPacket
          BY <3>1, IkbdAssumption
             DEF MousePacketDue, RoomForPacket, GetKbBufferFree, Used, TypeOK, Slots
      <4> QED BY <2>11, <3>1, <4>1, PacketsArePackets, PacketKeepsFraming DEF mdki_loop
    <3>2. CASE ~MousePacketDue
      BY <2>3, <2>11, <3>2 DEF mdki_loop, ringVars
    <3> QED BY <3>1, <3>2
  <2>12. CASE UNCHANGED vars
    BY <2>3, <2>12 DEF vars, guestVars
  <2> QED BY <2>1, <2>2, <2>4, <2>5, <2>6, <2>7, <2>8, <2>9, <2>10, <2>11, <2>12
          DEF Next, Host, Guest
<1> QED BY <1>1, <1>2, TypeCorrect, PTL DEF Spec

\* No byte is stranded: when the guest is not in its interrupt handler it is
\* between two packets, and unread bytes have an interrupt or a look of the
\* emulator thread ahead of them, except in the one state EmuThread() does not
\* get out of (MagiC.cpp:1384-1438).
THEOREM NothingLeftBehindHolds ==
    ASSUME ~JoystickWithoutRoom
    PROVE  Spec => []NothingLeftBehind
<1>1. Init => NothingLeftBehind
    BY DEF Init, NothingLeftBehind
<1>2. TypeOK /\ Framing /\ NothingLeftBehind /\ [Next]_vars => NothingLeftBehind'
  <2> SUFFICES ASSUME TypeOK, Framing, NothingLeftBehind, [Next]_vars
               PROVE  NothingLeftBehind'
      OBVIOUS
  <2>1. ASSUME kbPending', UNCHANGED <<isr, ikbd>>
        PROVE  NothingLeftBehind'
    BY <2>1 DEF NothingLeftBehind
  <2>2. CASE Host
    BY <2>1, <2>2
       DEF Host, sendSdlKeyboard, sendMousePosition, sendMouseMovement, sendMouseButton,
           sendJoystickState, guestVars
  <2>3. CASE HandleKbMouse
    <3>1. CASE ~RoomForPacket
      <4>1. Stuck' \/ isr' # "idle"
          BY <2>3, <3>1
             DEF HandleKbMouse, Stuck, RoomForPacket, GetKbBufferFree, Used, ringVars, guestVars
      <4> QED BY <2>3, <4>1 DEF HandleKbMouse, NothingLeftBehind, guestVars, ringVars
    <3>2. CASE RoomForPacket
      <4>1. m_pKbRead # m_pKbWrite => irq6'
          BY <2>3, <3>2 DEF HandleKbMouse, AnyData
      <4> QED BY <2>3, <4>1 DEF HandleKbMouse, NothingLeftBehind, guestVars, ringVars
    <3> QED BY <3>1, <3>2
  <2>4. CASE IRQCallback
    BY <2>4 DEF IRQCallback, NothingLeftBehind
  <2>5. CASE ikbdsys
    BY <2>5 DEF ikbdsys, NothingLeftBehind
  <2>6. CASE mdki_loop
    BY <2>6 DEF mdki_loop, NothingLeftBehind, Framing, AnyData
  <2>7. ASSUME UNCHANGED <<ringVars, kbPending, irq6, isr, ikbd>> PROVE NothingLeftBehind'
    BY <2>7 DEF NothingLeftBehind, Stuck, RoomForPacket, GetKbBufferFree, Used, ringVars
  <2>8. CASE AtariVdiInit
    BY <2>7, <2>8 DEF AtariVdiInit
  <2>9. CASE UNCHANGED vars
    BY <2>7, <2>9 DEF vars, hostVars, guestVars
  <2> QED BY <2>2, <2>3, <2>4, <2>5, <2>6, <2>8, <2>9 DEF Next, Guest
<1> QED BY <1>1, <1>2, TypeCorrect, FramingHolds, PTL DEF Spec

-----------------------------------------------------------------------------
(* The ring implements the queue of module InputStream. *)

LEMMA ContentsType ==
    ASSUME TypeOK
    PROVE  /\ Contents \in Seq(Byte)
           /\ Len(Contents) = Used
           /\ \A i \in 1 .. Used : Contents[i] = m_cKeyboardOrMouseData[Slot(m_pKbRead, i - 1)]
<1>1. Used \in Nat
    BY UsedInRange, IkbdAssumption DEF TypeOK
<1>2. \A i \in 1 .. Used : Slot(m_pKbRead, i - 1) \in Slots
    BY IkbdAssumption DEF TypeOK, Used, Slot, Slots
<1> QED BY <1>1, <1>2 DEF Contents, TypeOK

\* A byte put is a byte appended.
LEMMA ContentsAfterKey ==
    ASSUME TypeOK, NEW c \in Byte, RoomForKey, PutKeyToBuffer(c), UNCHANGED m_pKbRead
    PROVE  Contents' = Contents \o <<c>>
<1>1. Used' = Used + 1 /\ Used \in Nat
    BY IkbdAssumption DEF TypeOK, Used, Slot, Slots, PutKeyToBuffer, RoomForKey, GetKbBufferFree
<1>2. \A i \in 1 .. Used : /\ Slot(m_pKbRead, i - 1) \in Slots
                            /\ Slot(m_pKbRead, i - 1) # m_pKbWrite
    BY IkbdAssumption DEF TypeOK, Used, Slot, Slots
<1>3. Slot(m_pKbRead, Used) = m_pKbWrite
    BY IkbdAssumption DEF TypeOK, Used, Slot, Slots
<1>4. \A i \in 1 .. Used :
        m_cKeyboardOrMouseData'[Slot(m_pKbRead, i - 1)]
            = m_cKeyboardOrMouseData[Slot(m_pKbRead, i - 1)]
    BY <1>2 DEF PutKeyToBuffer, TypeOK
<1>5. m_cKeyboardOrMouseData'[m_pKbWrite] = c
    BY DEF PutKeyToBuffer, TypeOK
<1>6. Contents' = [i \in 1 .. Used + 1 |->
                      m_cKeyboardOrMouseData'[Slot(m_pKbRead, i - 1)]]
    BY <1>1 DEF Contents
<1>7. Contents \o <<c>> = [i \in 1 .. Used + 1 |->
                              IF i <= Used THEN Contents[i] ELSE c]
    BY <1>1, ContentsType
<1>8. \A i \in 1 .. Used + 1 :
        m_cKeyboardOrMouseData'[Slot(m_pKbRead, i - 1)]
            = IF i <= Used THEN Contents[i] ELSE c
  <2> SUFFICES ASSUME NEW i \in 1 .. Used + 1
               PROVE  m_cKeyboardOrMouseData'[Slot(m_pKbRead, i - 1)]
                         = IF i <= Used THEN Contents[i] ELSE c
      OBVIOUS
  <2>1. CASE i <= Used
      BY <1>1, <1>4, <2>1, ContentsType
  <2>2. CASE i = Used + 1
      BY <1>1, <1>3, <1>5, <2>2
  <2> QED BY <1>1, <2>1, <2>2
<1> QED BY <1>6, <1>7, <1>8

\* A byte read is the first byte.
LEMMA ContentsAfterRead ==
    ASSUME TypeOK, m_pKbRead # m_pKbWrite, m_pKbRead' = Slot(m_pKbRead, 1),
           UNCHANGED <<m_cKeyboardOrMouseData, m_pKbWrite>>
    PROVE  Contents # <<>> /\ Contents' = Tail(Contents)
<1>1. Used' = Used - 1 /\ Used \in Nat /\ Used >= 1
    BY IkbdAssumption DEF TypeOK, Used, Slot, Slots
<1>2. \A i \in 1 .. Used - 1 : Slot(m_pKbRead', i - 1) = Slot(m_pKbRead, i)
    BY IkbdAssumption DEF TypeOK, Used, Slot, Slots
<1>3. Contents' = [i \in 1 .. Used - 1 |-> m_cKeyboardOrMouseData[Slot(m_pKbRead', i - 1)]]
    BY <1>1 DEF Contents
<1>4. Tail(Contents) = [i \in 1 .. Used - 1 |-> Contents[i + 1]]
  <2>1. Contents \in Seq(Byte) /\ Contents # <<>> /\ Len(Contents) = Used
      BY <1>1, ContentsType
  <2>2. /\ Tail(Contents) \in Seq(Byte)
        /\ Len(Tail(Contents)) = Used - 1
        /\ \A i \in 1 .. Used - 1 : Tail(Contents)[i] = Contents[i + 1]
      BY <2>1, HeadTailProperties
  <2>3. Tail(Contents) \in [1 .. Used - 1 -> Byte]
      BY <2>2, LenProperties
  <2> QED BY <2>2, <2>3
<1>5. \A i \in 1 .. Used - 1 : Contents[i + 1] = m_cKeyboardOrMouseData[Slot(m_pKbRead, i)]
    BY <1>1, ContentsType
<1>6. Contents # <<>>
    BY <1>1, ContentsType
<1> QED BY <1>2, <1>3, <1>4, <1>5, <1>6

\* A packet put is three bytes appended.
LEMMA ContentsAfterPacket ==
    ASSUME TypeOK, NEW a \in Byte, NEW b \in Byte, NEW c \in Byte, RoomForPacket,
           PutPacketToBuffer(<<a, b, c>>), UNCHANGED m_pKbRead
    PROVE  Contents' = Contents \o <<a, b, c>>
<1> DEFINE buf == m_cKeyboardOrMouseData
           p == <<a, b, c>>
<1>1. Used' = Used + 3 /\ Used \in Nat
    BY IkbdAssumption
       DEF TypeOK, Used, Slot, Slots, PutPacketToBuffer, RoomForPacket, GetKbBufferFree
<1>2. \A i \in 1 .. Used : /\ Slot(m_pKbRead, i - 1) \in Slots
                            /\ Slot(m_pKbRead, i - 1) # m_pKbWrite
                            /\ Slot(m_pKbRead, i - 1) # Slot(m_pKbWrite, 1)
                            /\ Slot(m_pKbRead, i - 1) # Slot(m_pKbWrite, 2)
    BY IkbdAssumption DEF TypeOK, Used, Slot, Slots, RoomForPacket, GetKbBufferFree
<1>3. /\ Slot(m_pKbRead, Used) = m_pKbWrite
      /\ Slot(m_pKbRead, Used + 1) = Slot(m_pKbWrite, 1)
      /\ Slot(m_pKbRead, Used + 2) = Slot(m_pKbWrite, 2)
    BY IkbdAssumption DEF TypeOK, Used, Slot, Slots, RoomForPacket, GetKbBufferFree
<1>4. \A i \in 1 .. Used : buf'[Slot(m_pKbRead, i - 1)] = buf[Slot(m_pKbRead, i - 1)]
    BY <1>2 DEF PutPacketToBuffer, TypeOK
<1>5. /\ buf'[m_pKbWrite] = a
      /\ buf'[Slot(m_pKbWrite, 1)] = b
      /\ buf'[Slot(m_pKbWrite, 2)] = c
    BY PacketSlots DEF PutPacketToBuffer, TypeOK
<1>6. Contents' = [i \in 1 .. Used + 3 |-> buf'[Slot(m_pKbRead, i - 1)]]
    BY <1>1 DEF Contents
<1>7. Contents \o p = [i \in 1 .. Used + 3 |-> IF i <= Used THEN Contents[i] ELSE p[i - Used]]
    BY <1>1, ContentsType
<1>8. ASSUME NEW i \in 1 .. Used + 3
      PROVE  buf'[Slot(m_pKbRead, i - 1)] = IF i <= Used THEN Contents[i] ELSE p[i - Used]
  <2>1. CASE i <= Used
      BY <1>1, <1>4, <2>1, ContentsType
  <2>2. CASE i = Used + 1
      BY <1>1, <1>3, <1>5, <2>2
  <2>3. CASE i = Used + 2
      BY <1>1, <1>3, <1>5, <2>3
  <2>4. CASE i = Used + 3
      BY <1>1, <1>3, <1>5, <2>4
  <2> QED BY <1>1, <2>1, <2>2, <2>3, <2>4
<1> QED BY <1>6, <1>7, <1>8

\* A packet put into the empty ring and its first byte read: the other two are left.
LEMMA ContentsAfterFreshPacket ==
    ASSUME TypeOK, NEW a \in Byte, NEW b \in Byte, NEW c \in Byte, m_pKbRead = m_pKbWrite,
           PutPacketToBuffer(<<a, b, c>>), m_pKbRead' = Slot(m_pKbRead, 1)
    PROVE  Contents = <<>> /\ Contents' = <<b, c>>
<1> DEFINE buf == m_cKeyboardOrMouseData
<1>1. Used' = 2 /\ Used = 0
    BY IkbdAssumption DEF TypeOK, Used, Slot, Slots, PutPacketToBuffer
<1>2. /\ Slot(m_pKbRead', 0) = Slot(m_pKbWrite, 1)
      /\ Slot(m_pKbRead', 1) = Slot(m_pKbWrite, 2)
    BY IkbdAssumption DEF TypeOK, Slot, Slots
<1>3. buf'[Slot(m_pKbWrite, 1)] = b /\ buf'[Slot(m_pKbWrite, 2)] = c
    BY PacketSlots DEF PutPacketToBuffer, TypeOK
<1>4. Contents' = [i \in 1 .. 2 |-> buf'[Slot(m_pKbRead', i - 1)]]
    BY <1>1 DEF Contents
<1>5. <<b, c>> = [i \in 1 .. 2 |-> IF i = 1 THEN b ELSE c]
    OBVIOUS
<1>6. \A i \in 1 .. 2 : buf'[Slot(m_pKbRead', i - 1)] = IF i = 1 THEN b ELSE c
    BY <1>2, <1>3
<1>7. Contents = <<>>
    BY <1>1, ContentsType
<1> QED BY <1>4, <1>5, <1>6, <1>7

LEMMA ContentsUnchanged ==
    ASSUME UNCHANGED ringVars
    PROVE  Contents' = Contents
BY DEF ringVars, Contents, Used

LEMMA MousePacketIsMessage ==
    ASSUME TypeOK
    PROVE  MousePacket \in Messages
<1>1. StepOf("x") \in -MAXSTEP .. MAXSTEP /\ StepOf("y") \in -MAXSTEP .. MAXSTEP
  <2>1. Step \in [Axis -> -MAXSTEP .. MAXSTEP]
      BY StepType DEF TypeOK
  <2>2. 0 \in -MAXSTEP .. MAXSTEP
      BY MouseAssumption
  <2> QED BY <2>1, <2>2 DEF StepOf
<1>2. Packetcode(m_bActHostMouseButton) \in 0 .. 3
    BY DEF Packetcode
<1> QED BY <1>1, <1>2 DEF MousePacket, Messages, Packets

\* The ring of bytes with its two wrapping pointers, filled by two threads and
\* emptied by a third party, is a queue: whole messages in, single bytes out, in
\* order, nothing lost and nothing twice (MagiC.cpp:1542-1572, 3363-3414).
THEOREM RingImplementsQueue ==
    ASSUME ~JoystickWithoutRoom
    PROVE  Spec => StreamSpec
<1>1. Init => Stream!Init
  <2> SUFFICES ASSUME Init PROVE Contents = <<>>
      BY DEF Stream!Init
  <2>1. Used = 0
      BY DEF Init, Used
  <2> QED BY <2>1 DEF Contents
<1>2. TypeOK /\ [Next]_vars => [Stream!Next]_Contents
  <2> SUFFICES ASSUME TypeOK, [Next]_vars PROVE Stream!Next \/ Contents' = Contents
      OBVIOUS
  <2>u. /\ Used \in 0 .. KEYBOARDBUFLEN - 1
        /\ Len(Contents) = Used
        /\ KEYBOARDBUFLEN - 1 >= 3
        /\ KEYBOARDBUFLEN \in Nat
      BY UsedInRange, ContentsType, IkbdAssumption DEF TypeOK
  <2>1. ASSUME NEW c \in ScanCode, sendSdlKeyboard(c) PROVE Stream!Next
    <3>1. KeyCell(c) \in Byte
        BY IkbdAssumption DEF KeyCell, Cell, Byte, Kind
    <3>2. Contents' = Contents \o <<KeyCell(c)>>
        BY <2>1, <3>1, ContentsAfterKey DEF sendSdlKeyboard
    <3>3. Len(Contents) + Len(<<KeyCell(c)>>) <= KEYBOARDBUFLEN - 1
        BY <2>1, <2>u DEF sendSdlKeyboard, RoomForKey, GetKbBufferFree
    <3>4. Stream!Put(<<KeyCell(c)>>)
        BY <3>2, <3>3 DEF Stream!Put
    <3>5. <<KeyCell(c)>> \in Messages
        BY DEF Messages
    <3> QED BY <3>4, <3>5 DEF Stream!Next
  <2>2. ASSUME NEW p, p \in {MousePacket, JoyPacket}, RoomForPacket, PutPacketToBuffer(p),
               UNCHANGED m_pKbRead
        PROVE  Stream!Next
    <3>1. PICK a \in Byte, b \in Byte, c \in Byte : p = <<a, b, c>>
        BY <2>2, PacketType DEF MousePacket, JoyPacket
    <3>2. Contents' = Contents \o p
        BY <2>2, <3>1, ContentsAfterPacket
    <3>3. Len(p) = 3
        BY <3>1
    <3>4. Len(Contents) + Len(p) <= KEYBOARDBUFLEN - 1
        BY <2>2, <2>u, <3>3 DEF RoomForPacket, GetKbBufferFree
    <3>5. Stream!Put(p)
        BY <3>2, <3>4 DEF Stream!Put
    <3>6. p \in Messages
        BY <2>2, MousePacketIsMessage DEF Messages
    <3> QED BY <3>5, <3>6 DEF Stream!Next
  <2>3. CASE sendJoystickState
    BY <2>2, <2>3 DEF sendJoystickState
  <2>4. CASE ikbdsys
    <3>1. CASE m_pKbRead # m_pKbWrite
      <4>1. Contents # <<>> /\ Contents' = Tail(Contents)
          BY <2>4, <3>1, ContentsAfterRead DEF ikbdsys, MousePacketDue
      <4> QED BY <4>1 DEF Stream!Next, Stream!Get
    <3>2. CASE MousePacketDue
      <4>1. PICK a \in Byte, b \in Byte, c \in Byte : MousePacket = <<a, b, c>>
          BY PacketType DEF MousePacket
      <4>2. Contents = <<>> /\ Contents' = <<b, c>>
          BY <2>4, <3>2, <4>1, ContentsAfterFreshPacket DEF ikbdsys, MousePacketDue
      <4>3. Tail(MousePacket) = <<b, c>> /\ Len(MousePacket) = 3
          BY <4>1
      <4>4. Stream!PutAndGet(MousePacket)
          BY <2>u, <4>2, <4>3 DEF Stream!PutAndGet
      <4> QED BY <4>4, MousePacketIsMessage DEF Stream!Next
    <3>3. CASE m_pKbRead = m_pKbWrite /\ ~MousePacketDue
      BY <2>4, <3>3, ContentsUnchanged DEF ikbdsys
    <3> QED BY <3>1, <3>2, <3>3
  <2>5. CASE mdki_loop
    <3>1. CASE MousePacketDue
      <4>1. RoomForPacket
          BY <2>u, <3>1, UsedInRange DEF TypeOK, MousePacketDue, RoomForPacket, GetKbBufferFree
      <4> QED BY <2>2, <2>5, <3>1, <4>1 DEF mdki_loop
    <3>2. CASE ~MousePacketDue
      BY <2>5, <3>2, ContentsUnchanged DEF mdki_loop, ringVars
    <3> QED BY <3>1, <3>2
  <2>6. ASSUME NEW p \in Position, sendMousePosition(p) PROVE Contents' = Contents
    BY <2>6, ContentsUnchanged DEF sendMousePosition
  <2>7. ASSUME NEW v \in Movement, sendMouseMovement(v) PROVE Contents' = Contents
    BY <2>7, ContentsUnchanged DEF sendMouseMovement
  <2>8. ASSUME NEW b \in Button, NEW isDown \in BOOLEAN, sendMouseButton(b, isDown)
        PROVE  Contents' = Contents
    BY <2>8, ContentsUnchanged DEF sendMouseButton
  <2>9. CASE HandleKbMouse
    BY <2>9, ContentsUnchanged DEF HandleKbMouse
  <2>10. CASE IRQCallback
    BY <2>10, ContentsUnchanged DEF IRQCallback
  <2>11. CASE AtariVdiInit
    BY <2>11, ContentsUnchanged DEF AtariVdiInit
  <2>12. CASE UNCHANGED vars
    BY <2>12, ContentsUnchanged DEF vars
  <2> QED BY <2>1, <2>3, <2>4, <2>5, <2>6, <2>7, <2>8, <2>9, <2>10, <2>11, <2>12
          DEF Next, Host, Guest
<1> QED BY <1>1, <1>2, TypeCorrect, PTL DEF Spec, StreamSpec, Stream!Spec

-----------------------------------------------------------------------------
(* Movement on its way to the guest. *)

\* No cells add up to nothing.
LEMMA TotalOfNone ==
    ASSUME NEW cells
    PROVE  TotalValue(cells, {}) = 0
<1> DEFINE Rec(f) == [S \in SUBSET {} |->
                        IF S = {} THEN 0
                        ELSE cells[CHOOSE s \in S : TRUE].val + f[S \ {CHOOSE s \in S : TRUE}]]
<1>1. [S \in SUBSET {} |-> 0] = Rec([S \in SUBSET {} |-> 0])
    OBVIOUS
<1> QED BY <1>1 DEF TotalValue, MapThenSumSet, MapThenFoldSet

\* One cell adds up to its value.  The sum is defined by recursion on the
\* subsets of its cells, {} and {s}: for these the function exists.
LEMMA TotalOfOne ==
    ASSUME NEW cells, NEW s, cells[s].val \in Int
    PROVE  TotalValue(cells, {s}) = cells[s].val
<1> DEFINE D == SUBSET {s}
           Rec(f) == [S \in D |->
                        IF S = {} THEN 0
                        ELSE cells[CHOOSE t \in S : TRUE].val + f[S \ {CHOOSE t \in S : TRUE}]]
           G == [S \in D |-> IF S = {} THEN 0 ELSE cells[s].val]
           F == CHOOSE f : f = Rec(f)
<1>1. /\ \A S \in D : S = {} \/ S = {s}
      /\ {} \in D /\ {s} \in D /\ {s} # {}
      /\ {s} \ {s} = {}
      /\ (CHOOSE t \in {s} : TRUE) = s
    OBVIOUS
<1> HIDE DEF D
<1>2. G = Rec(G)
  <2>1. \A S \in D : G[S] = Rec(G)[S]
    <3> TAKE S \in D
    <3>1. CASE S = {} BY <3>1
    <3>2. CASE S = {s} BY <1>1, <3>2
    <3> QED BY <1>1, <3>1, <3>2
  <2> QED BY <2>1
<1>3. F = Rec(F)
    BY <1>2
<1>4. TotalValue(cells, {s}) = F[{s}]
    BY DEF D, TotalValue, MapThenSumSet, MapThenFoldSet
<1> HIDE DEF F
<1>5. F[{}] = 0 /\ F[{s}] = cells[s].val + F[{}]
    BY <1>1, <1>3
<1> QED BY <1>4, <1>5

\* There is never more than one mouse packet on its way: one is made only when
\* the ring is empty, keys and joystick packets come behind it.
OnePacketInFlight ==
    \A s, t \in Occupied :
        KindAt(s) \in {"mouse", "dx", "dy"} /\ KindAt(s) = KindAt(t) => s = t

\* What the movement on its way is, then.
LEMMA TotalValues ==
    ASSUME TypeOK, OnePacketInFlight, NEW k \in {"dx", "dy"}
    PROVE  /\ Unread(k) = {} => Total(k) = 0
           /\ \A s \in Unread(k) : /\ Total(k) = m_cKeyboardOrMouseData[s].val
                                   /\ Unread(k) = {s}
           /\ Total(k) \in Int
<1>1. ASSUME NEW s \in Unread(k)
      PROVE  Total(k) = m_cKeyboardOrMouseData[s].val /\ Unread(k) = {s} /\ Total(k) \in Int
  <2>1. Unread(k) = {s}
      BY DEF OnePacketInFlight, Unread
  <2>2. m_cKeyboardOrMouseData[s].val \in Int
      BY DEF TypeOK, Unread, Occupied, Byte
  <2> QED BY <2>1, <2>2, TotalOfOne DEF Total
<1>2. Unread(k) = {} => Total(k) = 0
    BY TotalOfNone DEF Total
<1> QED BY <1>1, <1>2

\* The sum only depends on the cells that are counted.
LEMMA TotalKept ==
    ASSUME TypeOK, OnePacketInFlight, NEW k \in {"dx", "dy"},
           Unread(k)' = Unread(k),
           \A s \in Unread(k) : m_cKeyboardOrMouseData'[s] = m_cKeyboardOrMouseData[s]
    PROVE  Total(k)' = Total(k)
<1>1. CASE Unread(k) = {}
    BY <1>1, TotalOfNone DEF Total
<1>2. ASSUME NEW s \in Unread(k)
      PROVE  Total(k)' = Total(k)
  <2>1. Unread(k) = {s} /\ Total(k) = m_cKeyboardOrMouseData[s].val /\ Total(k) \in Int
      BY <1>2, TotalValues
  <2>2. TotalValue(m_cKeyboardOrMouseData', {s}) = m_cKeyboardOrMouseData'[s].val
      BY <1>2, <2>1, TotalOfOne
  <2> QED BY <1>2, <2>1, <2>2 DEF Total
<1> QED BY <1>1, <1>2

\* Bytes of keys and joysticks put into the ring do not count.
LEMMA OthersPut ==
    ASSUME TypeOK, OnePacketInFlight, UNCHANGED <<m_pKbRead, ikbd, pack>>,
           \/ RoomForKey /\ \E c \in ScanCode : PutKeyToBuffer(KeyCell(c))
           \/ RoomForPacket /\ PutPacketToBuffer(JoyPacket)
    PROVE  /\ OnePacketInFlight'
           /\ \A a \in Axis : InFlight(a)' = InFlight(a)
<1> DEFINE buf == m_cKeyboardOrMouseData
           mouse == {"mouse", "dx", "dy"}
<1>1. /\ \A s \in Occupied : s \in Occupied' /\ buf'[s] = buf[s]
      /\ \A s \in Occupied' : s \in Occupied \/ buf'[s].kind \notin mouse
  <2>1. CASE RoomForKey /\ \E c \in ScanCode : PutKeyToBuffer(KeyCell(c))
    <3>1. Occupied' = Occupied \cup {m_pKbWrite} /\ m_pKbWrite \notin Occupied
        BY <2>1, OccupiedAfterKey, OccupiedFacts DEF PutKeyToBuffer
    <3>2. buf'[m_pKbWrite].kind \notin mouse
        BY <2>1 DEF PutKeyToBuffer, TypeOK, KeyCell, Cell
    <3>3. \A s \in Occupied : buf'[s] = buf[s]
        BY <2>1, <3>1 DEF PutKeyToBuffer, TypeOK, Occupied
    <3> QED BY <3>1, <3>2, <3>3
  <2>2. CASE RoomForPacket /\ PutPacketToBuffer(JoyPacket)
    <3> DEFINE w0 == m_pKbWrite
               w1 == Slot(m_pKbWrite, 1)
               w2 == Slot(m_pKbWrite, 2)
    <3>1. /\ Occupied' = Occupied \cup {w0, w1, w2}
          /\ w0 \notin Occupied /\ w1 \notin Occupied /\ w2 \notin Occupied
        BY <2>2, OccupiedAfterPacket, OccupiedFacts DEF PutPacketToBuffer
    <3>2. /\ buf'[w0] = JoyPacket[1] /\ buf'[w1] = JoyPacket[2] /\ buf'[w2] = JoyPacket[3]
          /\ \A s \in Occupied : buf'[s] = buf[s]
        BY <2>2, <3>1, PacketSlots DEF PutPacketToBuffer, TypeOK, Occupied
    <3>3. \A i \in 1 .. 3 : JoyPacket[i].kind \notin mouse
        BY DEF JoyPacket, Cell
    <3> QED BY <3>1, <3>2, <3>3
  <2> QED BY <2>1, <2>2
<1>2. OnePacketInFlight'
    BY <1>1 DEF OnePacketInFlight, KindAt
<1>3. ASSUME NEW k \in {"dx", "dy"}
      PROVE  Total(k)' = Total(k)
  <2>1. Unread(k)' = Unread(k)
      BY <1>1 DEF Unread, KindAt
  <2> QED BY <1>1, <2>1, TotalKept DEF Unread
<1> QED BY <1>2, <1>3 DEF InFlight

\* What a mouse packet carries, put into the empty ring, is on its way.
LEMMA PacketPut ==
    ASSUME TypeOK, Framing, OnePacketInFlight, m_pKbRead = m_pKbWrite,
           PutPacketToBuffer(MousePacket),
           \/ UNCHANGED <<m_pKbRead, ikbd>>
           \/ m_pKbRead' = Slot(m_pKbRead, 1) /\ ikbd' = "dx"
    PROVE  /\ OnePacketInFlight'
           /\ \A a \in Axis : InFlight(a) = 0 /\ InFlight(a)' = Step[a]
<1> DEFINE w0 == m_pKbWrite
           w1 == Slot(m_pKbWrite, 1)
           w2 == Slot(m_pKbWrite, 2)
           buf == m_cKeyboardOrMouseData
<1>1. /\ w0 \in Slots /\ w1 \in Slots /\ w2 \in Slots
      /\ w0 # w1 /\ w0 # w2 /\ w1 # w2
    BY PacketSlots DEF TypeOK
<1>2. /\ buf'[w0].kind = "mouse"
      /\ buf'[w1].kind = "dx" /\ buf'[w1].val = StepOf("x")
      /\ buf'[w2].kind = "dy" /\ buf'[w2].val = StepOf("y")
    BY <1>1 DEF PutPacketToBuffer, MousePacket, Cell, TypeOK
<1>3. {w1, w2} \subseteq Occupied' /\ Occupied' \subseteq {w0, w1, w2}
  <2>1. m_pKbWrite' = Slot(m_pKbWrite, 3)
      BY DEF PutPacketToBuffer
  <2>2. ASSUME NEW s \in Slots
        PROVE  /\ s \in {w1, w2} => s \in Occupied'
               /\ s \in Occupied' => s \in {w0, w1, w2}
    <3>1. m_pKbRead' = m_pKbRead \/ m_pKbRead' = Slot(m_pKbRead, 1)
        OBVIOUS
    <3> QED BY <2>1, <3>1, IkbdAssumption DEF Occupied, TypeOK, Slots, Slot
  <2> QED BY <1>1, <2>2 DEF Occupied
<1>4. StepOf("x") \in Int /\ StepOf("y") \in Int
    BY StepType DEF StepOf, TypeOK
<1> HIDE DEF w0, w1, w2
<1>5. OnePacketInFlight'
    BY <1>2, <1>3 DEF OnePacketInFlight, KindAt
<1>6. Unread("dx")' = {w1} /\ Unread("dy")' = {w2}
    BY <1>2, <1>3 DEF Unread, KindAt
<1>7. Total("dx")' = StepOf("x") /\ Total("dy")' = StepOf("y")
    BY <1>2, <1>4, <1>6, TotalOfOne DEF Total
<1>8. /\ ikbd = "none" /\ ikbd' # "dy"
      /\ Total("dx") = 0 /\ Total("dy") = 0
  <2>1. Occupied = {}
      BY OccupiedFacts
  <2>2. Unread("dx") = {} /\ Unread("dy") = {}
      BY <2>1 DEF Unread
  <2> QED BY <2>2, TotalOfNone DEF Framing, Total
<1>9. ASSUME NEW a \in Axis
      PROVE  InFlight(a) = 0 /\ InFlight(a)' = Step[a]
    BY <1>4, <1>7, <1>8, MouseAssumption DEF InFlight, StepOf
<1> QED BY <1>5, <1>9

\* What ikbdsys takes out of the ring it keeps until the packet is complete, and
\* then moves the pointer.
LEMMA ByteRead ==
    ASSUME TypeOK, Framing, OnePacketInFlight, m_pKbRead # m_pKbWrite,
           Consume(m_cKeyboardOrMouseData[m_pKbRead]),
           m_pKbRead' = Slot(m_pKbRead, 1),
           UNCHANGED <<m_cKeyboardOrMouseData, m_pKbWrite>>
    PROVE  /\ OnePacketInFlight'
           /\ \A a \in Axis : curPos'[a] + InFlight(a)' = curPos[a] + InFlight(a)
<1> DEFINE c == m_cKeyboardOrMouseData[m_pKbRead]
           k == KindAt(m_pKbRead)
<1>1. Occupied' = Occupied \ {m_pKbRead} /\ m_pKbRead \in Occupied
    BY OccupiedAfterRead, OccupiedFacts
<1>2. /\ k = ikbd \/ (ikbd = "none" /\ k \in Starter)
      /\ Understood(c) /\ c.kind = k /\ Consume(c)
    BY DEF Framing, Understood, KindAt
<1>3. ikbd' = Continuation(k)
    BY <1>2 DEF Consume
<1>4. OnePacketInFlight'
    BY <1>1 DEF OnePacketInFlight, KindAt
<1>5. ASSUME NEW j \in {"dx", "dy"}, j # k
      PROVE  Total(j)' = Total(j)
  <2>1. Unread(j)' = Unread(j)
      BY <1>1, <1>5 DEF Unread, KindAt
  <2> QED BY <2>1, TotalKept
<1>6. ASSUME NEW j \in {"dx", "dy"}, j = k
      PROVE  Total(j) = c.val /\ Total(j)' = 0
  <2>1. m_pKbRead \in Unread(j)
      BY <1>1, <1>6 DEF Unread
  <2>2. Total(j) = c.val /\ Unread(j) = {m_pKbRead}
      BY <2>1, TotalValues
  <2>3. Unread(j)' = {}
      BY <1>1, <2>2 DEF Unread, KindAt
  <2> QED BY <2>2, <2>3, TotalOfNone DEF Total
<1>7. Total("dx") \in Int /\ Total("dy") \in Int
    BY TotalValues
<1>8. c.val \in Int /\ pack.dx \in Int /\ curPos \in [Axis -> Int]
    BY DEF TypeOK, Byte
<1> HIDE DEF c, k
<1>9. CASE k = "dx"
  <2>1. ikbd = "dx" /\ ikbd' = "dy" /\ pack'.dx = c.val /\ curPos' = curPos
      BY <1>2, <1>3, <1>9 DEF Consume, Starter, Continuation
  <2>2. Total("dx") = c.val /\ Total("dx")' = 0 /\ Total("dy")' = Total("dy")
      BY <1>5, <1>6, <1>9
  <2> QED BY <1>4, <1>7, <1>8, <2>1, <2>2 DEF InFlight
<1>10. CASE k = "dy"
  <2>1. ikbd = "dy" /\ ikbd' = "none"
      BY <1>2, <1>3, <1>10 DEF Starter, Continuation
  <2>2. curPos' = [a \in Axis |-> curPos[a] + (IF a = "x" THEN pack.dx ELSE c.val)]
      BY <1>2, <1>10 DEF Consume
  <2>3. Total("dy") = c.val /\ Total("dy")' = 0 /\ Total("dx")' = Total("dx")
      BY <1>5, <1>6, <1>10
  <2> QED BY <1>4, <1>7, <1>8, <2>1, <2>2, <2>3 DEF InFlight
<1>11. CASE k \notin {"dx", "dy"}
  <2>1. ikbd # "dy" /\ ikbd' # "dy" /\ curPos' = curPos
      BY <1>2, <1>3, <1>11 DEF Consume, Starter, Continuation
  <2>2. Total("dy")' = Total("dy") /\ Total("dx")' = Total("dx")
      BY <1>5, <1>11
  <2> QED BY <1>4, <2>1, <2>2 DEF InFlight
<1> QED BY <1>9, <1>10, <1>11

LEMMA InFlightUnchanged ==
    ASSUME UNCHANGED <<ringVars, ikbd, pack>>
    PROVE  /\ OnePacketInFlight => OnePacketInFlight'
           /\ \A a \in Axis : InFlight(a)' = InFlight(a)
<1>1. Occupied' = Occupied /\ m_cKeyboardOrMouseData' = m_cKeyboardOrMouseData
    BY DEF ringVars, Occupied
<1>2. Unread("dx")' = Unread("dx") /\ Unread("dy")' = Unread("dy")
    BY <1>1 DEF Unread, KindAt
<1> QED BY <1>1, <1>2 DEF InFlight, Total, OnePacketInFlight, KindAt

LEMMA FracDistributes ==
    ASSUME NEW i \in Int, NEW j \in Int
    PROVE  FRAC * (i + j) = FRAC * i + FRAC * j /\ FRAC * i \in Int
BY MouseAssumption

\* A step that leaves the mouse's books alone leaves the movement they account for.
LEMMA BooksKept ==
    ASSUME UNCHANGED <<m_actAtariPos, m_actHostMovPos>>,
           \A a \in Axis : curPos'[a] + InFlight(a)' = curPos[a] + InFlight(a)
    PROVE  \A a \in Axis : Booked(a)' = Booked(a)
<1> SUFFICES ASSUME NEW a \in Axis
             PROVE  Booked(a)' = Booked(a)
    OBVIOUS
<1>1. CASE bRelativeMouse
    BY <1>1, curPos'[a] + InFlight(a)' = curPos[a] + InFlight(a), Zenon DEF Booked
<1>2. CASE ~bRelativeMouse
    BY <1>2, curPos'[a] + InFlight(a)' = curPos[a] + InFlight(a), Zenon DEF Booked
<1> QED BY <1>1, <1>2

\* What ComposePacket books is what it sends.
LEMMA BooksBalanced ==
    ASSUME TypeOK, ComposePacket, UNCHANGED curPos,
           \A a \in Axis : InFlight(a) = 0 /\ InFlight(a)' = Step[a]
    PROVE  \A a \in Axis : Booked(a)' = Booked(a)
<1> SUFFICES ASSUME NEW a \in Axis
             PROVE  Booked(a)' = Booked(a)
    OBVIOUS
<1>1. Step[a] \in Int /\ curPos[a] \in Int /\ m_actHostMovPos[a] \in Int /\ m_actAtariPos[a] \in Int
    BY StepType DEF TypeOK, MouseTypeOK
<1>2. CASE bRelativeMouse
  <2>1. m_actHostMovPos'[a] = m_actHostMovPos[a] - FRAC * Step[a]
      BY <1>2 DEF ComposePacket
  <2>2. FRAC * (curPos[a] + Step[a]) = FRAC * curPos[a] + FRAC * Step[a]
      BY <1>1, FracDistributes
  <2>3. FRAC * curPos[a] \in Int /\ FRAC * Step[a] \in Int
      BY <1>1, FracDistributes
  <2>4. curPos[a] + 0 = curPos[a]
      BY <1>1
  <2>5. /\ Booked(a) = m_actHostMovPos[a] + FRAC * curPos[a]
        /\ Booked(a)' = (m_actHostMovPos[a] - FRAC * Step[a]) + FRAC * (curPos[a] + Step[a])
      BY <1>2, <2>1, <2>4 DEF Booked
  <2> QED BY <1>1, <2>2, <2>3, <2>5
<1>3. CASE ~bRelativeMouse
  <2>1. m_actAtariPos'[a] = m_actAtariPos[a] + Step[a]
      BY <1>3 DEF ComposePacket
  <2> QED BY <1>1, <1>3, <2>1 DEF Booked
<1> QED BY <1>2, <1>3

\* How a step of the system moves what is on its way.
LEMMA InFlightSteps ==
    ASSUME TypeOK, Framing, OnePacketInFlight, ~JoystickWithoutRoom, [Next]_vars
    PROVE  /\ OnePacketInFlight'
           /\ ~HandleKbMouse /\ ~AtariVdiInit => \A a \in Axis : Booked(a)' = Booked(a)
<1> DEFINE Goal == /\ OnePacketInFlight'
                   /\ ~HandleKbMouse /\ ~AtariVdiInit => \A a \in Axis : Booked(a)' = Booked(a)
<1>1. ASSUME UNCHANGED <<ringVars, ikbd, pack>>,
             UNCHANGED <<m_actAtariPos, m_actHostMovPos, curPos>> \/ HandleKbMouse \/ AtariVdiInit
      PROVE  Goal
  <2>1. OnePacketInFlight' /\ \A a \in Axis : InFlight(a)' = InFlight(a)
      BY <1>1, InFlightUnchanged
  <2> QED BY <1>1, <2>1, BooksKept
<1>2. ASSUME MousePacketDue
      PROVE  RoomForPacket
    BY <1>2, IkbdAssumption
       DEF MousePacketDue, RoomForPacket, GetKbBufferFree, Used, TypeOK, Slots
<1>3. ASSUME NEW c \in ScanCode, sendSdlKeyboard(c) PROVE Goal
  <2>1. UNCHANGED <<m_actAtariPos, m_actHostMovPos, curPos, m_pKbRead, ikbd, pack>>
      BY <1>3 DEF sendSdlKeyboard, mouseVars, guestVars
  <2>2. OnePacketInFlight' /\ \A a \in Axis : InFlight(a)' = InFlight(a)
      BY <1>3, <2>1, OthersPut DEF sendSdlKeyboard
  <2> QED BY <2>1, <2>2, BooksKept
<1>4. CASE sendJoystickState
  <2>1. UNCHANGED <<m_actAtariPos, m_actHostMovPos, curPos, m_pKbRead, ikbd, pack>>
      BY <1>4 DEF sendJoystickState, mouseVars, guestVars
  <2>2. OnePacketInFlight' /\ \A a \in Axis : InFlight(a)' = InFlight(a)
      BY <1>4, <2>1, OthersPut DEF sendJoystickState
  <2> QED BY <2>1, <2>2, BooksKept
<1>5. ASSUME NEW p \in Position, sendMousePosition(p) PROVE Goal
    BY <1>1, <1>5 DEF sendMousePosition, guestVars, mouseVars
<1>6. ASSUME NEW v \in Movement, sendMouseMovement(v) PROVE Goal
    BY <1>1, <1>6 DEF sendMouseMovement, guestVars, mouseVars
<1>7. ASSUME NEW b \in Button, NEW isDown \in BOOLEAN, sendMouseButton(b, isDown) PROVE Goal
    BY <1>1, <1>7 DEF sendMouseButton, guestVars, mouseVars
<1>8. CASE HandleKbMouse
    BY <1>1, <1>8 DEF HandleKbMouse, guestVars
<1>9. CASE IRQCallback
    BY <1>1, <1>9 DEF IRQCallback, mouseVars
<1>10. CASE AtariVdiInit
    BY <1>1, <1>10 DEF AtariVdiInit
<1>11. CASE ikbdsys
  <2>1. CASE m_pKbRead # m_pKbWrite
    <3>1. /\ Consume(m_cKeyboardOrMouseData[m_pKbRead])
          /\ m_pKbRead' = Slot(m_pKbRead, 1)
          /\ UNCHANGED <<mouseVars, m_cKeyboardOrMouseData, m_pKbWrite>>
        BY <1>11, <2>1 DEF ikbdsys, MousePacketDue
    <3>2. /\ OnePacketInFlight'
          /\ \A a \in Axis : curPos'[a] + InFlight(a)' = curPos[a] + InFlight(a)
        BY <2>1, <3>1, ByteRead
    <3> QED BY <3>1, <3>2, BooksKept DEF mouseVars
  <2>2. CASE MousePacketDue
    <3>1. /\ m_pKbRead = m_pKbWrite
          /\ PutPacketToBuffer(MousePacket) /\ ComposePacket /\ Consume(MousePacket[1])
          /\ m_pKbRead' = Slot(m_pKbRead, 1)
        BY <1>11, <2>2 DEF ikbdsys, MousePacketDue
    <3>2. ikbd' = "dx" /\ curPos' = curPos
      <4>1. ikbd = "none" /\ MousePacket[1].kind = "mouse"
          BY <3>1 DEF Framing, MousePacket, Cell
      <4> QED BY <3>1, <4>1 DEF Consume, Understood, Starter, Continuation
    <3>3. /\ OnePacketInFlight'
          /\ \A a \in Axis : InFlight(a) = 0 /\ InFlight(a)' = Step[a]
        BY <3>1, <3>2, PacketPut
    <3> QED BY <3>1, <3>2, <3>3, BooksBalanced
  <2>3. CASE m_pKbRead = m_pKbWrite /\ ~MousePacketDue
    <3>1. ikbd' = ikbd /\ pack' = pack /\ curPos' = curPos
        BY <1>11, <2>3 DEF ikbdsys, Framing, Consume, Understood, Continuation, NUL, Cell
    <3> QED BY <1>1, <1>11, <2>3, <3>1 DEF ikbdsys, mouseVars
  <2> QED BY <2>1, <2>2, <2>3
<1>12. CASE mdki_loop
  <2>1. CASE MousePacketDue
    <3>1. /\ m_pKbRead = m_pKbWrite
          /\ PutPacketToBuffer(MousePacket) /\ ComposePacket
          /\ UNCHANGED <<m_pKbRead, ikbd, curPos>>
        BY <1>12, <2>1 DEF mdki_loop, MousePacketDue
    <3>2. /\ OnePacketInFlight'
          /\ \A a \in Axis : InFlight(a) = 0 /\ InFlight(a)' = Step[a]
        BY <3>1, PacketPut
    <3> QED BY <3>1, <3>2, BooksBalanced
  <2>2. CASE ~MousePacketDue
    BY <1>1, <1>12, <2>2 DEF mdki_loop, mouseVars, ringVars
  <2> QED BY <2>1, <2>2
<1>13. CASE UNCHANGED vars
    BY <1>1, <1>13 DEF vars, mouseVars, guestVars
<1> QED BY <1>3, <1>4, <1>5, <1>6, <1>7, <1>8, <1>9, <1>10, <1>11, <1>12, <1>13
        DEF Next, Host, Guest

\* There is never more than one mouse packet between CMagiCMouse and the guest's
\* pointer: the callback makes one only for an empty ring (MagiC.cpp:3368).
THEOREM OnePacketHolds ==
    ASSUME ~JoystickWithoutRoom
    PROVE  Spec => []OnePacketInFlight
<1>1. Init => OnePacketInFlight
    BY IkbdAssumption DEF Init, OnePacketInFlight, Occupied, Slots
<1>2. TypeOK /\ Framing /\ OnePacketInFlight /\ [Next]_vars => OnePacketInFlight'
    BY InFlightSteps
<1> QED BY <1>1, <1>2, TypeCorrect, FramingHolds, PTL DEF Spec

\* What CMagiCMouse books as sent arrives in the guest's pointer, however the
\* distance is cut into packets and whatever keys and joystick bytes come between
\* (MagiCMouse.cpp:190-222; HOSTBIOS.S:2999).
THEOREM MovementIsConserved ==
    ASSUME ~JoystickWithoutRoom
    PROVE  Spec => MovementConserved
<1>1. TypeOK /\ Framing /\ OnePacketInFlight /\ [Next]_vars =>
          [~HandleKbMouse /\ ~AtariVdiInit => \A a \in Axis : Booked(a)' = Booked(a)]_vars
    BY InFlightSteps
<1> QED BY <1>1, TypeCorrect, FramingHolds, OnePacketHolds, PTL DEF Spec, MovementConserved
=============================================================================
