--------------------------- MODULE Network_proofs ---------------------------
(***************************************************************************)
(* Proofs about module Network: the types, and that a waiting receiver is  *)
(* pending, wherever the guest is when the program ends.                   *)
(***************************************************************************)
EXTENDS Network, TLAPS

(* No type can break: one step per action. *)
LEMMA InitTypes == Init => TypeOK
BY DEF Init, TypeOK, Length, Gone

LEMMA StepTypes == TypeOK /\ [Next]_vars => TypeOK'
<1> SUFFICES ASSUME TypeOK, [Next]_vars PROVE TypeOK'
    OBVIOUS
<1> USE DEF TypeOK, Length, Error, Gone, receiverVars, threadVars, otherVars
<1>1. CASE recv \/ spuriousWakeup
    BY <1>1 DEF recv, spuriousWakeup
<1>2. CASE Receiver
    <2>1. CASE checkLength
        BY <2>1 DEF checkLength, NotNegative
    <2>2. CASE raiseInterrupt \/ waitAck \/ acknowledged \/ cancel
        BY <2>2 DEF raiseInterrupt, waitAck, acknowledged, cancel, Unlocked
    <2> QED BY <1>2, <2>1, <2>2 DEF Receiver
<1>3. CASE IRQ_devices \/ GuestAtWork \/ EmulatorEnds
    <2>1. CASE IRQ_acknowledge
        BY <2>1 DEF IRQ_acknowledge
    <2>2. CASE IRQ_devices \/ readPacketLength \/ readPacket \/ EmulatorEnds
        BY <2>2 DEF IRQ_devices, readPacketLength, readPacket, EmulatorEnds
    <2>3. CASE stopThreadJoined
        BY <2>3 DEF stopThreadJoined, StopEnds
    <2> QED BY <1>3, <2>1, <2>2, <2>3 DEF GuestAtWork
<1>4. CASE startThread \/ stopThread
    BY <1>4 DEF startThread, stopThread
<1>5. CASE exit \/ Exiting
    <2>1. CASE exit
        BY <2>1 DEF exit
    <2>2. CASE exitJoined
        <3>1. handlingThread' = FALSE /\ main' = "close"
            BY <2>2 DEF exitJoined, StopEnds
        <3>2. UNCHANGED <<receiverVars, cancelled, handler, guest>>
            BY <2>2 DEF exitJoined
        <3> QED BY <3>1, <3>2, Zenon
    <2>3. CASE exitClose \/ exitDelete \/ exitForget
        BY <2>3 DEF exitClose, exitDelete, exitForget
    <2> QED BY <1>5, <2>1, <2>2, <2>3 DEF Exiting
<1>6. CASE UNCHANGED vars
    BY <1>6 DEF vars
<1> QED BY <1>1, <1>2, <1>3, <1>4, <1>5, <1>6 DEF Next

\* Every variable keeps its type, and no interrupt is raised for a negative
\* length (network.cpp:492), however often the guest stops and starts.
THEOREM NetworkTypes == Spec => []TypeOK
<1>1. Init => TypeOK
    BY InitTypes
<1>2. TypeOK /\ [Next]_vars => TypeOK'
    BY StepTypes
<1> QED BY <1>1, <1>2, PTL DEF Spec

LEMMA StepPending == WaitingIsPending /\ [Next]_vars => WaitingIsPending'
<1> SUFFICES ASSUME WaitingIsPending, [Next]_vars PROVE WaitingIsPending'
    OBVIOUS
<1> USE DEF WaitingIsPending, receiverVars, threadVars, otherVars
<1>1. CASE recv \/ spuriousWakeup \/ Receiver
    BY <1>1 DEF recv, spuriousWakeup, Receiver, checkLength, raiseInterrupt, waitAck,
                acknowledged, cancel
<1>2. CASE IRQ_devices \/ GuestAtWork \/ EmulatorEnds
    BY <1>2 DEF IRQ_devices, GuestAtWork, EmulatorEnds, readPacketLength, readPacket,
                IRQ_acknowledge, stopThreadJoined, StopEnds
<1>3. CASE startThread \/ stopThread \/ exit \/ Exiting
    BY <1>3 DEF startThread, stopThread, exit, Exiting, exitJoined, exitClose, exitDelete,
                exitForget, StopEnds
<1>4. CASE UNCHANGED vars
    BY <1>4 DEF vars
<1> QED BY <1>1, <1>2, <1>3, <1>4 DEF Next

\* Whoever waits for an acknowledge is announced to the guest
\* (network.cpp:210, 517), however often the guest stops and starts.
THEOREM WaitingReceiversArePending == Spec => []WaitingIsPending
<1>1. Init => WaitingIsPending
    BY DEF Init, WaitingIsPending
<1>2. WaitingIsPending /\ [Next]_vars => WaitingIsPending'
    BY StepPending
<1> QED BY <1>1, <1>2, PTL DEF Spec
=============================================================================
