------------------------------ MODULE Network ------------------------------
(***************************************************************************)
(* Ethernet (network.cpp).  Only eth[0] can be configured, so there is one *)
(* interface, with one buffer for one received packet:                     *)
(*                                                                         *)
(*   receiver   receiveFunc(): receives a packet, sets the interface's bit *)
(*              in pending_interrupts and waits for the acknowledge        *)
(*   guest      the network driver: polls the bit in its VBL handler,      *)
(*              reads the packet and acknowledges it with a signal; starts *)
(*              and stops the receiver ("ifup", "ifdown")                  *)
(*   main       CNetwork::exit() at the end of the program, which does not *)
(*              wait for the emulator thread: the guest may run on         *)
(*                                                                         *)
(* A thread is cancelled in a read() or in pthread_cond_wait() alone; the  *)
(* latter locks intLock again before the thread is gone.                   *)
(***************************************************************************)
EXTENDS Integers

CONSTANT Restarts         \* the guest brings the interface up again after "ifdown"

ASSUME NetworkAssumption == Restarts \in BOOLEAN

VARIABLES
    packet_length,        \* of the packet in the buffer
    receiver,             \* where the receiver thread is
    handlingThread,       \* handler->handlingThread # 0
    cancelled,            \* pthread_cancel() was called for it
    intLock,              \* handler->intLock is locked
    pending_interrupts,   \* the interface's bit
    handler,              \* "open", "closed", "deleted", or "none": handlers[0] is NULL
    guest,                \* where the guest's driver is
    main                  \* where the main thread is

receiverVars == <<packet_length, receiver, intLock, pending_interrupts>>
threadVars   == <<handlingThread, cancelled>>
otherVars    == <<handler, guest, main>>
vars == <<receiverVars, threadVars, otherVars>>

Error   == -1
Length  == {Error, 1}     \* what recv() returns: all packets are alike

Gone    == {"never", "dead"}
Running == receiver \notin Gone

Init ==
    /\ packet_length = 0
    /\ receiver = "never"
    /\ handlingThread = FALSE
    /\ cancelled = FALSE
    /\ intLock = FALSE
    /\ pending_interrupts = FALSE
    /\ handler = "open"
    /\ guest = "idle"
    /\ main = "loop"

----------------------------------------------------------------------------
(* The receiver. *)

(* A packet, or -1 for an error. *)
recv ==
    /\ receiver = "recv"
    /\ ~cancelled
    /\ receiver' = "got"
    /\ packet_length' \in Length
    /\ handler # "open" => packet_length' = Error
    /\ UNCHANGED <<intLock, pending_interrupts, threadVars, otherVars>>

(* ... NotNegative left to the guest *)
AnyLength(length) == length

NotNegative(length) == IF length < 0 THEN 0 ELSE length

checkLength ==
    /\ receiver = "got"
    /\ packet_length' = NotNegative(packet_length)
    /\ receiver' = "trigger"
    /\ UNCHANGED <<intLock, pending_interrupts, threadVars, otherVars>>

raiseInterrupt ==
    /\ receiver = "trigger"
    /\ ~intLock
    /\ intLock' = TRUE
    /\ pending_interrupts' = TRUE
    /\ receiver' = "raised"
    /\ UNCHANGED <<packet_length, threadVars, otherVars>>

waitAck ==
    /\ receiver = "raised"
    /\ intLock' = FALSE
    /\ receiver' = "waiting"
    /\ UNCHANGED <<packet_length, pending_interrupts, threadVars, otherVars>>

(* pthread_cond_wait() may return without a signal. *)
spuriousWakeup ==
    /\ receiver = "waiting"
    /\ receiver' = "woken"
    /\ UNCHANGED <<packet_length, intLock, pending_interrupts, threadVars, otherVars>>

(* ... pthread_mutex_unlock() forgotten *)
UnlockedNot == TRUE

Unlocked == FALSE

acknowledged ==
    /\ receiver = "woken"
    /\ ~intLock
    /\ pending_interrupts' = FALSE
    /\ intLock' = Unlocked
    /\ receiver' = "recv"
    /\ UNCHANGED <<packet_length, threadVars, otherVars>>

cancel ==
    /\ cancelled
    /\ \/ receiver = "recv" /\ UNCHANGED intLock
       \/ receiver = "waiting" /\ ~intLock /\ intLock' = TRUE
    /\ receiver' = "dead"
    /\ UNCHANGED <<packet_length, pending_interrupts, threadVars, otherVars>>

Receiver == checkLength \/ raiseInterrupt \/ waitAck \/ acknowledged \/ cancel

----------------------------------------------------------------------------
(* The guest's driver.  What it calls is a host function, which ends without
   a handler; handling the interrupt is external. *)

IRQ_devices ==
    /\ guest = "idle"
    /\ guest' = IF pending_interrupts THEN "length" ELSE "idle"
    /\ UNCHANGED <<receiverVars, threadVars, handler, main>>

readPacketLength ==
    /\ guest = "length"
    /\ guest' = "packet"
    /\ UNCHANGED <<receiverVars, threadVars, handler, main>>

readPacket ==
    /\ guest = "packet"
    /\ guest' = "acknowledge"
    /\ UNCHANGED <<receiverVars, threadVars, handler, main>>

HasHandler == handler # "none"

(* A plausible other IRQ_acknowledge: the handler clears the bit itself. *)
IRQ_acknowledgeClears ==
    /\ guest = "acknowledge"
    /\ guest' = "idle"
    /\ receiver' = IF HasHandler /\ receiver = "waiting" THEN "woken" ELSE receiver
    /\ pending_interrupts' = FALSE
    /\ UNCHANGED <<packet_length, intLock, threadVars, handler, main>>

IRQ_acknowledge ==
    /\ guest = "acknowledge"
    /\ guest' = "idle"
    /\ receiver' = IF HasHandler /\ receiver = "waiting" THEN "woken" ELSE receiver
    /\ UNCHANGED <<packet_length, intLock, pending_interrupts, threadVars, handler, main>>

(* One receiver at a time: one that is started beside another is not modelled. *)
startThread ==
    /\ guest = "idle"
    /\ HasHandler
    /\ ~handlingThread
    /\ receiver \in (IF Restarts THEN Gone ELSE {"never"})
    /\ handlingThread' = TRUE
    /\ receiver' = "recv"
    /\ cancelled' = FALSE
    /\ UNCHANGED <<packet_length, intLock, pending_interrupts, otherVars>>

(* stopThread(), called by the guest and by exit(): cancel, join, reset.  The
   thread to join is the cancelled one, another may have been started since.
   If two join it at once, one of them may return at once, with an error. *)
JoinReturns ==
    \/ ~Running
    \/ ~cancelled
    \/ guest = "join" /\ main = "join"

StopEnds == JoinReturns /\ handlingThread' = FALSE

stopThread ==
    /\ guest = "idle"
    /\ HasHandler
    /\ handlingThread
    /\ cancelled' = TRUE
    /\ guest' = "join"
    /\ UNCHANGED <<receiverVars, handlingThread, handler, main>>

stopThreadJoined ==
    /\ guest = "join"
    /\ StopEnds
    /\ guest' = "idle"
    /\ UNCHANGED <<receiverVars, cancelled, handler, main>>

EmulatorEnds ==
    /\ guest = "idle"
    /\ guest' = "ended"
    /\ UNCHANGED <<receiverVars, threadVars, handler, main>>

GuestAtWork == readPacketLength \/ readPacket \/ IRQ_acknowledge \/ stopThreadJoined

----------------------------------------------------------------------------
(* CNetwork::exit(), after the event loop, wherever the guest is. *)

exit ==
    /\ main = "loop"
    /\ cancelled' = (cancelled \/ handlingThread)
    /\ main' = IF handlingThread THEN "join" ELSE "close"
    /\ UNCHANGED <<receiverVars, handlingThread, handler, guest>>

exitJoined ==
    /\ main = "join"
    /\ StopEnds
    /\ main' = "close"
    /\ UNCHANGED <<receiverVars, cancelled, handler, guest>>

exitClose ==
    /\ main = "close"
    /\ handler' = "closed"
    /\ main' = "delete"
    /\ UNCHANGED <<receiverVars, threadVars, guest>>

exitDelete ==
    /\ main = "delete"
    /\ handler' = "deleted"
    /\ main' = "forget"
    /\ UNCHANGED <<receiverVars, threadVars, guest>>

exitForget ==
    /\ main = "forget"
    /\ handler' = "none"
    /\ main' = "done"
    /\ UNCHANGED <<receiverVars, threadVars, guest>>

Exiting == exitJoined \/ exitClose \/ exitDelete \/ exitForget

----------------------------------------------------------------------------
Next ==
    \/ recv \/ spuriousWakeup \/ Receiver
    \/ IRQ_devices \/ GuestAtWork
    \/ startThread \/ stopThread \/ EmulatorEnds
    \/ exit \/ Exiting

(* Threads are scheduled; the guest's VBL interrupts go on, so it polls the
   interface again and again; nothing makes a packet arrive. *)
Fairness ==
    /\ WF_vars(Receiver)
    /\ WF_vars(IRQ_devices)
    /\ WF_vars(GuestAtWork)
    /\ WF_vars(Exiting)

Spec == Init /\ [][Next]_vars /\ Fairness

----------------------------------------------------------------------------
TypeOK ==
    /\ packet_length \in Length \cup {0}
    /\ receiver \in Gone \cup {"recv", "got", "trigger", "raised", "waiting", "woken"}
    /\ receiver \in {"trigger", "raised", "waiting"} => packet_length >= 0
    /\ handlingThread \in BOOLEAN
    /\ cancelled \in BOOLEAN
    /\ intLock \in BOOLEAN
    /\ pending_interrupts \in BOOLEAN
    /\ handler \in {"open", "closed", "deleted", "none"}
    /\ guest \in {"idle", "length", "packet", "acknowledge", "join", "ended"}
    /\ main \in {"loop", "join", "close", "delete", "forget", "done"}

\* A receiver that waits is one the guest is told of: an acknowledge that comes
\* before pthread_cond_wait() is lost, but the bit is still there for the next
\* poll (network.cpp:210, 243, 517).
WaitingIsPending == receiver \in {"raised", "waiting"} => pending_interrupts

\* exit() says "Stop reception thread" (network.cpp:78) before it deletes the
\* handler: no receiver is left to use the deleted handler.  A guest that runs on
\* may start one meanwhile, or may have made exit() leave its join early.
Deleted == handler \in {"deleted", "none"}

NoUseAfterDelete == Deleted => ~Running

(* What runs on in a deleted handler is undefined: nothing is claimed of it. *)

\* A receiver that waits for its acknowledge gets it, whatever signal was lost,
\* or came twice: it goes on to the next packet, unless the guest has ended or
\* the handler is deleted (network.cpp:517).
AckArrives ==
    receiver = "waiting" ~> \/ receiver \notin {"waiting", "woken"}
                            \/ guest = "ended" \/ Deleted

\* "... but needs to be triggered, anyway" (network.cpp:496): whatever recv()
\* returned, the guest's interrupt is raised.
PacketRaisesInterrupt == receiver = "got" ~> receiver = "raised" \/ Deleted

\* "ifdown" comes to an end, the emulator thread that waits for the receiver to
\* be gone runs on, at the end of the program as well (network.cpp:466).
StopReturns == guest = "join" ~> guest = "idle" \/ Deleted
=============================================================================
