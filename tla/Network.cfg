\* The program may end at any time; the interface is not started twice.
SPECIFICATION Spec
CONSTANT Restarts = FALSE
INVARIANTS TypeOK WaitingIsPending
PROPERTIES AckArrives PacketRaisesInterrupt StopReturns
CHECK_DEADLOCK FALSE
