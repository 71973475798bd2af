\* "ifdown" and "ifup" again.
SPECIFICATION Spec
CONSTANT Restarts = TRUE
PROPERTY PacketRaisesInterrupt
CHECK_DEADLOCK FALSE
