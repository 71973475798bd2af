\* The program ends while the guest runs on.
SPECIFICATION Spec
CONSTANT Restarts = FALSE
INVARIANT NoUseAfterDelete
CHECK_DEADLOCK FALSE
