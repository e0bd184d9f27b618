\* Three readers over three relays with the shipped default of one slot: the
\* smallest instance with a cycle of three waits, had the order been free.
CONSTANTS
  Readers = {r1, r2, r3}
  RelayCount = 3
  Max = 1
SPECIFICATION Spec
INVARIANTS NoLostWakeup NoCircularWait
PROPERTIES ImplementsAdmission EveryAcquireSettles
\* The system stops when it is closed and drained.
CHECK_DEADLOCK FALSE
