\* Two listeners work on overlapping deliveries of two commands; two faults.
SPECIFICATION Spec
CONSTANTS
  Commands = {c1, c2}
  Foreign = {}
  Listeners = {l1, l2}
  BatchSize = 2
  MaxReceives = 4
  MaxFaults = 2
  NoReceipt = NoReceipt
SYMMETRY Interchangeable
INVARIANTS NoLostCommand AcknowledgedSurvives IInv
PROPERTIES ImplementsDelivery
\* Everything may be processed and the listeners stopped: the system rests.
CHECK_DEADLOCK FALSE
