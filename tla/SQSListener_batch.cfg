\* A command and as much poison as a batch holds, two listeners, and one fault of
\* any kind: a crash leaves one of them running.  Poison comes back for ever; the
\* command may be received once more than RedeliveryNeedsFault allows, so the
\* bound hides no violation of it.
SPECIFICATION FairSpec
CONSTANTS
  Commands = {c1}
  Foreign = {f1, f2}
  Listeners = {l1, l2}
  BatchSize = 2
  MaxReceives = 3
  MaxFaults = 1
  NoReceipt = NoReceipt
INVARIANTS NoCrossMessageEvents RedeliveryNeedsFault
PROPERTIES StopDrains EventuallyRetired StopTerminates
\* Everything may be processed and the listeners stopped: the system rests.
CHECK_DEADLOCK FALSE
