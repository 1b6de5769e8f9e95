\* Two messages of one queue and one of another, each delivered up to twice.
SPECIFICATION Spec
CONSTANTS
  j1 = j1
  j2 = j2
  j3 = j3
  Jobs = {j1, j2, j3}
  Queues = {"create", "audit"}
  Events = {"Created", "Refused", "Audited", "Skipped", "Logged"}
  QueueOf <- MCQueueOf
  Resolves <- MCResolves
  Rejects <- MCRejects
  Emits <- MCEmits
  WithDlq = {"audit"}
  MaxAttempts = 2
INVARIANTS OwnVerdict NoCallbackLeft DeadLettersExact IInv
\* All messages may have settled.
CHECK_DEADLOCK FALSE
