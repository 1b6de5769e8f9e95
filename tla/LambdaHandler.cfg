\* One record per event; two environments, so that messages are under way in one
\* while the other starts, and two faults among them: a start that failed and
\* one more.
SPECIFICATION FairSpec
CONSTANTS
  Commands = {c1, c2}
  Poison = {p1}
  Environments = {e1, e2}
  RecordLimit = 1
  MaxFaults = 2
INVARIANTS IInv DroppedOnlyIfExecuted
PROPERTIES ImplementsDelivery EventuallyExecuted
