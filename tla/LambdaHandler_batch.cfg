\* The batch size of an event source mapping where none is configured is 10; two
\* records suffice.
SPECIFICATION Spec
CONSTANTS
  Commands = {c1, c2}
  Poison = {p1}
  Environments = {e1}
  RecordLimit = 2
  MaxFaults = 1
INVARIANT SeveralRecordsRefused
