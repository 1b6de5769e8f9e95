CONSTANTS
  Processes = {p1, p2}
  Requests = {r1, r2}
  Messages = {m1, m2}
  MaxRestarts = 1
SPECIFICATION Spec
INVARIANTS
  ExecutedIsShown
  OwnEventArrives
  HandlersHear
  RequestsShareInstances
\* every message executed, every request answered
CHECK_DEADLOCK FALSE
