CONSTANTS
  Requests = {r1, r2}
  Messages = {m1, m2, m3}
  ClientIds = {x, y}
  MaxPolls = 3
SPECIFICATION LoggingSpec
INVARIANTS
  ContextsDoNotNest
  IdsTellApart
\* the bound on polls
CHECK_DEADLOCK FALSE
