\* Strings of up to four characters: a sign, a dot, and digits on both sides of
\* it, with values around the limits 1, 10 and 20; x is no part of a number.
\* Suffixes of up to four pieces, one more than a name has: they occur within,
\* at the end of, and across the end of a name, and may end like the type's.
SPECIFICATION DeploymentSpec
CONSTANTS
  Characters = {"+", "-", ".", "0", "1", "2", "x"}
  MaxLength = 4
  Unset = Unset
  Undefined = Undefined
  NaN = NaN
  Queues <- MCQueues
  Type <- MCType
  Pieces <- MCPieces
  MaxSuffix = 4
INVARIANTS RoundTrip NumbersAreTruncated DefaultsWork InMemoryOnlyIfAsked
\* A process that was refused, or listens to its port, takes no more steps.
CHECK_DEADLOCK FALSE
