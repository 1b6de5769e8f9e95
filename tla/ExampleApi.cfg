\* Two examples, one of them known by ids that differ in case; two requests,
\* of which one may follow the other or overlap it; two messages, executed three
\* times in all, so that one is executed again.
SPECIFICATION Spec
CONSTANTS
  aLower = aLower
  aUpper = aUpper
  b = b
  malformed = malformed
  q1 = q1
  q2 = q2
  Ids <- MCIds
  Malformed <- MCMalformed
  Keys <- MCKeys
  KeyOf <- MCKeyOf
  Queries <- MCQueries
  MaxWrites = 3
  MaxSent = 2
SYMMETRY RequestSymmetry
INVARIANTS IInv MonotonicReads OnlyConnectionsFail
\* Every request is answered and MaxWrites is reached.
CHECK_DEADLOCK FALSE
