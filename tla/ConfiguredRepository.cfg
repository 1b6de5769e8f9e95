\* Three keys, so that pages of one, two and three items occur, and writes in
\* front of, at and behind the cursor of a query; one query, as queries only read.
\* Three writes are two items to page through and one written meanwhile.
SPECIFICATION ConfiguredSpec
CONSTANTS
  aLower = aLower
  aUpper = aUpper
  b = b
  c = c
  Ids <- MCIds
  KeyOf <- MCKeyOf
  KeyCount = 3
  Queries = {q1}
  MaxWrites = 3
INVARIANTS IInv OnlyUpsertBreaks NoOlderDescription MapInv
PROPERTIES BothImplementRepository BothEnd
\* The query has ended and MaxWrites is reached.
CHECK_DEADLOCK FALSE
