----------------------------- MODULE MCExampleApi -----------------------------
EXTENDS ExampleApi, TLC

CONSTANTS aLower, aUpper, b, malformed, q1, q2

(* Ids that differ in case only have one key in DynamoDB.                   *)
MCIds == {aLower, aUpper, b}
MCKeys == {1, 2}
MCKeyOf == [i \in MCIds |-> IF i = b THEN 2 ELSE 1]
MCMalformed == {malformed}

(* Requests are interchangeable, and no property is a liveness property.    *)
MCQueries == {q1, q2}
RequestSymmetry == Permutations(MCQueries)
================================================================================
