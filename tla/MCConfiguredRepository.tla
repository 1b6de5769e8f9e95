---------------------- MODULE MCConfiguredRepository ----------------------
EXTENDS ConfiguredRepository

CONSTANTS aLower, aUpper, b, c

(* Two ids that differ in case only, and two others.                        *)
MCIds == {aLower, aUpper, b, c}
MCKeyOf == [i \in MCIds |-> CASE i = b -> 2 [] i = c -> 3 [] OTHER -> 1]
================================================================================
