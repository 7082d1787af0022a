------------------------------ MODULE MCHashMap ------------------------------
(* HashMap with three keys, two of which share a bucket in every even array, *)
(* and thresholds scaled down so that each rate of growth occurs.            *)
EXTENDS HashMapProps

CONSTANTS a, b, c

MCKeys == {a, b, c}
MCHash == [k \in MCKeys |-> IF k = a THEN 1 ELSE IF k = b THEN 3 ELSE 6]
=============================================================================
