--------------------------- MODULE MC_CoverageIndex ---------------------------
EXTENDS CoverageIndex

CONSTANTS r1, r2, r3, r4, d1, d2, d3, i1, i2, a, b

(* r3 names a dataset coverage.xml does not hold, r4 is not a region.    *)
MCRegionSet == (r1 :> d1) @@ (r2 :> d2) @@ (r3 :> d3)
MCPriorityEntries ==
    {<<r>> : r \in {r1, r2, r3, r4}} \cup {<<r, q>> : r, q \in {r1, r2, r3, r4}}
(* Ranges around the scales 1 and 2, with and without a MERCATOR range,  *)
(* and a dataset whose rectangle is zero.                                  *)
MCXmlConfs ==
    {[box |-> TRUE, lo |-> 0, hi |-> 1, proj |-> "none"],
     [box |-> TRUE, lo |-> 1, hi |-> 2, proj |-> "none"],
     [box |-> TRUE, lo |-> 2, hi |-> 3, proj |-> "MERCATOR"],
     [box |-> FALSE, lo |-> 0, hi |-> 3, proj |-> "none"]}
MCShpConfs == {[shp |-> FALSE, lo |-> 0, hi |-> 0], [shp |-> TRUE, lo |-> 0, hi |-> 1]}
====
