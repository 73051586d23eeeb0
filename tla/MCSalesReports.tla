--------------------------- MODULE MCSalesReports ---------------------------
EXTENDS SalesReports, TLC

CONSTANTS s1, s2, v1

MCTrackSale == {s1, s2}
MCAlbumSale == {v1}
MCAmount    == [s \in MCTrackSale \cup MCAlbumSale |-> IF s = v1 THEN 500 ELSE 99]

(* Months of two and three days, which do not begin with weeks of three.    *)
MCMonthFirst == [m \in -2 .. 3 |-> CASE m = -2 -> -5 [] m = -1 -> -2 [] m = 0 -> 0
                                     [] m = 1 -> 2 [] m = 2 -> 5 [] m = 3 -> 7]

MCSymmetry == Permutations(MCTrackSale)

=============================================================================
