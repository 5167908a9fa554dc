--------------------------- MODULE ExpoHistogramMC ---------------------------
(* Small instances of ExpoHistogram for TLC: positions at and next to       *)
(* boundaries on both sides of 1, and the ends of the range of float64.     *)
EXTENDS ExpoHistogram

MCPositions == {-1074 * Unit, -5, 0, 1, 3, 4, 6, 1024 * Unit - 1}
MCNegPositions == {-2, 9}
=============================================================================
