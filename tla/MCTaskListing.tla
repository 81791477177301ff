--------------------------- MODULE MCTaskListing ----------------------------
(* Model values for checking TaskListing with TLC.                         *)
EXTENDS TaskListing, TLC

CONSTANTS r1, r2, r3, r4

(* Around each boundary: below one, the last pages, the sign bit and the   *)
(* width of the offset, and the largest int.                               *)
Pages == {-1, 0, 1, 2, 3, 4, 5, 8, 9, 10, 16, 17, 18, 127, 1000}

Symmetry == Permutations(Rows)
=============================================================================
