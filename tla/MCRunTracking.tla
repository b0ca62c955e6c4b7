--------------------------- MODULE MCRunTracking ---------------------------
(* TLC instances of RunTracking: calls, dates and column lists are         *)
(* interchangeable.                                                        *)
EXTENDS RunTracking, TLC

AllSymmetry == Permutations(Call) \cup Permutations(Date) \cup Permutations(Columns)
=============================================================================
