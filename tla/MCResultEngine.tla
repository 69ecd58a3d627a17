--------------------------- MODULE MCResultEngine ---------------------------
(* A small target: a region of two cells, and one of a single cell.        *)
EXTENDS ResultEngine, TLC

MCRegions == {0, 8}
MCSizeOf == [b \in MCRegions |-> IF b = 0 THEN 2 ELSE 1]

\* All of the target, and a range that cuts the first region and does not touch
\* the other.
MCRanges == {<<0, 9>>, <<1, 2>>}

\* No property names a type, and the engine only compares them.
TypeSymmetry == Permutations(Types)
=============================================================================
