--------------------------- MODULE MCVecCollector ---------------------------
\* VecCollector for TLC: the labels are interchangeable.
EXTENDS VecCollector, TLC

LabelSymmetry == Permutations(Labels)
=============================================================================
