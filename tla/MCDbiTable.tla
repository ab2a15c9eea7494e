----------------------------- MODULE MCDbiTable -----------------------------
EXTENDS DbiTable, TLC
CONSTANTS a, b, k1
Symmetry == Permutations({a, b})
=============================================================================
