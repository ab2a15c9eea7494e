----------------------------- MODULE MCHandles -----------------------------
(* Three transactions, enough for a parent, a child and another writer.    *)
EXTENDS Handles, TLC

CONSTANTS t1, t2, t3, c1

MCTxns == {t1, t2, t3}
Symmetry == Permutations(MCTxns)
=============================================================================
