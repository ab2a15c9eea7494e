---------------------------- MODULE MCNestedTxn ----------------------------
(***************************************************************************)
(* Model values for NestedTxn, which tells neither leaves nor values apart.*)
(***************************************************************************)
EXTENDS NestedTxn, TLC

Symmetry == Permutations(Leaf) \cup Permutations(Val)
=============================================================================
