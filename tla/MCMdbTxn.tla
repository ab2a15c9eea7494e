------------------------------ MODULE MCMdbTxn ------------------------------
(***************************************************************************)
(* Model values for MdbTxn, with its inductive invariant.  Nothing tells   *)
(* one reader from another, so their permutations are a symmetry.          *)
(***************************************************************************)
EXTENDS MdbTxnInv, TLC

CONSTANTS r1, r2

Symmetry == Permutations(Readers)

\* RecoverableFaults, step by step: all faults, but no power loss while the disk
\* has the meta page of a commit that failed.
RecoverableNext ==
    \/ \E r \in Readers : ReaderStep(r)
    \/ WriterStep
    \/ WriterDies
    \/ FatalShutdown
    \/ (\A i \in 0 .. 1 : dmetas[i].txnid <= metas[i].txnid) /\ PowerLoss

RecoverableSpec == Init /\ [][RecoverableNext]_vars
=============================================================================
