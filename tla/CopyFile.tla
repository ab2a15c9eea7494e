------------------------------ MODULE CopyFile ------------------------------
(***************************************************************************)
(* What a compacting copy promises of the file it writes: its pages come   *)
(* in the order of their numbers, the page with number n at the place n,   *)
(* and a copy that returns success has written all of them.                *)
(***************************************************************************)
EXTENDS Naturals, Sequences

VARIABLES
    out,    \* the pages in the file
    size,   \* the number of pages that the copy has got so far
    ret     \* the result

filevars == <<out, size, ret>>

Init == out = <<>> /\ size \in Nat /\ ret = "none"

Grow ==
    /\ ret = "none"
    /\ size' \in Nat /\ size' > size
    /\ UNCHANGED <<out, ret>>

\* What write() adds continues the file.
Extend ==
    /\ ret = "none"
    /\ \E n \in (Len(out) + 1)..size : out' = [i \in 1..n |-> i - 1]
    /\ UNCHANGED <<size, ret>>

Return ==
    /\ ret = "none"
    /\ ret' \in {"ok", "failed"}
    /\ ret' = "ok" => Len(out) = size
    /\ UNCHANGED <<out, size>>

Next == Grow \/ Extend \/ Return

Spec == Init /\ [][Next]_filevars
=============================================================================
