----------------------------- MODULE SplitPoint -----------------------------
(***************************************************************************)
(* Where mdb_page_split cuts a page in two (mdb.c), as an operator on the  *)
(* sizes of the nodes; BTree splits its pages there.                       *)
(***************************************************************************)
EXTENDS Integers, Sequences, FiniteSetsExt

CONSTANTS PageRoom,   \* pmax: me_psize - PAGEHDRSZ
          KeyThresh   \* keythresh: me_psize >> 7

RECURSIVE Total(_)
Total(sizes) == IF sizes = <<>> THEN 0 ELSE Head(sizes) + Total(Tail(sizes))

\* sizes: those of the nodes with the new one at index new, counted from 0.
\* The cut is in the middle of the old ones or, on a page of few or large
\* nodes, where they stop to fit in one page, searched for from the end that
\* the new one is at.
SplitIndex(sizes, leaf, new) ==
  LET n == Len(sizes) - 1
      half == (n + 1) \div 2
      up == new <= half \/ new >= n
      k  == IF ~up THEN half - 1
            ELSE IF new >= n THEN n ELSE half + 1 + (IF leaf THEN 1 ELSE 0)
      run == IF up THEN [i \in 1 .. k |-> i - 1] ELSE [i \in 1 .. n - k |-> n + 1 - i]
      size(j) == Total([i \in 1 .. j |-> sizes[run[i] + 1]])
      stop == Min({j \in DOMAIN run : size(j) > PageRoom} \cup {Len(run)})
  IN  IF n < KeyThresh \/ sizes[new + 1] > PageRoom \div 16 \/ new >= n
      THEN run[stop] + (IF up THEN 0 ELSE 1)
      ELSE half

\* The nodes from cut on go to the new page.
Halves(sizes, cut) == <<SubSeq(sizes, 1, cut), SubSeq(sizes, cut + 1, Len(sizes))>>
=============================================================================
