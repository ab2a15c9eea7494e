---------------------------- MODULE NestedStore ----------------------------
(***************************************************************************)
(* What nested write transactions promise: each sees the store as its      *)
(* parent left it, a commit hands its store to the parent, or to everyone, *)
(* and an abort leaves the parent as it was.  Module NestedTxn implements  *)
(* this specification.                                                     *)
(***************************************************************************)
EXTENDS Naturals, Sequences

CONSTANTS Leaf, Val,
          NoVal      \* what a key without a value has

VARIABLES store,     \* what is committed
          stack      \* the store as each transaction sees it, the top-level one first

vars == <<store, stack>>

Stores == [Leaf -> Val \cup {NoVal}]
Broken == [n \in Leaf |-> "MDB_TXN_ERROR"]   \* after a failed operation: nothing but to abort

\* What the last transaction of stack s sees.
Seen(s)     == IF s = <<>> THEN store ELSE s[Len(s)]
Below(s, l) == SubSeq(s, 1, l - 1)

Init == store \in Stores /\ stack = <<>>

Begun(s) == {Append(s, m) : m \in {Seen(s)} \ {Broken}}

\* A put or a deletion, or a drop of everything, or a failure.
Written(s) ==
  LET N == Len(s)
      m == s[N]
  IN  IF s = <<>> \/ m = Broken THEN {}
      ELSE {[s EXCEPT ![N] = x] : x \in {[m EXCEPT ![n] = v] : n \in Leaf, v \in Val \cup {NoVal}}
                                        \cup {[n \in Leaf |-> NoVal], Broken}}

\* With the transactions above it.
Aborted(s) == {Below(s, l) : l \in 1 .. Len(s)}

\* Into its parent, which is broken if that fails.
Committed(s) == {Append(Below(s, l - 1), m) : l \in 2 .. Len(s), m \in {Seen(s)} \ {Broken}}
                \cup {Append(Below(s, l - 1), Broken) : l \in 2 .. Len(s)}

Next ==
  LET s == stack
  IN  \/ UNCHANGED store /\ stack' \in Begun(s) \cup Written(s) \cup Aborted(s) \cup Committed(s)
      \/ s # <<>> /\ Seen(s) # Broken /\ store' = Seen(s) /\ stack' = <<>>

Spec == Init /\ [][Next]_vars

-----------------------------------------------------------------------------
(* The steps by the calls that make them.                                  *)

\* The last transaction has m now, or it failed.
Write(m) == /\ store' = store
            /\ \E x \in {m, Broken} : stack' = [stack EXCEPT ![Len(stack)] = x]

\* Transaction l is ended, and what is in it: what the last one has is gone, or
\* goes to the parent of l, or to everyone.
Abort(l)  == store' = store /\ stack' = Below(stack, l)
Commit(l) == /\ store' = IF l = 1 THEN Seen(stack) ELSE store
             /\ stack' = IF l = 1 THEN <<>> ELSE Append(Below(stack, l - 1), Seen(stack))
=============================================================================
