------------------------------ MODULE MCBTree ------------------------------
EXTENDS BTree
MCKey == 1 .. 5
MCVal == {"a", "b"}
MCKeySize == <<5, 1, 5, 5, 5>>
MCValSize == [v \in MCVal |-> IF v = "a" THEN 0 ELSE 2]
Ascending(n) == [i \in 1 .. n |-> <<i, "a">>]
MCLoads == {[puts |-> Ascending(5), committed |-> TRUE,  room |-> 12],
            [puts |-> Ascending(3), committed |-> TRUE,  room |-> 7],
            [puts |-> Ascending(3), committed |-> FALSE, room |-> 5]}

\* States are the same up to the numbers of the pages: a page stands for its
\* place in the tree, and the stack of a cursor for the indices that lead to it,
\* as long as they do.
RECURSIVE Shape(_)
Shape(p) == LET pg == tree.pages[p]
            IN  <<p \in tree.dirty,
                  IF pg.leaf THEN pg.n
                  ELSE [i \in DOMAIN pg.n |-> <<pg.n[i].k, Shape(pg.n[i].x)>>]>>
Sizes == LET live == PageSet(tree)
             loose == ToSet(tree.loose)
         IN  <<Cardinality(live), Len(tree.loose), Cardinality(loose), Cardinality(tree.freed),
               Cardinality(live \cup loose \cup tree.freed)>>
View ==
  <<IF tree.root = NoPage THEN <<>> ELSE Shape(tree.root), Sizes,
    tree.depth, tree.entries, tree.next, tree.room, lost,
    [c \in DOMAIN mc |-> [mc[c] EXCEPT !.pg = StackOf(c)]]>>
=============================================================================
