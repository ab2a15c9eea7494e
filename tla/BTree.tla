------------------------------- MODULE BTree -------------------------------
(***************************************************************************)
(* The B+tree of one database inside a write transaction (mdb.c), and the  *)
(* cursors that the transaction tracks (mt_cursors): every operation that  *)
(* moves nodes between pages repairs the stacks of the other cursors.      *)
(*                                                                         *)
(* A page is [leaf, n]: its kind and the sequence of its nodes; a node is  *)
(* [k, x]: its key and its data, or the page it leads to.  Node 0 of a     *)
(* branch page has no key.  Indices (mc_ki, mn_..) count from 0, as in the *)
(* code.  A page pointer is the page's number: memory is not told apart    *)
(* from the number, since one transaction has one copy of a page.          *)
(*                                                                         *)
(* The C functions that change the tree call each other and work on        *)
(* cursors by reference, so each is an operator from a state m of the tree *)
(* and the cursors to the next one; the actions at the end apply them.     *)
(* m.cur holds the cursors: those of the caller, then the one on the stack *)
(* of mdb_put or mdb_del, then the mn's of the running functions; m.trk    *)
(* says which of them mt_cursors lists.                                    *)
(***************************************************************************)
EXTENDS SplitPoint, FiniteSets, SequencesExt

CONSTANTS Key, Val,        \* Key: naturals above 0, ordered by <
          Cursors,         \* 1 .. n
          KeySize, ValSize,\* bytes of a key, of a value
          NodeHdr,         \* NODESIZE + sizeof(indx_t)
          FillThreshold,   \* a leaf is to hold that many thousandths of its room
          Levels,          \* CURSOR_STACK
          Loads            \* what was put before; see Loaded

VARIABLES tree,  \* the database record and the pages
          mc,    \* the cursors of the caller
          lost,  \* the cursors whose last MDB_SET missed (not in the code)
          ret    \* the operation just done and what it returned

vars == <<tree, mc, lost, ret>>

NoKey  == 0
NoPage == 0                 \* P_INVALID, and a null mc_pg
Depths == 0 .. Levels - 1

LeafSize(k, v) == NodeHdr + KeySize[k] + ValSize[v]
BranchSize(k)  == NodeHdr + (IF k = NoKey THEN 0 ELSE KeySize[k])

\* A node is no larger than half a page, or its data goes to an overflow page,
\* which this module leaves out; a branch page has room for three nodes.
ASSUME SizeAssumption ==
  /\ \A k \in Key : NodeHdr + 2 * BranchSize(k) <= PageRoom
  /\ \A k \in Key : \E v \in Val : 2 * LeafSize(k, v) <= PageRoom
Fits(k, v) == 2 * LeafSize(k, v) <= PageRoom

-----------------------------------------------------------------------------
(* Pages, nodes and cursors.                                               *)

NodeSize(leaf, nd) == IF leaf THEN LeafSize(nd.k, nd.x) ELSE BranchSize(nd.k)
NodeSizes(leaf, s) == [i \in DOMAIN s |-> NodeSize(leaf, s[i])]
SizeOf(leaf, s)  == Total(NodeSizes(leaf, s))
SizeLeft(m, p)   == PageRoom - SizeOf(m.pages[p].leaf, m.pages[p].n)
PageFill(m, p)   == (1000 * SizeOf(m.pages[p].leaf, m.pages[p].n)) \div PageRoom
IsLeaf(m, p)     == m.pages[p].leaf
NumKeys(m, p)    == Len(m.pages[p].n)
NodePtr(m, p, i) == m.pages[p].n[i + 1]

Cursor0 == [pg |-> [l \in Depths |-> NoPage], ki |-> [l \in Depths |-> 0],
            snum |-> 0, top |-> 0, init |-> FALSE, eof |-> FALSE, del |-> FALSE]

PgAt(m, c) == m.cur[c].pg[m.cur[c].top]
KiAt(m, c) == m.cur[c].ki[m.cur[c].top]
SetKi(m, c, i) == [m EXCEPT !.cur[c].ki[m.cur[c].top] = i]
SetPg(m, c, p) == [m EXCEPT !.cur[c].pg[m.cur[c].top] = p]
SetRc(m, rc)   == [m EXCEPT !.rc = rc]
SetInit(m, c, init, eof) == [m EXCEPT !.cur[c].init = init, !.cur[c].eof = eof]

\* F of the result of a call; and if (rc) return rc.
With(a, F(_)) == F(a)
Then(a, F(_)) == IF a.rc = "SUCCESS" THEN F(a) ELSE a

\* Every tracked cursor but those in C, as F changes it.
AllCursors(m, F(_)) == SubSeq([i \in DOMAIN m.cur |-> F(i)], 1, Len(m.cur))
Adjust(m, C, F(_)) ==
  [m EXCEPT !.cur = AllCursors(m, LAMBDA i : IF i \in m.trk \ C THEN F(m.cur[i])
                                             ELSE m.cur[i])]

\* A cursor on the stack of a C function: Frame(m) is its place in m.cur.
Frame(m) == Len(m.cur) + 1
Push(m, rec, tracked) == [m EXCEPT !.cur = Append(@, rec),
                                   !.trk = IF tracked THEN @ \cup {Frame(m)} ELSE @]
Track(m, f)   == [m EXCEPT !.trk = @ \cup {f}]
Untrack(m, f) == [m EXCEPT !.trk = @ \ {f}]
Pop(m) == [m EXCEPT !.cur = Front(@), !.trk = @ \ {Len(m.cur)}]

CursorPop(rec) == [rec EXCEPT !.snum = @ - 1,
                              !.top  = IF rec.snum > 1 THEN @ - 1 ELSE @,
                              !.init = @ /\ rec.snum > 1]
CursorPush(rec, p) == [rec EXCEPT !.top = rec.snum, !.snum = @ + 1,
                                  !.pg[rec.snum] = p, !.ki[rec.snum] = 0]

-----------------------------------------------------------------------------
(* Allocating, touching and releasing pages.                               *)

\* A page released in this transaction first, else a new one; m.np is its number.
PageAlloc(m) ==
  IF m.loose # <<>>
  THEN [m EXCEPT !.np = Head(m.loose), !.loose = Tail(@)]
  ELSE [m EXCEPT !.np = m.next, !.next = @ + 1]

PageNew(m, leaf) ==
  LET a == PageAlloc(m)
  IN  [a EXCEPT !.pages = (a.np :> [leaf |-> leaf, n |-> <<>>]) @@ @,
                !.dirty = @ \cup {a.np}]

PageLoose(m, p) == IF p \in m.dirty THEN [m EXCEPT !.loose = <<p>> \o @]
                   ELSE [m EXCEPT !.freed = @ \cup {p}]

\* The page at the cursor's top gets a new number in its parent and in the
\* cursors, unless this transaction has copied it already.
PageTouch(m, c) ==
  LET p == PgAt(m, c)
      t == m.cur[c].top
      a == PageAlloc(m)
      up == IF t = 0 THEN [a EXCEPT !.root = a.np]
            ELSE [a EXCEPT !.pages[a.cur[c].pg[t-1]].n[a.cur[c].ki[t-1] + 1].x = a.np]
      new == [up EXCEPT !.pages = (a.np :> m.pages[p]) @@ @,
                        !.dirty = @ \cup {a.np}, !.freed = @ \cup {p}]
  IN  IF p \in m.dirty THEN m
      ELSE Adjust(SetPg(new, c, a.np), {c},
             LAMBDA r : IF r.snum >= m.cur[c].snum /\ r.pg[t] = p
                        THEN [r EXCEPT !.pg[t] = a.np] ELSE r)

\* Mutant of CursorTouch: only the leaf is copied.
CursorTouchLeaf(m, c) == PageTouch(m, c)

CursorTouch(m, c) ==
  LET level(a, l) == PageTouch([a EXCEPT !.cur[c].top = l], c)
      s == m.cur[c].snum
  IN  [FoldLeft(level, m, [i \in 1 .. s |-> i - 1])
        EXCEPT !.cur[c].top = IF s = 0 THEN 0 ELSE s - 1]

-----------------------------------------------------------------------------
(* Nodes of the page at the cursor's top.                                  *)

\* The least index whose key is not below k, or the number of nodes.
NodeSearch(m, p, k) ==
  LET low == IF IsLeaf(m, p) THEN 0 ELSE 1
      at  == {i \in low .. NumKeys(m, p) - 1 : NodePtr(m, p, i).k >= k}
  IN  IF NumKeys(m, p) <= low THEN 0
      ELSE IF at = {} THEN NumKeys(m, p) ELSE Min(at)
Exact(m, p, i, k) == i < NumKeys(m, p) /\ NodePtr(m, p, i).k = k

NodeAdd(m, c, i, nd) ==
  LET p == PgAt(m, c)
  IN  IF SizeLeft(m, p) < NodeSize(IsLeaf(m, p), nd) THEN SetRc(m, "PAGE_FULL")
      ELSE [m EXCEPT !.pages[p].n = InsertAt(@, i + 1, nd)]

NodeDel(m, c) == [m EXCEPT !.pages[PgAt(m, c)].n = RemoveAt(@, KiAt(m, c) + 1)]

-----------------------------------------------------------------------------
(* Walking the tree.                                                       *)

\* From the page at the top down to a leaf: to the first or the last one, or
\* to the one where k belongs.
RECURSIVE PageSearchRoot(_, _, _, _)
PageSearchRoot(m, c, how, k) ==
  LET p == PgAt(m, c)
      r == m.cur[c]
      at == NodeSearch(m, p, k)
      i == CASE how = "first" -> 0
             [] how = "last"  -> NumKeys(m, p) - 1
             [] at >= NumKeys(m, p) \/ NumKeys(m, p) = 1 -> NumKeys(m, p) - 1
             [] OTHER -> IF Exact(m, p, at, k) THEN at ELSE at - 1
  IN  IF IsLeaf(m, p) THEN SetInit(m, c, TRUE, FALSE)
      ELSE PageSearchRoot(
             IF how = "last" /\ r.init /\ r.ki[r.top] = i
             THEN [m EXCEPT !.cur[c].top = r.snum, !.cur[c].snum = @ + 1]
             ELSE [m EXCEPT !.cur[c] =
                     CursorPush([r EXCEPT !.ki[r.top] = i], NodePtr(m, p, i).x)],
             c, how, k)

PageSearchLowest(m, c) ==
  LET r == m.cur[c]
  IN  PageSearchRoot([m EXCEPT !.cur[c] =
                        CursorPush([r EXCEPT !.ki[r.top] = 0],
                                   NodePtr(m, PgAt(m, c), 0).x)], c, "first", NoKey)
\* The lowest key under the page at the top of rec.
LowestKey(m, rec) ==
  LET l == PageSearchLowest(Push(m, rec, FALSE), Frame(m))
  IN  NodePtr(m, PgAt(l, Frame(m)), 0).k

PageSearch(m, c, how, k) ==
  IF m.root = NoPage THEN SetRc(m, "NOTFOUND")
  ELSE PageSearchRoot([m EXCEPT !.cur[c].pg[0] = m.root, !.cur[c].snum = 1,
                                !.cur[c].top = 0, !.rc = "SUCCESS"], c, how, k)

\* To the next or the previous leaf; the stack is left alone if there is none.
RECURSIVE CursorSibling(_, _, _)
CursorSibling(m, c, right) ==
  LET r == CursorPop(m.cur[c])
      i == r.ki[r.top]
      in == [m EXCEPT !.cur[c] = r]
      edge == IF right THEN i + 1 >= NumKeys(m, r.pg[r.top]) ELSE i = 0
      back(up) == [up EXCEPT !.cur[c].snum = @ + 1, !.cur[c].top = @ + 1]
      down(up) ==
        LET p == NodePtr(up, PgAt(up, c), KiAt(up, c)).x
            to == [up EXCEPT !.cur[c] = CursorPush(@, p)]
        IN  IF right THEN to ELSE SetKi(to, c, NumKeys(m, p) - 1)
  IN  IF m.cur[c].snum < 2 THEN SetRc(m, "NOTFOUND")
      ELSE With(IF edge THEN CursorSibling(in, c, right)
                ELSE SetRc(SetKi(in, c, IF right THEN i + 1 ELSE i - 1), "SUCCESS"),
                LAMBDA up : IF up.rc = "SUCCESS" THEN down(up) ELSE back(up))

-----------------------------------------------------------------------------
(* Splitting a page.  nd is the node to insert at the cursor, append and   *)
(* replace are MDB_APPEND and MDB_SPLIT_REPLACE.                           *)

\* The stack of the cursor moves down a level under the new root pp.
UnderRoot(rec, pp) ==
  [rec EXCEPT !.pg = [l \in Depths |-> IF l = 0 THEN pp ELSE rec.pg[l - 1]],
              !.ki = [l \in Depths |-> IF l = 0 THEN 0 ELSE rec.ki[l - 1]],
              !.snum = @ + 1, !.top = @ + 1]

\* rec takes over the levels of the stack in L from the cursor src.
Take(rec, src, L) == [rec EXCEPT !.pg = [l \in Depths |-> IF l \in L THEN src.pg[l] ELSE @[l]],
                                 !.ki = [l \in Depths |-> IF l \in L THEN src.ki[l] ELSE @[l]]]

\* A split s: its cursor c and the page mp, which was the root or not, the
\* nodes all of mp with the new one at index new, and cut, the first of them
\* that goes to the right sibling; then also rp, the sibling, f, the place of
\* the cursor mn, and above: whether the parent page has split as well.

\* A new root over the page, if it was the root.
SplitRoot(m, s) ==
  IF ~s.root THEN m
  ELSE With(PageNew(m, FALSE), LAMBDA a :
         [a EXCEPT !.pages[a.np].n = <<[k |-> NoKey, x |-> s.mp]>>,
                   !.root = a.np, !.depth = @ + 1,
                   !.cur[s.c] = UnderRoot(@, a.np)])

\* mn is the cursor c at the right sibling.
SplitMn(m, s, rp) ==
  LET r == m.cur[s.c]
  IN  Push(m, [r EXCEPT !.pg[r.top] = rp, !.ki[r.top - 1] = @ + 1], FALSE)

\* mn and c are on different parents now: c follows.
Apart(m, s, pt) == LET r == m.cur[s.c]
                   IN  /\ m.cur[s.f].pg[pt] # r.pg[pt]
                       /\ r.ki[pt] >= NumKeys(m, r.pg[pt])
SplitParent(m, s) ==
  LET pt == m.cur[s.c].top - 1
      mn == m.cur[s.f]
      on == [m EXCEPT !.cur[s.c] = [Take(@, mn, 0 .. pt - 1) EXCEPT !.pg[pt] = mn.pg[pt]]]
  IN  IF ~(s.above /\ m.rc = "SUCCESS" /\ Apart(m, s, pt)) THEN m
      ELSE IF mn.ki[pt] > 0 THEN [on EXCEPT !.cur[s.c].ki[pt] = mn.ki[pt] - 1]
      ELSE SetRc(CursorSibling([on EXCEPT !.cur[s.c].ki[pt] = 0], s.c, FALSE), "SUCCESS")

\* The nodes are shared out.
SplitNodes(m, s) ==
  LET left  == Halves(s.all, s.cut)[1]
      right == Halves(s.all, s.cut)[2]
      bare  == IF s.leaf THEN right ELSE [right EXCEPT ![1].k = NoKey]
  IN  IF SizeOf(s.leaf, left) > PageRoom \/ SizeOf(s.leaf, bare) > PageRoom
      THEN SetRc(m, "PAGE_FULL")
      ELSE [m EXCEPT !.pages[s.rp].n = bare, !.pages[s.mp].n = left]

\* The cursor goes where the new node is.
SplitCursor(m, s) ==
  LET mn == m.cur[s.f]
      t  == m.cur[s.c].top
      on == [m EXCEPT !.cur[s.c].pg[t] = s.rp, !.cur[s.c].ki[t] = s.new - s.cut,
                      !.cur[s.c].ki[t - 1] = @ + 1]
  IN  IF s.append
      THEN [m EXCEPT !.cur[s.c] = [Take(@, [pg |-> @.pg, ki |-> mn.ki], 0 .. t - 1)
                                     EXCEPT !.pg[t] = s.rp, !.ki[t] = 0]]
      ELSE IF s.new < s.cut THEN [m EXCEPT !.cur[s.c].pg[t] = s.mp, !.cur[s.c].ki[t] = s.new]
      ELSE IF Apart(on, s, t - 1) THEN [on EXCEPT !.cur[s.c] = Take(@, mn, 0 .. t - 1)]
      ELSE on

\* The other cursors follow their nodes.
SplitOthers(m, s) ==
  LET mn == m.cur[s.f]
      r1 == m.cur[s.c]
      t  == r1.top
      nkeys == NumKeys(m, s.mp)
      rooted(r) == [UnderRoot(r, r1.pg[0]) EXCEPT !.ki[0] = IF r.ki[0] >= nkeys THEN 1 ELSE 0]
      node(r) ==
        LET i == IF r.ki[t] >= s.new /\ ~s.replace THEN r.ki[t] + 1 ELSE r.ki[t]
        IN  IF i < nkeys THEN [r EXCEPT !.ki[t] = i]
            ELSE Take([r EXCEPT !.pg[t] = s.rp, !.ki[t] = i - nkeys], mn, 0 .. t - 1)
      shift(r) ==
        IF r.top >= t /\ r.pg[t] = s.mp THEN node(r)
        ELSE IF ~s.above /\ r.top >= t - 1 /\ r.pg[t - 1] = r1.pg[t - 1]
                         /\ r.ki[t - 1] >= r1.ki[t - 1]
        THEN [r EXCEPT !.ki[t - 1] = @ + 1]
        ELSE r
  IN  Adjust(m, {s.c, s.f}, LAMBDA r :
        IF ~r.init \/ (s.root /\ r.pg[0] # s.mp) THEN r
        ELSE shift(IF s.root THEN rooted(r) ELSE r))

RECURSIVE PageSplit(_, _, _, _, _)

\* The separator goes to the parent, which may have to split in turn.
SplitInsert(m, s, rp) ==
  LET f   == Len(m.cur)
      top == m.cur[f].top
      sep == [k |-> s.all[s.cut + 1].k, x |-> rp]
      full == SizeLeft(m, m.cur[f].pg[top - 1]) < BranchSize(sep.k)
      up  == [m EXCEPT !.cur[f].top = @ - 1]
      share(a, s1) == Then(SplitNodes(SplitParent(a, s1), s1),
                           LAMBDA b : SplitOthers(SplitCursor(b, s1), s1))
  IN  share(IF full
            THEN Untrack(PageSplit(Track([up EXCEPT !.cur[f].snum = @ - 1], f),
                                   f, sep, FALSE, FALSE), f)
            ELSE [NodeAdd(up, f, KiAt(up, f), sep) EXCEPT !.cur[f].top = @ + 1],
            s @@ [rp |-> rp, f |-> f, above |-> full])

PageSplit(m, c, nd, append, replace) ==
  LET mp  == PgAt(m, c)
      new == KiAt(m, c)
      leaf == IsLeaf(m, mp)
      all == InsertAt(m.pages[mp].n, new + 1, nd)
      split == [c |-> c, mp |-> mp, root |-> m.cur[c].top = 0, leaf |-> leaf,
                all |-> all, new |-> new, append |-> append, replace |-> replace,
                cut |-> IF append THEN new ELSE SplitIndex(NodeSizes(leaf, all), leaf, new)]
      do(a, s) == SplitInsert(SplitMn(SplitRoot(a, s), s, a.np), s, a.np)
  IN  Pop(do(PageNew(m, leaf), split))

\* A branch node gets another key, in place or, for want of room, by a split.
UpdateKey(m, c, k) ==
  LET p  == PgAt(m, c)
      nd == NodePtr(m, p, KiAt(m, c))
      delta == BranchSize(k) - BranchSize(nd.k)
  IN  IF delta > 0 /\ SizeLeft(m, p) < delta
      THEN PageSplit(NodeDel(m, c), c, [nd EXCEPT !.k = k], FALSE, TRUE)
      ELSE [m EXCEPT !.pages[p].n[KiAt(m, c) + 1].k = k]

-----------------------------------------------------------------------------
(* Rebalancing after a deletion: s and d are the cursors csrc and cdst.    *)

\* Mutant of UpdateSeparator: the parent keeps its key.
UpdateSeparatorNot(m, c) == m

\* The parent's key for the page at the top of c becomes that of its node 0,
\* which loses its own on a branch page.
UpdateSeparator(m, c) ==
  LET r == m.cur[c]
      p == PgAt(m, c)
      up == Push(m, [r EXCEPT !.snum = @ - 1, !.top = @ - 1], TRUE)
  IN  Then(IF r.ki[r.top - 1] = 0 THEN m
           ELSE Pop(UpdateKey(up, Frame(m), NodePtr(m, p, 0).k)),
           LAMBDA a : IF IsLeaf(a, p) THEN a ELSE [a EXCEPT !.pages[p].n[1].k = NoKey])

\* Node 0 of a branch page gets the key it stands for.
FirstKeyed(m, c) ==
  IF KiAt(m, c) # 0 \/ IsLeaf(m, PgAt(m, c)) THEN m
  ELSE Pop(UpdateKey(Push(m, m.cur[c], FALSE), Frame(m), LowestKey(m, m.cur[c])))

\* The cursors on the node that moved, and those on the nodes it moved past.
MoveCursors(m, s, d, fromleft) ==
  LET st == m.cur[s].top
      ps == PgAt(m, s)
      pd == PgAt(m, d)
      is == KiAt(m, s)
      id == KiAt(m, d)
      moved(r, di) == [r EXCEPT !.pg[st] = pd, !.ki[st] = id, !.ki[st - 1] = @ + di]
      onleft(r) ==
        IF r.pg[st] = pd /\ r.ki[st] >= id THEN [r EXCEPT !.ki[st] = @ + 1]
        ELSE IF r.pg[st] = ps /\ r.ki[st] = is THEN moved(r, 1) ELSE r
      onright(r) ==
        IF r.pg[st] # ps THEN r
        ELSE IF r.ki[st] = 0 THEN moved(r, -1) ELSE [r EXCEPT !.ki[st] = @ - 1]
  IN  Adjust(m, {s, d}, LAMBDA r : IF ~r.init \/ r.top < st THEN r
                                   ELSE IF fromleft THEN onleft(r) ELSE onright(r))

NodeMove(m, s, d, fromleft) ==
  LET key(a) == IF KiAt(a, s) = 0 /\ ~IsLeaf(a, PgAt(a, s)) THEN LowestKey(a, a.cur[s])
                ELSE NodePtr(a, PgAt(a, s), KiAt(a, s)).k
      add(a) == With([k |-> key(a), x |-> NodePtr(a, PgAt(a, s), KiAt(a, s)).x],
                     LAMBDA nd : With(FirstKeyed(a, d), LAMBDA b : NodeAdd(b, d, KiAt(b, d), nd)))
      first(a, c) == IF KiAt(a, c) = 0 THEN UpdateSeparator(a, c) ELSE a
  IN  Then(add(PageTouch(PageTouch(m, s), d)), LAMBDA a :
        Then(first(MoveCursors(NodeDel(a, s), s, d, fromleft), s), LAMBDA b : first(b, d)))

RECURSIVE Rebalance(_, _)

\* Mutant of MergeCursors: the cursors on the pages to the right stay.
MergeCursorsOnPage(m, s, d, ps, nkeys) ==
  LET top == m.cur[s].top
  IN  Adjust(m, {s}, LAMBDA r :
        IF r.snum < m.cur[s].snum \/ r.pg[top] # ps THEN r
        ELSE [r EXCEPT !.pg[top] = PgAt(m, d), !.ki[top] = @ + nkeys,
                       !.ki[top - 1] = m.cur[d].ki[top - 1]])

\* The page ps is gone: its cursors are on the page of d, after its nkeys nodes.
MergeCursors(m, s, d, ps, nkeys) ==
  LET r1  == m.cur[s]
      top == r1.top
      fix(r) ==
        IF r.snum < r1.snum THEN r
        ELSE IF r.pg[top] = ps
        THEN [r EXCEPT !.pg[top] = PgAt(m, d), !.ki[top] = @ + nkeys,
                       !.ki[top - 1] = m.cur[d].ki[top - 1]]
        ELSE IF r.pg[top - 1] = r1.pg[top - 1] /\ r.ki[top - 1] > r1.ki[top - 1]
        THEN [r EXCEPT !.ki[top - 1] = @ - 1]
        ELSE r
  IN  Adjust(m, {s}, fix)

\* The link to the page at the top of s goes from its parent.
Unlink(m, s) ==
  LET a  == NodeDel([m EXCEPT !.cur[s].top = @ - 1], s)
      up == PgAt(a, s)
      b  == IF KiAt(a, s) = 0 THEN [a EXCEPT !.pages[up].n[1].k = NoKey] ELSE a
  IN  [b EXCEPT !.cur[s].top = @ + 1]

PageMerge(m, s, d) ==
  LET ps == PgAt(m, s)
      src == m.pages[ps].n
      nkeys == NumKeys(m, PgAt(m, d))
      all(a) == a.pages[PgAt(a, d)].n \o IF IsLeaf(a, ps) THEN src
                                        ELSE [src EXCEPT ![1].k = LowestKey(a, a.cur[s])]
      rise(a) == With(Rebalance([a EXCEPT !.cur[d] = CursorPop(@)], d), LAMBDA b :
                   With(a.cur[d].snum + b.depth - a.depth, LAMBDA n :
                     [b EXCEPT !.cur[d].snum = n, !.cur[d].top = n - 1]))
      merge(a, nodes) ==
        IF SizeOf(IsLeaf(a, ps), nodes) > PageRoom THEN SetRc(a, "PAGE_FULL")
        ELSE rise(MergeCursors(PageLoose(Unlink([a EXCEPT !.pages[PgAt(a, d)].n = nodes], s), ps),
                               s, d, ps, nkeys))
  IN  With(PageTouch(m, d), LAMBDA a : merge(a, all(a)))

\* The last node is gone: the tree is empty, and no cursor is on it any more.
EmptyRoot(m, c) ==
  LET p == m.cur[c].pg[0]
      off(r) == [r EXCEPT !.snum = 0, !.top = 0, !.init = FALSE]
  IN  Adjust([m EXCEPT !.root = NoPage, !.depth = 0, !.freed = @ \cup {p}, !.cur[c] = off(@)],
             {c}, LAMBDA r : IF r.init /\ r.pg[0] = p THEN off(r) ELSE r)

\* Mutant of CollapseRoot: the old root is forgotten.
CollapseRootLeak(m, c) ==
  LET child == NodePtr(m, m.cur[c].pg[0], 0).x
      up(r) == [r EXCEPT !.pg = [l \in Depths |-> IF l + 1 \in Depths THEN r.pg[l + 1] ELSE @[l]],
                         !.ki = [l \in Depths |-> IF l + 1 \in Depths THEN r.ki[l + 1] ELSE @[l]]]
  IN  Adjust([m EXCEPT !.root = child, !.depth = @ - 1,
                       !.cur[c] = [up(@) EXCEPT !.pg[0] = child]],
             {c}, LAMBDA r : IF r.init THEN [up(r) EXCEPT !.snum = @ - 1, !.top = @ - 1] ELSE r)

\* The only child of the root becomes the root.
CollapseRoot(m, c) ==
  LET p == m.cur[c].pg[0]
      child == NodePtr(m, p, 0).x
      up(r) == [r EXCEPT !.pg = [l \in Depths |-> IF l + 1 \in Depths THEN r.pg[l + 1] ELSE @[l]],
                         !.ki = [l \in Depths |-> IF l + 1 \in Depths THEN r.ki[l + 1] ELSE @[l]]]
  IN  Adjust([m EXCEPT !.root = child, !.depth = @ - 1, !.freed = @ \cup {p},
                       !.cur[c] = [up(@) EXCEPT !.pg[0] = child]],
             {c}, LAMBDA r : IF r.init /\ r.pg[0] = p
                             THEN [up(r) EXCEPT !.snum = @ - 1, !.top = @ - 1] ELSE r)

\* The page takes a node from a neighbour, or is merged with it; q is the
\* neighbour, on the left or not, and f the place of mn, the cursor on it.
TakeOrMerge(m, c, q, fromleft, take) ==
  LET f == Frame(m)
      r == m.cur[c]
      mn == [r EXCEPT !.ki[r.top - 1] = @ + (IF fromleft THEN -1 ELSE 1), !.pg[r.top] = q,
                      !.ki[r.top] = IF fromleft THEN NumKeys(m, q) - 1 ELSE 0]
      both == SetKi(Push(m, mn, FALSE), c, IF fromleft THEN 0 ELSE NumKeys(m, PgAt(m, c)))
      end(a) == [a EXCEPT !.cur[c].eof = FALSE]
      back == IF ~fromleft THEN KiAt(m, c)
              ELSE KiAt(m, c) + (IF take THEN 1 ELSE NumKeys(m, q))
  IN  Pop(SetKi(IF take THEN NodeMove(both, f, c, fromleft)
                ELSE end(IF ~fromleft THEN PageMerge(both, f, c)
                         ELSE With(PageMerge(Track([both EXCEPT !.cur[f].ki[r.top] = @ + 1], f),
                                             c, f),
                                   LAMBDA a : Untrack([a EXCEPT !.cur[c] = a.cur[f]], f))),
                c, back))

\* Mutant of Rebalance: the neighbour's size is not looked at.
RebalanceMerge(m, c) ==
  LET r == m.cur[c]
      p == PgAt(m, c)
      i == r.ki[r.top - 1]
      leaf == IsLeaf(m, p)
  IN  IF PageFill(m, p) >= (IF leaf THEN FillThreshold ELSE 1)
         /\ NumKeys(m, p) >= (IF leaf THEN 1 ELSE 2) THEN m
      ELSE IF r.snum >= 2
      THEN TakeOrMerge(m, c, NodePtr(m, r.pg[r.top - 1], IF i > 0 THEN i - 1 ELSE i + 1).x,
                       i > 0, FALSE)
      ELSE IF NumKeys(m, p) = 0 THEN EmptyRoot(m, c)
      ELSE IF leaf THEN m ELSE CollapseRoot(m, c)

Rebalance(m, c) ==
  LET r == m.cur[c]
      p == PgAt(m, c)
      minkeys == IF IsLeaf(m, p) THEN 1 ELSE 2
      thresh  == IF IsLeaf(m, p) THEN FillThreshold ELSE 1
      n == NumKeys(m, p)
      i == r.ki[r.top - 1]
      q == NodePtr(m, r.pg[r.top - 1], IF i > 0 THEN i - 1 ELSE i + 1).x
  IN  IF PageFill(m, p) >= thresh /\ n >= minkeys THEN m
      ELSE IF r.snum >= 2
      THEN TakeOrMerge(m, c, q, i > 0, PageFill(m, q) >= thresh /\ NumKeys(m, q) > minkeys)
      ELSE IF n = 0 THEN EmptyRoot(m, c)
      ELSE IF ~IsLeaf(m, p) /\ n = 1 THEN CollapseRoot(m, c)
      ELSE m

-----------------------------------------------------------------------------
(* Positioning a cursor.  m.rc is what the function returns.               *)

\* Mutant of AtNode: C_EOF stays.
AtNodeStale(m, c, i) == SetRc(SetInit(SetKi(m, c, i), c, TRUE, m.cur[c].eof), "SUCCESS")

AtNode(m, c, i) == SetRc(SetInit(SetKi(m, c, i), c, TRUE, FALSE), "SUCCESS")

\* set2: the leaf where k belongs is at the top of c.
SetInPage(m, c, k, range) ==
  LET p  == PgAt(m, c)
      at == NodeSearch(m, p, k)
      on == SetKi(m, c, at)
  IN  IF ~range /\ ~Exact(m, p, at, k) THEN SetRc(on, "NOTFOUND")
      ELSE IF at < NumKeys(m, p) THEN AtNode(on, c, at)
      ELSE With(CursorSibling(on, c, TRUE), LAMBDA a :
             IF a.rc = "SUCCESS" THEN AtNode(a, c, 0) ELSE [a EXCEPT !.cur[c].eof = TRUE])

\* First an initialised cursor looks at its own page.
CursorSet(m, c, k, range) ==
  LET r == m.cur[c]
      p == PgAt(m, c)
      n == NumKeys(m, p)
      key(i) == NodePtr(m, p, i).k
      rightmost == \A i \in 0 .. r.top - 1 : r.ki[i] >= NumKeys(m, r.pg[i]) - 1
      elsewhere == n > 0 /\ ~(k >= key(0) /\ k <= key(n - 1)) /\ ~(k > key(0) /\ rightmost)
                         /\ ~(k < key(0) /\ r.top = 0)
      onPage ==
        IF n = 0 THEN SetRc(SetKi(m, c, 0), "NOTFOUND")
        ELSE IF k \in {key(0), key(n - 1)} THEN AtNode(m, c, IF k = key(0) THEN 0 ELSE n - 1)
        ELSE IF k > key(n - 1) THEN SetRc(SetKi(m, c, n), "NOTFOUND")
        ELSE IF k > key(0)
        THEN IF Exact(m, p, KiAt(m, c), k) THEN AtNode(m, c, KiAt(m, c))
             ELSE SetInPage([m EXCEPT !.cur[c].eof = FALSE], c, k, range)
        ELSE IF range THEN AtNode(m, c, 0) ELSE SetRc(SetKi(m, c, 0), "NOTFOUND")
  IN  IF r.init /\ ~elsewhere THEN onPage
      ELSE Then(PageSearch(IF r.init THEN m ELSE [m EXCEPT !.cur[c].pg[0] = NoPage], c, "key", k),
                LAMBDA a : SetInPage(a, c, k, range))

\* A cursor that is on the only page need not search for it.
CursorEdge(m, c, how) ==
  IF m.cur[c].init /\ m.cur[c].top = 0 THEN SetRc(m, "SUCCESS")
  ELSE PageSearch(m, c, how, NoKey)

CursorFirst(m, c) == Then(CursorEdge(m, c, "first"), LAMBDA a : AtNode(a, c, 0))

CursorLast(m, c) ==
  Then(CursorEdge(m, c, "last"), LAMBDA a :
    [AtNode(a, c, NumKeys(a, PgAt(a, c)) - 1) EXCEPT !.cur[c].eof = TRUE])

CursorNext(m, c) ==
  LET r == m.cur[c]
      n == NumKeys(m, PgAt(m, c))
      i == KiAt(m, c)
      a == [m EXCEPT !.cur[c].eof = FALSE]
  IN  IF ~r.init THEN CursorFirst(m, c)
      ELSE IF r.eof /\ i >= n - 1 THEN SetRc(m, "NOTFOUND")
      ELSE IF r.del THEN SetRc([a EXCEPT !.cur[c].del = FALSE], "SUCCESS")
      ELSE IF i + 1 < n THEN SetRc(SetKi(a, c, i + 1), "SUCCESS")
      ELSE With(CursorSibling(a, c, TRUE), LAMBDA b :
             IF b.rc = "SUCCESS" THEN b ELSE [b EXCEPT !.cur[c].eof = TRUE])

CursorPrev(m, c) ==
  LET step(a) == IF KiAt(a, c) = 0 THEN CursorSibling(a, c, FALSE)
                 ELSE SetRc(SetKi(a, c, KiAt(a, c) - 1), "SUCCESS")
      from(a) == step([a EXCEPT !.cur[c].eof = FALSE, !.cur[c].del = FALSE])
      past(a) == SetKi(a, c, KiAt(a, c) + 1)
  IN  Then(IF m.cur[c].init THEN SetRc(m, "SUCCESS") ELSE Then(CursorLast(m, c), past), from)

CursorCurrent(m, c) ==
  LET n == NumKeys(m, PgAt(m, c))
  IN  IF ~m.cur[c].init THEN SetRc(m, "EINVAL")
      ELSE IF KiAt(m, c) >= n THEN SetRc(SetKi(m, c, n), "NOTFOUND")
      ELSE SetRc(m, "SUCCESS")

-----------------------------------------------------------------------------
(* Storing and deleting a pair at a cursor.                                *)

\* Where the pair belongs; NO_ROOT if the tree is empty.
PutPlace(m, c, k, flag) ==
  LET last(a) == IF k > NodePtr(a, PgAt(a, c), KiAt(a, c)).k
                 THEN SetRc(SetKi(a, c, KiAt(a, c) + 1), "NOTFOUND")
                 ELSE SetRc(a, "KEYEXIST")
      found(a) == IF flag = "NOOVERWRITE" THEN SetRc(a, "KEYEXIST") ELSE a
      reset == [m EXCEPT !.cur[c].snum = 0, !.cur[c].top = 0, !.cur[c].init = FALSE]
  IN  IF flag = "CURRENT" THEN SetRc(m, IF m.cur[c].init THEN "SUCCESS" ELSE "EINVAL")
      ELSE IF m.root = NoPage THEN SetRc(reset, "NO_ROOT")
      ELSE IF flag = "APPEND" THEN Then(CursorLast(m, c), last)
      ELSE Then(CursorSet(m, c, k, FALSE), found)

\* A page to write to: those on the way to it, or the first of the tree.
PutPage(m, c) ==
  LET here == [m EXCEPT !.cur[c].del = FALSE, !.rc = "SUCCESS"]
  IN  IF m.rc # "NO_ROOT" THEN CursorTouch(here, c)
      ELSE With(PageNew(here, TRUE), LAMBDA a :
             [a EXCEPT !.cur[c] = [CursorPush(@, a.np) EXCEPT !.init = TRUE],
                       !.root = a.np, !.depth = @ + 1])

\* The node goes to the page, or what fits in the place of the old one; the
\* cursors at or after a new node move up.
PutNode(m, c, k, v, insert, append) ==
  LET p == PgAt(m, c)
      i == KiAt(m, c)
      nd == [k |-> k, x |-> v]
      r1 == m.cur[c]
      bump(r) == IF r.snum >= r1.snum /\ r.pg[r1.top] = p /\ r.ki[r1.top] >= i /\ insert
                 THEN [r EXCEPT !.ki[r1.top] = @ + 1] ELSE r
      add(a) == IF SizeLeft(a, p) < LeafSize(k, v) THEN PageSplit(a, c, nd, append, ~insert)
                ELSE Adjust(NodeAdd(a, c, i, nd), {c}, bump)
      count(a) == [a EXCEPT !.entries = IF insert THEN @ + 1 ELSE @, !.cur[c].init = @ \/ insert]
  IN  IF ~insert /\ ValSize[NodePtr(m, p, i).x] = ValSize[v]
      THEN [m EXCEPT !.pages[p].n[i + 1].x = v]
      ELSE Then(add(IF insert THEN m ELSE NodeDel(m, c)), count)

CursorPut0(m, c, k, v, flag) ==
  With(PutPlace(m, c, k, flag), LAMBDA a :
    IF a.rc \notin {"SUCCESS", "NOTFOUND", "NO_ROOT"} THEN a
    ELSE PutNode(PutPage(a, c), c, k, v, a.rc # "SUCCESS", flag = "APPEND"))

\* Mutant of DelCursors: the cursors on the node do not get C_DEL.
DelCursorsUnmarked(m, c) ==
  LET r1 == m.cur[c]
  IN  Adjust(m, {c}, LAMBDA r :
        IF r.init /\ r.snum >= r1.snum /\ r.pg[r1.top] = PgAt(m, c) /\ r.ki[r1.top] > KiAt(m, c)
        THEN [r EXCEPT !.ki[r1.top] = @ - 1] ELSE r)

\* The other cursors on the node, or after it.
DelCursors(m, c) ==
  LET r1 == m.cur[c]
      gone(r) == IF ~r.init \/ r.snum < r1.snum \/ r.pg[r1.top] # PgAt(m, c) THEN r
                 ELSE IF r.ki[r1.top] = KiAt(m, c) THEN [r EXCEPT !.del = TRUE]
                 ELSE IF r.ki[r1.top] > KiAt(m, c) THEN [r EXCEPT !.ki[r1.top] = @ - 1]
                 ELSE r
  IN  Adjust(m, {c}, gone)

\* After rebalancing: a cursor past the last node of the page goes to the next.
DelOnward(m, c) ==
  LET r1 == m.cur[c]
      q  == PgAt(m, c)
      past(j) == LET r == m.cur[j]
                 IN  /\ j \in m.trk /\ r.init /\ r.snum >= r1.snum
                     /\ r.pg[r1.top] = q /\ r.ki[r1.top] >= KiAt(m, c)
                     /\ r.ki[r1.top] >= NumKeys(m, q)
      onward(j) == With(CursorSibling(m, j, TRUE), LAMBDA a :
                     IF a.rc = "SUCCESS" THEN a.cur[j] ELSE [a.cur[j] EXCEPT !.eof = TRUE])
      place(j) == IF past(j) THEN onward(j) ELSE m.cur[j]
  IN  IF r1.snum = 0 THEN [m EXCEPT !.cur[c].eof = TRUE]
      ELSE [m EXCEPT !.cur = AllCursors(m, LAMBDA j :
             With(place(j), LAMBDA r : IF j = c THEN [r EXCEPT !.del = TRUE] ELSE r))]

CursorDel0(m, c) ==
  Then(Rebalance(SetRc(DelCursors([NodeDel(m, c) EXCEPT !.entries = @ - 1], c), "SUCCESS"), c),
       LAMBDA a : DelOnward(a, c))

CursorDel(m, c) ==
  IF ~m.cur[c].init THEN SetRc(m, "EINVAL")
  ELSE IF KiAt(m, c) >= NumKeys(m, PgAt(m, c)) THEN SetRc(m, "NOTFOUND")
  ELSE CursorDel0(CursorTouch(m, c), c)

-----------------------------------------------------------------------------
\* The pages of the tree under page p, and the nodes of its leaves.
RECURSIVE PagesUnder(_, _), NodesUnder(_, _)
PagesUnder(pages, p) ==
  {p} \cup IF pages[p].leaf THEN {}
           ELSE UNION {PagesUnder(pages, nd.x) : nd \in ToSet(pages[p].n)}
NodesUnder(pages, p) ==
  IF pages[p].leaf THEN ToSet(pages[p].n)
  ELSE UNION {NodesUnder(pages, nd.x) : nd \in ToSet(pages[p].n)}
PageSet(t)   == IF t.root = NoPage THEN {} ELSE PagesUnder(t.pages, t.root)
TreeNodes(t) == IF t.root = NoPage THEN {} ELSE NodesUnder(t.pages, t.root)

MapOf(t) == LET nodes == TreeNodes(t)
            IN  [k \in {nd.k : nd \in nodes} |-> (CHOOSE nd \in nodes : nd.k = k).x]

(* The calls of the API.  Now is the state they start from, Done applies   *)
(* the one they end in.  Own is the cursor on the stack of mdb_put, mdb_del*)
(* and mdb_drop.                                                           *)

Now == tree @@ [cur |-> mc, trk |-> Cursors, np |-> NoPage, rc |-> "SUCCESS"]
Own == Len(mc) + 1
WithOwn(m) == Push(m, Cursor0, TRUE)

KeyAt(m, c) == NodePtr(m, PgAt(m, c), KiAt(m, c)).k

\* What is left in the stack above the cursor's top is never read.
Clean(r) == [r EXCEPT !.pg = [l \in Depths |-> IF l < r.snum THEN @[l] ELSE NoPage],
                      !.ki = [l \in Depths |-> IF l < r.snum THEN @[l] ELSE 0]]

Done(op, m, k) ==
  /\ tree' = [f \in DOMAIN tree |-> m[f]]
  /\ mc' = [c \in DOMAIN mc |-> Clean(m.cur[c])]
  /\ ret' = [op |-> op, rc |-> m.rc, key |-> k]

\* The same by cursor c, which is lost if its MDB_SET missed.
DoneBy(c, op, m, k) ==
  /\ Done(op, m, k)
  /\ lost' = IF m.rc = "NOTFOUND" /\ op[1] = "set" /\ m.root # NoPage THEN lost \cup {c}
             ELSE IF m.rc \in {"SUCCESS", "KEYEXIST"} \/ op[1] = "range" THEN lost \ {c}
             ELSE lost

\* Without the key NOOVERWRITE changes nothing.
Flagged(k, v, flag) == Fits(k, v) /\ (flag = "NOOVERWRITE" => k \in DOMAIN MapOf(tree))

Put(k, v, flag) == /\ Flagged(k, v, flag)
                   /\ Done(<<"put", k, v>>, CursorPut0(WithOwn(Now), Own, k, v, flag), NoKey)
                   /\ UNCHANGED lost

Del(k) ==
  LET at == CursorSet(Push(Now, Cursor0, FALSE), Own, k, FALSE)
      m  == IF at.rc = "SUCCESS" THEN CursorDel(Track(at, Own), Own) ELSE at
  IN  Done(<<"del", k>>, m, NoKey) /\ UNCHANGED lost

CursorPut(c, k, v, flag) ==
  /\ Flagged(k, v, flag)
  /\ flag = "CURRENT" => /\ mc[c].init /\ KiAt(Now, c) < NumKeys(Now, PgAt(Now, c))
                         /\ k = KeyAt(Now, c)
  /\ DoneBy(c, <<"cput", c, k, v>>, CursorPut0(Now, c, k, v, flag), NoKey)

CursorDelete(c) == DoneBy(c, <<"cdel", c>>, CursorDel(Now, c), NoKey)

\* mdb_cursor_get: C_DEL is over once the cursor has been used.
Get(c, op, m) == DoneBy(c, op, [m EXCEPT !.cur[c].del = FALSE],
                        IF m.rc = "SUCCESS" THEN KeyAt(m, c) ELSE NoKey)

Set(c, k) == Get(c, <<"set", c, k>>, CursorSet(Now, c, k, FALSE))

\* Only a lost cursor can be beyond its page: MDB_PREV then reads a node that
\* is not there any more, which is left out.
OnPage(c) == mc[c].init => KiAt(Now, c) <= NumKeys(Now, PgAt(Now, c))

CursorGet(c) ==
  \/ Get(c, <<"first", c>>, CursorFirst(Now, c))
  \/ Get(c, <<"last", c>>, CursorLast(Now, c))
  \/ Get(c, <<"next", c>>, CursorNext(Now, c))
  \/ OnPage(c) /\ Get(c, <<"prev", c>>, CursorPrev(Now, c))
  \/ Get(c, <<"current", c>>, CursorCurrent(Now, c))
  \/ \E k \in Key : Set(c, k) \/ Get(c, <<"range", c, k>>, CursorSet(Now, c, k, TRUE))

\* mdb_drop without del: every page is released and every cursor loses its place.
Drop ==
  Done(<<"drop">>,
       Adjust([Now EXCEPT !.root = NoPage, !.depth = 0, !.entries = 0,
                          !.freed = @ \cup PageSet(tree)], {},
              LAMBDA r : [r EXCEPT !.init = FALSE, !.eof = FALSE]), NoKey)
  /\ lost' = {}

-----------------------------------------------------------------------------
(* The transaction starts on a tree that earlier ones built and committed: *)
(* none of its pages may be written to.                                    *)

EmptyTree == [pages |-> [p \in {} |-> 0], root |-> NoPage, depth |-> 0, entries |-> 0,
              dirty |-> {}, loose |-> <<>>, freed |-> {}, next |-> 2, room |-> 0]
Loaded(load, committed, room) ==
  LET start == EmptyTree @@ [cur |-> <<Cursor0>>, trk |-> {1}, np |-> NoPage, rc |-> "SUCCESS"]
      one(m, kv) == [CursorPut0([m EXCEPT !.cur[1] = Cursor0], 1, kv[1], kv[2], "NONE")
                       EXCEPT !.rc = "SUCCESS"]
      m == FoldLeft(one, start, load)
      live == PageSet(m)
  IN  [f \in DOMAIN EmptyTree |->
         CASE f = "dirty" /\ committed -> {}
           [] f = "loose" /\ committed -> <<>>
           [] f = "freed" -> (2 .. m.next - 1) \ (live \cup (IF committed THEN {} ELSE ToSet(m.loose)))
           [] f = "room" -> room
           [] f = "pages" -> [p \in live |-> m.pages[p]]
           [] OTHER -> m[f]]

Init == /\ \E l \in Loads : tree = Loaded(l.puts, l.committed, l.room)
        /\ mc = [c \in Cursors |-> Cursor0]
        /\ lost = {}
        /\ ret = [op |-> <<"begin">>, rc |-> "SUCCESS", key |-> NoKey]

\* The model stops writing when the page numbers run out.
Room == tree.next <= tree.room

\* MDB_APPEND by mdb_put and MDB_NOOVERWRITE by mdb_cursor_put only, of which
\* it is a call with its own cursor.
Write == \/ \E k \in Key, v \in Val :
              \/ \E flag \in {"NONE", "APPEND"} : Put(k, v, flag)
              \/ \E c \in Cursors, flag \in {"NONE", "NOOVERWRITE", "CURRENT"} :
                   CursorPut(c, k, v, flag)
         \/ \E k \in Key : Del(k)
         \/ \E c \in Cursors : CursorDelete(c)
         \/ Drop

Next == \/ Room /\ Write
        \/ \E c \in Cursors : CursorGet(c)

Spec == Init /\ [][Next]_vars

-----------------------------------------------------------------------------
(* Properties.                                                             *)

KeysUnder(p) == {nd.k : nd \in NodesUnder(tree.pages, p)}
Increasing(s) == \A i \in 1 .. Len(s) - 1 : s[i].k < s[i + 1].k

PageOK(p) ==
  LET pg == tree.pages[p]
  IN  /\ SizeOf(pg.leaf, pg.n) <= PageRoom
      /\ IF pg.leaf THEN pg.n # <<>> ELSE Len(pg.n) >= 2 /\ pg.n[1].k = NoKey
      /\ Increasing(pg.n)
      /\ ~pg.leaf => \A i \in 2 .. Len(pg.n) :
                       /\ \A k \in KeysUnder(pg.n[i].x) : k >= pg.n[i].k
                       /\ \A k \in KeysUnder(pg.n[i - 1].x) : k < pg.n[i].k

RECURSIVE DepthOf(_)
DepthOf(p) == IF tree.pages[p].leaf THEN {1}
              ELSE {d + 1 : d \in UNION {DepthOf(nd.x) : nd \in ToSet(tree.pages[p].n)}}

\* After every operation the pages form a search tree: nothing overflows, no
\* page is empty, a branch page has two children and no key in node 0, every
\* separator parts the keys on its two sides, all leaves are at depth md_depth,
\* and md_entries counts the pairs (mdb_page_split, mdb_node_move,
\* mdb_page_merge, mdb_rebalance).
TreeOK == /\ \A p \in PageSet(tree) : PageOK(p)
          /\ tree.root # NoPage => DepthOf(tree.root) = {tree.depth}
          /\ tree.root = NoPage => tree.depth = 0
          /\ tree.entries = Cardinality(TreeNodes(tree))

\* No page leads to two places of the tree, is both free and used, or is
\* forgotten: each is in the tree, loose, freed, or not allocated
\* (mdb_page_touch, mdb_page_loose, mdb_page_merge, mdb_drop).
PagesAccounted ==
  LET live  == PageSet(tree)
      links == {<<p, i>> \in live \X (1 .. PageRoom) :
                  ~tree.pages[p].leaf /\ i \in DOMAIN tree.pages[p].n}
      loose == ToSet(tree.loose)
  IN  /\ Cardinality(live) = Cardinality(links) + (IF live = {} THEN 0 ELSE 1)
      /\ IsInjective(tree.loose)
      /\ live \cap loose = {}
      /\ (live \cup loose) \cap tree.freed = {}
      /\ live \cup loose \cup tree.freed = 2 .. tree.next - 1

StackOf(c) == LET r == mc[c] IN
  r.init => /\ r.snum = tree.depth /\ r.top = r.snum - 1 /\ r.pg[0] = tree.root
            /\ \A l \in 0 .. r.top - 1 :
                 /\ r.ki[l] < Len(tree.pages[r.pg[l]].n)
                 /\ tree.pages[r.pg[l]].n[r.ki[l] + 1].x = r.pg[l + 1]
            /\ tree.pages[r.pg[r.top]].leaf
            /\ c \in lost \/ r.ki[r.top] <= Len(tree.pages[r.pg[r.top]].n)
\* Whatever splits, merges or moves, the stack of every initialised cursor is a
\* path from the root to a leaf: the fixups of all the operations on the cursors
\* in mt_cursors miss none (a cursor may be beyond its page only after an
\* MDB_SET that missed its key).
StackOK == \A c \in DOMAIN mc : StackOf(c)

\* A put never fails for want of room on a page: mdb_page_split, the fixups of
\* separators that grow (mdb_update_key) and mdb_page_merge find room for every
\* node, on pages small enough for the split point to be searched for.
NoPageFull == [][ret'.rc # "PAGE_FULL"]_vars

\* A page of the last snapshot is never written to, only copied: readers are on
\* it (mdb_page_touch before every change of a page).
CommittedKept == [][\A p \in DOMAIN tree.pages \ tree.dirty : tree'.pages[p] = tree.pages[p]]_vars

\* lmdb.h:1515 on mdb_cursor_del: "Both MDB_NEXT and MDB_GET_CURRENT will return
\* the same record after this operation."
NextIsCurrent ==
  [][\A c \in Cursors :
       (ret.op = <<"cdel", c>> /\ ret.rc = "SUCCESS" /\ ret'.op = <<"next", c>>) =>
         LET cur == CursorCurrent(Now, c)
         IN  cur.rc = "SUCCESS" => ret'.rc = "SUCCESS" /\ ret'.key = KeyAt(cur, c)]_vars

-----------------------------------------------------------------------------
(* The sorted map that the tree implements.                                *)

\* Where cursor c stands: at a key, or SortedMap's Unset, AtEnd or Lost.
Stood(c) == LET r == mc[c]
                n == tree.pages[r.pg[r.top]].n
            IN  IF ~r.init THEN -1 ELSE IF c \in lost THEN -3
                ELSE IF r.ki[r.top] < Len(n) THEN n[r.ki[r.top] + 1].k ELSE -2

Abs == INSTANCE SortedMap WITH
         map <- MapOf(tree),
         pos <- [c \in Cursors |-> Stood(c)],
         del <- [c \in Cursors |-> mc[c].init /\ mc[c].del],
         eof <- [c \in Cursors |-> mc[c].eof]

\* The tree and the stacks implement a sorted map whose cursors denote keys:
\* every call returns what the map says, changes nothing else, and leaves every
\* other cursor at its key, or at the one after a key that was deleted.  The
\* exception is SortedMap's Skips: MDB_NEXT of a cursor that holds on to C_EOF.
\* C_EOF itself is followed exactly: MDB_FIRST, MDB_SET, MDB_PREV and an MDB_NEXT
\* that moves clear it, and only a cursor with nothing after it gets it.
Refines == Abs!Init /\ [][Abs!Next \/ \E c \in Cursors : Abs!Skips(c)]_(Abs!vars)
=============================================================================
