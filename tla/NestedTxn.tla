----------------------------- MODULE NestedTxn -----------------------------
(***************************************************************************)
(* The pages of a write transaction and its nested ones (mdb.c): the dirty,*)
(* spilled, freed and loose pages of each, how a child copies what its     *)
(* parents have dirty (mdb_page_touch), how pages are spilled to the file  *)
(* before the commit and taken back (mdb_page_spill, mdb_page_unspill),    *)
(* the merge of a child's lists into its parent's (_mdb_txn_commit), and   *)
(* the cursors, which point at pages in memory.                            *)
(*                                                                         *)
(* The tree has a root page and leaf pages, one for each member of Leaf:   *)
(* how pages split and merge is in BTree.                                  *)
(* A page is [kid, val]: the numbers of the leaf pages, or the value.  A   *)
(* pointer to a page is <<l, p>>: page p in the dirty list of transaction  *)
(* l, counted from the top-level one, or, with l = 0, in the map.          *)
(*                                                                         *)
(* As in BTree, a C function is an operator from a state s to the next one.*)
(***************************************************************************)
EXTENDS Integers, FiniteSets, Functions, SequencesExt

CONSTANTS Leaf, Val,
          Cursors,   \* the cursors of the caller
          MaxPg,     \* me_maxpg
          DirtyMax,  \* MDB_IDL_UM_MAX
          Need,      \* the pages an operation is taken to need (mdb_page_spill)
          MaxDepth,  \* bounds of the model: transactions inside each other,
          MaxTxns,   \* and one after the other
          Faults     \* lists that may fail to grow in a commit: "free", "spill"

ASSUME NestedAssumption ==
  /\ MaxPg \in Nat /\ DirtyMax \in Nat /\ MaxDepth \in Nat /\ Need \in Nat /\ MaxTxns \in Nat
  /\ Faults \subseteq {"free", "spill"}
  /\ MaxPg > 4                 \* room for the pages of Init
  /\ "mdb_put" \notin Cursors   \* Local, which is no cursor of the caller

VARIABLES db,    \* the data file, its last snapshot, the free pages
          txns,  \* the transactions, the top-level one first
          mc     \* the cursors

vars == <<db, txns, mc>>

NoPg  == 0                   \* P_INVALID
NoVal == "none"
Local == "mdb_put"           \* the cursor on the stack of a function
NoPtr == <<-1, NoPg>>        \* nothing, or memory that was freed
Blank == [kid |-> [n \in Leaf |-> NoPg], val |-> NoVal]

Cursor0 == [of |-> 0, init |-> FALSE, leaf |-> NoVal, pg |-> <<NoPtr, NoPtr>>]

\* The state that the operators work on: head is me_pghead, rc and np are results.
Now == [file |-> db.file, head |-> db.head, txns |-> txns, rc |-> "OK", np |-> NoPg,
        mc |-> [c \in Cursors \cup {Local} |-> IF c = Local THEN Cursor0 ELSE mc[c]]]
Becomes(s) == /\ db' = [db EXCEPT !.file = s.file, !.head = s.head]
              /\ txns' = s.txns
              /\ mc' = [c \in Cursors |-> s.mc[c]]

Top(s) == Len(s.txns)
T(s)   == s.txns[Top(s)]
WithT(s, t) == [s EXCEPT !.txns[Top(s)] = t]
Fail(s, rc) == [WithT(s, [T(s) EXCEPT !.err = TRUE]) EXCEPT !.rc = rc]
Then(s, F(_)) == IF s.rc = "OK" THEN F(s) ELSE s

-----------------------------------------------------------------------------
(* Where a page is, for transaction l of ts.                               *)

PageGet(ts, l, p) ==
  LET has == {i \in 1 .. l : p \in ts[i].spill \cup DOMAIN ts[i].dirty}
  IN  IF has = {} \/ p \in ts[Max(has)].spill THEN <<0, p>> ELSE <<Max(has), p>>

PageAt(s, ptr) == IF ptr[1] = 0 THEN s.file[ptr[2]] ELSE s.txns[ptr[1]].dirty[ptr[2]]
Get(s, p) == PageGet(s.txns, Top(s), p)
\* A write through a pointer.
SetPage(s, ptr, page) == IF ptr[1] = 0 THEN [s EXCEPT !.file[ptr[2]] = page]
                         ELSE [s EXCEPT !.txns[ptr[1]].dirty[ptr[2]] = page]

TreePages(file, ts, l, root) ==
  IF root = NoPg THEN {} ELSE
  LET at == PageAt([file |-> file, txns |-> ts], PageGet(ts, l, root))
  IN  {root} \cup (Range(at.kid) \ {NoPg})

-----------------------------------------------------------------------------
(* Allocating, touching and releasing pages.                               *)

\* Page lists: f and g, where f wins, and f with one page more.
Over(f, g)     == [p \in DOMAIN f \cup DOMAIN g |-> IF p \in DOMAIN f THEN f[p] ELSE g[p]]
With(f, q, pg) == [p \in DOMAIN f \cup {q} |-> IF p = q THEN pg ELSE f[p]]

PageDirty(s, p, page) ==
  WithT(s, [T(s) EXCEPT !.dirty = With(@, p, page), !.room = @ - 1])

\* Loose pages first, then those reclaimed from the freeDB, then new ones.
PageAlloc(s) ==
  LET t == T(s)
      p == IF s.head = {} THEN t.next ELSE Min(s.head)
      a == [PageDirty(s, p, Blank) EXCEPT !.np = p]
  IN  IF t.loose # <<>>
      THEN [WithT(s, [t EXCEPT !.loose = Tail(@)]) EXCEPT !.np = Head(t.loose)]
      ELSE IF t.room = 0 THEN Fail(s, "TXN_FULL")
      ELSE IF s.head # {} THEN [a EXCEPT !.head = @ \ {p}]
      ELSE IF t.next + 1 >= MaxPg THEN Fail(s, "MAP_FULL")
      ELSE WithT(a, [T(a) EXCEPT !.next = p + 1])

PageNew(s) == Then(PageAlloc(s), LAMBDA a : SetPage(a, <<Top(a), a.np>>, Blank))

\* A page that this transaction or a parent spilled, back into memory.
SpilledBy(s, p) == {l \in 1 .. Top(s) : p \in s.txns[l].spill}
PageUnspill(s, p) ==
  IF T(s).room = 0 THEN Fail(s, "TXN_FULL")
  ELSE PageDirty(WithT(s, [T(s) EXCEPT !.spill = @ \ {p}]), p, s.file[p])

\* The tracked cursors with that page on level i of their stack follow it.
Tracked(s) == {c \in Cursors : s.mc[c].init}
Adjust(s, c, i, old, new) ==
  [s EXCEPT !.mc = [d \in DOMAIN @ |->
     IF d = c \/ (d \in Tracked(s) /\ @[d].pg[i] = old) THEN [@[d] EXCEPT !.pg[i] = new]
     ELSE @[d]]]

\* Of the child's copies: the parent's page stays as it is, at the same number.
CopyFromParent(s, c, i) ==
  LET ptr == s.mc[c].pg[i]
      p   == ptr[2]
  IN  IF p \in DOMAIN T(s).dirty
      THEN IF ptr = <<Top(s), p>> THEN s ELSE Fail(s, "CORRUPTED")
      ELSE Adjust(WithT(s, [T(s) EXCEPT !.dirty = With(@, p, PageAt(s, ptr))]),
                  c, i, ptr, <<Top(s), p>>)

PageTouch(s, c, i) ==
  LET ptr  == s.mc[c].pg[i]
      p    == ptr[2]
      copy(a) == LET b == SetPage(a, <<Top(a), a.np>>, PageAt(s, ptr))
                     d == WithT(b, [T(b) EXCEPT !.free = @ \cup {p}])
                     e == IF i = 1 THEN WithT(d, [T(d) EXCEPT !.root = a.np])
                          ELSE SetPage(d, d.mc[c].pg[1], [PageAt(d, d.mc[c].pg[1]) EXCEPT
                                                            !.kid[d.mc[c].leaf] = a.np])
                 IN  Adjust(e, c, i, ptr, <<Top(s), a.np>>)
  IN  IF ptr[1] # 0
      THEN IF Top(s) > 1 THEN CopyFromParent(s, c, i) ELSE s
      ELSE IF T(s).spills /\ SpilledBy(s, p) # {}
      THEN Then(PageUnspill(s, p), LAMBDA a : Adjust(a, c, i, ptr, <<Top(a), p>>))
      ELSE Then(PageAlloc(s), copy)

CursorTouch(s, c) == Then(PageTouch(s, c, 1), LAMBDA a :
                       IF a.mc[c].pg[2] = NoPtr THEN a ELSE PageTouch(a, c, 2))

\* A page that is dirty in this transaction is loose, another one is freed.
PageLoose(s, ptr) ==
  IF ptr[1] # 0 /\ ptr[2] \in DOMAIN T(s).dirty
  THEN WithT(s, [T(s) EXCEPT !.loose = <<ptr[2]>> \o @])
  ELSE WithT(s, [T(s) EXCEPT !.free = @ \cup {ptr[2]}])

-----------------------------------------------------------------------------
(* Spilling.                                                               *)

\* The pages of the cursors, and the root if this transaction has it.
Kept(s, c) == {s.mc[d].pg[i][2] : d \in Tracked(s) \cup {c}, i \in 1 .. 2} \cup {T(s).root}

\* Mutant of Spillable: pages that a parent spilled are spilled again.
SpillableTwice(s, c) == DOMAIN T(s).dirty \ (Kept(s, c) \cup Range(T(s).loose))

\* Not what a parent spilled: its data in the file would be lost.
Spillable(s, c) ==
  DOMAIN T(s).dirty \ (Kept(s, c) \cup Range(T(s).loose)
                       \cup UNION {s.txns[l].spill : l \in 1 .. Top(s) - 1})

PageSpill(s, c) ==
  LET all == Spillable(s, c)
      out == {p \in all : Cardinality({q \in all : q > p}) < Need}
      t   == T(s)
  IN  IF t.room > Need THEN s
      ELSE [WithT(s, [t EXCEPT !.dirty = Restrict(@, DOMAIN @ \ out), !.spill = @ \cup out,
                               !.room = @ + Cardinality(out), !.spills = TRUE])
              EXCEPT !.file = [p \in DOMAIN @ |-> IF p \in out THEN t.dirty[p] ELSE @[p]]]

-----------------------------------------------------------------------------
(* Operations on the tree.                                                 *)

\* mdb_cursor_set: the path to leaf n, or what there is of it.
Position(s, c, n) ==
  LET root == Get(s, T(s).root)
      kid  == IF T(s).root = NoPg THEN NoPg ELSE PageAt(s, root).kid[n]
  IN  [s EXCEPT !.mc[c] = [@ EXCEPT !.leaf = n, !.init = kid # NoPg,
         !.pg = <<IF T(s).root = NoPg THEN NoPtr ELSE root,
                  IF kid = NoPg THEN NoPtr ELSE Get(s, kid)>>]]

NewRoot(s, c) == Then(PageNew(s), LAMBDA a :
                   [WithT(a, [T(a) EXCEPT !.root = a.np]) EXCEPT !.mc[c].pg[1] = <<Top(a), a.np>>])
NewLeaf(s, c) == Then(PageNew(s), LAMBDA a :
                   [SetPage(a, a.mc[c].pg[1], [PageAt(a, a.mc[c].pg[1]) EXCEPT
                                                 !.kid[a.mc[c].leaf] = a.np])
                      EXCEPT !.mc[c].pg[2] = <<Top(a), a.np>>])

\* The cursor is at its place.
CursorPut(s, c, v) ==
  LET ready == Then(PageSpill(s, c), LAMBDA a :
                 IF a.mc[c].pg[1] = NoPtr THEN NewRoot(a, c) ELSE CursorTouch(a, c))
      at    == Then(ready, LAMBDA a : IF a.mc[c].pg[2] = NoPtr THEN NewLeaf(a, c) ELSE a)
  IN  Then(at, LAMBDA a : SetPage(a, a.mc[c].pg[2], [Blank EXCEPT !.val = v]))

Lose(s, C) == [s EXCEPT !.mc = [c \in DOMAIN @ |->
                 IF c \in C THEN [Cursor0 EXCEPT !.of = s.mc[c].of] ELSE @[c]]]

\* The leaf goes, and with the last leaf the root (mdb_rebalance).
CursorDel(s, c) ==
  Then(PageSpill(s, c), LAMBDA a0 : Then(CursorTouch(a0, c), LAMBDA a :
    LET n    == a.mc[c].leaf
        root == [PageAt(a, a.mc[c].pg[1]) EXCEPT !.kid[n] = NoPg]
        b    == SetPage(PageLoose(a, a.mc[c].pg[2]), a.mc[c].pg[1], root)
        d    == Lose(b, {e \in Tracked(b) : b.mc[e].leaf = n})
    IN  IF root # Blank THEN d
        ELSE WithT(d, [T(d) EXCEPT !.free = @ \cup {T(d).root}, !.root = NoPg])))

\* mdb_drop: the pages are freed without being read into memory.
Dropped(s) ==
  LET pages == TreePages(s.file, s.txns, Top(s), T(s).root)
  IN  Lose(WithT(s, [T(s) EXCEPT !.free = @ \cup pages, !.root = NoPg]), Tracked(s))

-----------------------------------------------------------------------------
(* The transactions.                                                       *)

Usable == txns # <<>> /\ ~Last(txns).err     \* not MDB_TXN_BLOCKED

NewTxn == [root |-> db.root, next |-> db.next, dirty |-> <<>>, spill |-> {}, free |-> {},
           loose |-> <<>>, room |-> DirtyMax, err |-> FALSE, spills |-> FALSE,
           head |-> {}, bk |-> mc]

\* Pages freed two transactions ago may be reused (see MdbTxn).
Begin == /\ txns = <<>> /\ txns' = <<NewTxn>>
         /\ db.begun < MaxTxns
         /\ db' = [db EXCEPT !.head = db.old, !.begun = @ + 1]
         /\ UNCHANGED mc

\* The child keeps me_pghead and the cursors for its abort (mdb_cursor_shadow).
BeginChild ==
  /\ Usable /\ Len(txns) < MaxDepth
  /\ LET p == Last(txns)
     IN  txns' = Append(txns, [NewTxn EXCEPT !.root = p.root, !.next = p.next,
                                 !.room = p.room, !.spills = p.spills, !.head = db.head])
  /\ UNCHANGED <<db, mc>>

\* mdb_cursors_close: the cursors of this transaction are freed.
CursorsClosed(s, f) == [s EXCEPT !.mc = [c \in DOMAIN @ |->
                             IF @[c].of = Top(s) THEN Cursor0 ELSE f[c]]]

\* Mutant of Restored: the cursors stay where the child moved them.
RestoredNot(s) == CursorsClosed([s EXCEPT !.head = T(s).head], s.mc)

\* Mutant of Restored: me_pghead stays as the child left it.
RestoredCursors(s) ==
  CursorsClosed(s, [c \in DOMAIN s.mc |-> IF c = Local THEN Cursor0 ELSE T(s).bk[c]])

\* The parent's cursors and me_pghead, as they were.
Restored(s) == CursorsClosed([s EXCEPT !.head = T(s).head],
                             [c \in DOMAIN s.mc |-> IF c = Local THEN Cursor0 ELSE T(s).bk[c]])

AbortOne(s) ==
  IF Top(s) = 1
  THEN [CursorsClosed([s EXCEPT !.head = {}], [c \in DOMAIN s.mc |-> Cursor0]) EXCEPT !.txns = <<>>]
  ELSE [Restored(s) EXCEPT !.txns = Front(@)]

\* Mutant of ParentDirty: what the child spilled stays in the parent's list.
ParentDirtyAll(p, t) == p.dirty

\* The parent's copies of what the child spilled are dropped.
ParentDirty(p, t) == Restrict(p.dirty, DOMAIN p.dirty \ t.spill)

Merged(p, t) ==
  [p EXCEPT !.root = t.root, !.next = t.next, !.spills = t.spills,
            !.free = @ \cup t.free,
            !.dirty = Over(t.dirty, ParentDirty(p, t)),
            !.spill = (@ \ DOMAIN t.dirty) \cup t.spill,
            !.room = t.room,
            !.loose = @ \o t.loose]

\* The pages of the child's list are the parent's now, which frees its own copies.
MovedPtr(s, ptr) == LET l == Top(s)
                        t == T(s)
                    IN  IF ptr[1] = l THEN <<l - 1, ptr[2]>>
                        ELSE IF ptr[1] = l - 1 /\ ptr[2] \in DOMAIN t.dirty \cup t.spill THEN NoPtr
                        ELSE ptr

Poisoned(s) == Fail(s, "BAD_TXN")

\* Mutant of CommitChild: the commit acts as an abort.
CommitChildDrops(s, fault) == IF T(s).err THEN Poisoned(AbortOne(s)) ELSE AbortOne(s)

CommitChild(s, fault) ==
  LET a == CursorsClosed(s, [c \in DOMAIN s.mc |->
             [s.mc[c] EXCEPT !.pg = <<MovedPtr(s, @[1]), MovedPtr(s, @[2])>>]])
      b == [a EXCEPT !.txns = Append(Front(Front(@)), Merged(@[Top(s) - 1], T(s)))]
  IN  IF T(s).err THEN Poisoned(AbortOne(s))
      ELSE IF fault = "free" THEN [AbortOne(s) EXCEPT !.rc = "ENOMEM"]
      ELSE IF fault = "spill" /\ T(s).spill # {} /\ s.txns[Top(s) - 1].spill # {}
      THEN Poisoned(b)
      ELSE b

\* The rest of a commit is in MdbTxn.
CommitTop(s) ==
  LET t   == T(s)
      out == DOMAIN t.dirty \ Range(t.loose)
  IN  IF t.err THEN [AbortOne(s) EXCEPT !.rc = "BAD_TXN"]
      ELSE [AbortOne(s) EXCEPT !.file =
              [p \in DOMAIN @ |-> IF p \in out THEN t.dirty[p] ELSE @[p]]]

\* The end of the last transaction: an abort, or a commit with that fault.
EndOne(s, how) == IF how = "abort" \/ s.rc # "OK" THEN AbortOne(s)
                  ELSE IF Top(s) = 1 THEN CommitTop(s) ELSE CommitChild(s, how)

\* A transaction is ended with the children it has: after the ends of the last n.
Ended(how, n) == LET after[i \in Nat] == IF i = 0 THEN Now ELSE EndOne(after[i - 1], how)
                 IN  after[n]

Abort(l) == Becomes(Ended("abort", Len(txns) - l + 1))

Commit(l, fault) ==
  LET kids == Ended(fault, Len(txns) - l)
      s    == EndOne(kids, fault)
  IN  /\ fault = "none" \/ Len(txns) > 1   \* a top-level commit alone: see MdbTxn
      /\ IF l > 1 \/ s.rc # "OK" THEN Becomes(s)
         ELSE /\ txns' = <<>> /\ mc' = [c \in Cursors |-> Cursor0]
              /\ LET t == T(kids)
                 IN  db' = [db EXCEPT !.file = s.file, !.root = t.root, !.next = t.next,
                              !.head = {}, !.old = kids.head \cup db.recent,
                              !.recent = t.free \cup Range(t.loose)]

Open(c) == /\ Usable /\ mc[c].of = 0
           /\ mc' = [mc EXCEPT ![c].of = Len(txns)]
           /\ UNCHANGED <<db, txns>>

Mine(c)     == Usable /\ mc[c].of = Len(txns)
Set(c, n)   == Mine(c) /\ Becomes(Position(Now, c, n))
Update(c, v) == Mine(c) /\ mc[c].init /\ Becomes(CursorPut(Now, c, v))
Put(n, v)   == Usable /\ Becomes(CursorPut(Position(Now, Local, n), Local, v))
Del(n)      == LET s == Position(Now, Local, n)
               IN  Usable /\ s.mc[Local].init /\ Becomes(CursorDel(s, Local))
Drop        == Usable /\ Last(txns).root # NoPg /\ Becomes(Dropped(Now))

\* An empty database, whose only page the last transaction freed, or one leaf
\* page, 3, with root 2, and maybe a free page.
Init == /\ \E n \in Leaf, v \in Val, f \in SUBSET {4}, empty \in BOOLEAN :
             db = [file |-> [p \in 2 .. MaxPg - 1 |->
                               IF p = 2 /\ ~empty THEN [Blank EXCEPT !.kid[n] = 3]
                               ELSE IF p = 3 /\ ~empty THEN [Blank EXCEPT !.val = v] ELSE Blank],
                   root |-> IF empty THEN NoPg ELSE 2,
                   next |-> IF empty THEN 3 ELSE 4 + Cardinality(f),
                   head |-> {}, old |-> IF empty THEN {} ELSE f,
                   recent |-> IF empty THEN {2} ELSE {}, begun |-> 0]
        /\ txns = <<>> /\ mc = [c \in Cursors |-> Cursor0]

Next == \/ Begin \/ BeginChild \/ Drop
        \/ \E l \in DOMAIN txns : Abort(l)
        \/ \E l \in DOMAIN txns, f \in Faults \cup {"none"} : Commit(l, f)
        \/ \E c \in Cursors : \/ Open(c) \/ \E n \in Leaf : Set(c, n)
                              \/ \E v \in Val : Update(c, v)
        \/ \E n \in Leaf : Del(n) \/ \E v \in Val : Put(n, v)

Spec == Init /\ [][Next]_vars

-----------------------------------------------------------------------------
(* Properties.                                                             *)

\* The pages of the current transaction, those it and its parents freed or have
\* loose, and those reclaimed or still to be reclaimed from the freeDB are apart
\* and are all pages: none is lost or in use twice, whatever children did before
\* they were committed or aborted (_mdb_txn_commit, mdb_txn_end, mdb_page_loose).
PagesInOneList ==
  LET l     == Len(txns)
      t     == txns[l]
      parts == <<TreePages(db.file, txns, l, t.root), db.head, db.recent>>
               \o [i \in 1 .. l |-> txns[i].free] \o [i \in 1 .. l |-> Range(txns[i].loose)]
  IN  Usable => /\ \A i, j \in DOMAIN parts : i # j => parts[i] \cap parts[j] = {}
                /\ UNION Range(parts) = 2 .. t.next - 1

\* The dirty list that transaction l would leave, were all that are in it committed.
ListOf(l) == {p \in 2 .. MaxPg - 1 : \E i \in 1 .. l :
                p \in DOMAIN txns[i].dirty /\ \A j \in i + 1 .. l : p \notin txns[j].spill}

\* mt_dirty_room counts the room in that list, which the merge of a child takes
\* for granted: mdb_tassert(txn, i == x), and that the list does not overflow,
\* though the copy of a parent's page is not counted and a spilled one is.
RoomExact == \A l \in DOMAIN txns : txns[l].room = DirtyMax - Cardinality(ListOf(l))

\* The cursors of the current transaction point at the pages it sees, never at
\* a copy that another transaction of the stack has, or that was spilled, merged
\* or freed (mdb_page_touch, mdb_cursor_shadow, mdb_cursors_close, mdb_pages_xkeep).
CursorSees ==
  \A c \in Cursors : (Usable /\ mc[c].init) =>
    LET root == Get(Now, Last(txns).root)
    IN  mc[c].pg = <<root, Get(Now, PageAt(Now, root).kid[mc[c].leaf])>>

-----------------------------------------------------------------------------
(* The nested store that the pages implement.                              *)

ASSUME ErrorAssumption == "MDB_TXN_ERROR" \notin Val   \* which stands for no value

View(ts, l, root) ==
  LET at == [p \in Nat |-> IF p = NoPg THEN Blank
                           ELSE PageAt([file |-> db.file, txns |-> ts], PageGet(ts, l, p))]
  IN  [n \in Leaf |-> at[at[root].kid[n]].val]

Store == View(<<>>, 0, db.root)
Stack == [l \in DOMAIN txns |-> IF txns[l].err THEN [n \in Leaf |-> "MDB_TXN_ERROR"]
                                ELSE View(txns, l, txns[l].root)]

Abs == INSTANCE NestedStore WITH store <- Store, stack <- Stack

\* A write writes its value for its key alone, or fails.
WritesAsCalled ==
  LET seen == Abs!Seen(Stack)
  IN  /\ \A n \in Leaf, v \in Val : Put(n, v) => Abs!Write([seen EXCEPT ![n] = v])
      /\ \A c \in Cursors, v \in Val : Update(c, v) => Abs!Write([seen EXCEPT ![mc[c].leaf] = v])
      /\ \A n \in Leaf : Del(n) => Abs!Write([seen EXCEPT ![n] = NoVal])
      /\ Drop => Abs!Write([n \in Leaf |-> NoVal])

\* An abort takes back what transaction l and those in it did, a commit nothing
\* of it, if nothing failed.
EndsAsCalled ==
  \A l \in DOMAIN txns : /\ Abort(l) => Abs!Abort(l)
                         /\ Commit(l, "none") /\ Usable => Abs!Commit(l)

\* Each call makes the step of its name.
AsCalled == IF Len(txns') = Len(txns) THEN WritesAsCalled ELSE EndsAsCalled

\* Each transaction of the stack reads what it and its parents wrote and nothing
\* else, though children change their parents' pages, spill pages over the file
\* and give some back; an abort takes all of it back, a commit none of it, and
\* the last snapshot in the file is untouched until the top-level commit.
NestedRefines == Abs!Spec /\ [][AsCalled]_vars
=============================================================================
