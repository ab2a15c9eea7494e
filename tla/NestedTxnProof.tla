--------------------------- MODULE NestedTxnProof ---------------------------
(***************************************************************************)
(* Proofs about NestedTxn: what one transaction of the stack needs of      *)
(* those below it, and that every operation on its tree keeps its          *)
(* invariant, whatever is spilled, freed, loose or taken from a parent.    *)
(***************************************************************************)
EXTENDS NestedTxn, LeastNat, SequenceTheorems, TLAPS

-----------------------------------------------------------------------------
(***************************************************************************)
(* The types of the records, and what follows from them.                   *)
(***************************************************************************)

Pg   == 2 .. MaxPg - 1
PgN  == Pg \cup {NoPg}
Page == [kid : [Leaf -> PgN], val : Val \cup {NoVal}]
Ptrs == Int \X Nat
CurRec == [of : Nat, init : BOOLEAN, leaf : Leaf \cup {NoVal}, pg : [1 .. 2 -> Ptrs]]
Dirties == UNION {[d -> Page] : d \in SUBSET Pg}
TxnRec == [root : PgN, next : Nat, dirty : Dirties, spill : SUBSET Pg,
           free : SUBSET Pg, loose : Seq(Pg), room : Int, err : BOOLEAN, spills : BOOLEAN,
           head : SUBSET Pg, bk : [Cursors -> CurRec]]
Rcs   == {"OK", "TXN_FULL", "MAP_FULL", "CORRUPTED", "BAD_TXN", "ENOMEM"}
StRec == [file : [Pg -> Page], head : SUBSET Pg, txns : Seq(TxnRec),
          rc : Rcs, np : Nat, mc : [Cursors \cup {Local} -> CurRec]]

LEMMA DirtiesIs == ASSUME NEW f
                   PROVE  f \in Dirties <=> \E d \in SUBSET Pg : f \in [d -> Page]
  BY DEF Dirties

LEMMA DirtiesOf == ASSUME NEW f \in Dirties
                   PROVE  /\ DOMAIN f \in SUBSET Pg /\ f \in [DOMAIN f -> Page]
                          /\ \A p \in DOMAIN f : p \in Pg /\ f[p] \in Page
  BY DirtiesIs

LEMMA DirtiesBy == ASSUME NEW d \in SUBSET Pg, NEW f \in [d -> Page]
                   PROVE  f \in Dirties
  BY DirtiesIs

LEMMA TxnIs ==
  ASSUME NEW t \in TxnRec
  PROVE  /\ t.root \in PgN /\ t.next \in Nat /\ t.spill \in SUBSET Pg /\ t.free \in SUBSET Pg
         /\ t.loose \in Seq(Pg) /\ t.room \in Int /\ t.err \in BOOLEAN /\ t.spills \in BOOLEAN
         /\ t.head \in SUBSET Pg /\ t.bk \in [Cursors -> CurRec]
         /\ t.dirty \in Dirties /\ DOMAIN t.dirty \in SUBSET Pg
         /\ \A p \in DOMAIN t.dirty : p \in Pg /\ t.dirty[p] \in Page
<1>1. t.dirty \in Dirties
  BY DEF TxnRec
<1> QED BY <1>1, DirtiesOf DEF TxnRec

LEMMA WithIs == ASSUME NEW f \in Dirties, NEW p \in Pg, NEW page \in Page
  PROVE /\ With(f, p, page) \in Dirties
        /\ DOMAIN With(f, p, page) = DOMAIN f \cup {p}
        /\ With(f, p, page)[p] = page
        /\ \A q \in DOMAIN f : q # p => With(f, p, page)[q] = f[q]
<1>1. With(f, p, page) \in [DOMAIN f \cup {p} -> Page] /\ DOMAIN f \cup {p} \in SUBSET Pg
  BY DirtiesOf DEF With
<1> QED BY <1>1, DirtiesBy DEF With

LEMMA WithTIs == ASSUME NEW s \in StRec, Top(s) > 0, NEW t \in TxnRec
  PROVE LET a == WithT(s, t)
        IN /\ a.file = s.file /\ a.head = s.head /\ a.mc = s.mc /\ a.rc = s.rc /\ a.np = s.np
           /\ Top(a) = Top(s) /\ \A i \in 1..Top(s)-1 : a.txns[i] = s.txns[i]
           /\ T(a) = t /\ a \in StRec
<1> DEFINE N  == Top(s)
           ts == [s.txns EXCEPT ![N] = t]
<1>1. s.txns \in Seq(TxnRec) /\ N \in 1 .. Len(s.txns) /\ N = Len(s.txns)
  BY DEF StRec, Top
<1>2. ts \in Seq(TxnRec) /\ Len(ts) = N /\ ts[N] = t /\ \A i \in 1 .. N - 1 : ts[i] = s.txns[i]
  BY <1>1
<1>3. WithT(s, t) = [s EXCEPT !.txns = ts]
  BY DEF WithT
<1> HIDE DEF ts, N
<1>4. [s EXCEPT !.txns = ts] \in StRec
  BY <1>2 DEF StRec
<1>5. LET a == WithT(s, t)
      IN /\ a.file = s.file /\ a.head = s.head /\ a.mc = s.mc /\ a.rc = s.rc /\ a.np = s.np
         /\ a.txns = ts /\ a \in StRec
  BY <1>3, <1>4 DEF StRec
<1> QED BY <1>2, <1>5 DEF Top, T, N

LEMMA SetPageIs == ASSUME NEW s \in StRec, Top(s) > 0, NEW p \in DOMAIN T(s).dirty, NEW page \in Page
  PROVE SetPage(s, <<Top(s), p>>, page) = WithT(s, [T(s) EXCEPT !.dirty = [@ EXCEPT ![p] = page]])
<1> DEFINE N == Top(s)
           ts == [s.txns EXCEPT ![N] = [s.txns[N] EXCEPT !.dirty = [@ EXCEPT ![p] = page]]]
<1>1. N \in Nat \ {0} /\ <<N, p>>[1] = N /\ <<N, p>>[2] = p
  BY DEF StRec, Top
<1>2. SetPage(s, <<N, p>>, page) = [s EXCEPT !.txns = ts]
  BY <1>1 DEF SetPage
<1>3. WithT(s, [T(s) EXCEPT !.dirty = [@ EXCEPT ![p] = page]]) = [s EXCEPT !.txns = ts]
  BY DEF WithT, T
<1> QED BY <1>2, <1>3

LEMMA SetIs == ASSUME NEW f \in Dirties, NEW p \in DOMAIN f, NEW page \in Page
  PROVE [f EXCEPT ![p] = page] \in Dirties
<1>1. [f EXCEPT ![p] = page] \in [DOMAIN f -> Page] /\ DOMAIN f \in SUBSET Pg
  BY DirtiesOf
<1> QED BY <1>1, DirtiesBy

-----------------------------------------------------------------------------
(***************************************************************************)
(* The invariant of one transaction. The tree it reads, the pages that     *)
(* it and its parents hold, and what the stack below it is to it: the      *)
(* environment EnvOf.                                                      *)
(***************************************************************************)

\* The tree in pages at, a function of the page number.
KidOf(at, root)   == IF root = NoPg THEN [n \in Leaf |-> NoPg] ELSE at[root].kid
PagesOf(at, root) == ({root} \cup {KidOf(at, root)[n] : n \in Leaf}) \ {NoPg}
ValOf(at, root)   == [n \in Leaf |-> IF KidOf(at, root)[n] = NoPg THEN NoVal
                                     ELSE at[KidOf(at, root)[n]].val]
TreeShape(at, root) ==
  /\ root \in PgN
  /\ \A n \in Leaf : /\ KidOf(at, root)[n] \in PgN
                     /\ KidOf(at, root)[n] # NoPg => KidOf(at, root)[n] # root
  /\ \A m, n \in Leaf : KidOf(at, root)[m] = KidOf(at, root)[n] /\ m # n => KidOf(at, root)[m] = NoPg

\* What the transactions below one are to it, the one numbered n: where they have
\* a page and what is in it, and the pages that it may take.
HeadUnder(b, ts, j) == IF j = 0 THEN b.old ELSE ts[j + 1].head
NextAt(b, ts, j)    == IF j = 0 THEN b.next ELSE ts[j].next
Held(t)        == DOMAIN t.dirty \cup t.spill
HeldTo(ts, l)  == UNION {Held(ts[i]) : i \in 1 .. l}
FreedTo(ts, l) == UNION {ts[i].free \cup Range(ts[i].loose) : i \in 1 .. l}
LooseTo(ts, l) == UNION {Range(ts[i].loose) : i \in 1 .. l}
SpillTo(ts, l) == UNION {ts[i].spill : i \in 1 .. l}
ListAt(ts, l)  == {p \in Pg : \E i \in 1 .. l : p \in DOMAIN ts[i].dirty
                                          /\ \A j \in i + 1 .. l : p \notin ts[j].spill}
AtOf(file, ts, l) == [p \in Pg |-> PageAt([file |-> file, txns |-> ts], PageGet(ts, l, p))]

EnvOf(b, file, ts, l) ==
  [n |-> l, file |-> file, recent |-> b.recent,
   get   |-> [p \in Pg |-> PageGet(ts, l - 1, p)],
   at    |-> AtOf(file, ts, l - 1),
   list  |-> ListAt(ts, l - 1),
   spill |-> SpillTo(ts, l - 1),
   freed |-> FreedTo(ts, l - 1),
   loose |-> LooseTo(ts, l - 1),
   cap   |-> {p \in Pg : \A j \in 0 .. l - 1 : p \in HeadUnder(b, ts, j)},
   min   |-> {p \in Nat : \A j \in 0 .. l - 1 : NextAt(b, ts, j) <= p},
   reg   |-> {p \in Pg : \A j \in 0 .. l - 1 : \/ p \in HeadUnder(b, ts, j) \cup HeldTo(ts, j)
                                               \/ p >= NextAt(b, ts, j)}]

GetIn(e, t, p) == IF p \in t.spill THEN <<0, p>>
                  ELSE IF p \in DOMAIN t.dirty THEN <<e.n, p>> ELSE e.get[p]
AtIn(e, t)   == [p \in Pg |-> IF p \in t.spill THEN e.file[p]
                              ELSE IF p \in DOMAIN t.dirty THEN t.dirty[p] ELSE e.at[p]]
ListIn(e, t) == (DOMAIN t.dirty \cup e.list) \ t.spill

\* The pages a transaction has, and where they can be.
Once(q) == \A i, j \in DOMAIN q : q[i] = q[j] => i = j
Mem(e, t, head) ==
  /\ t.next \in 2 .. MaxPg /\ t.next \in e.min
  /\ Held(t) \subseteq 2 .. t.next - 1 /\ head \subseteq 2 .. t.next - 1
  /\ DOMAIN t.dirty \cap t.spill = {} /\ Held(t) \cap head = {}
  /\ Range(t.loose) \subseteq DOMAIN t.dirty
  /\ Once(t.loose)
  /\ Held(t) \subseteq e.reg /\ head \subseteq e.cap /\ Held(t) \cap e.loose = {}

\* mt_dirty_room is what the dirty lists of the stack leave.
RoomIn(e, t) == t.room = DirtyMax - Cardinality(ListIn(e, t))

\* E: the pages that were allocated and are not yet in the tree.
Split(P, head, old, free, loose, recent, E, next) ==
  /\ P \cap (head \cup old \cup free \cup loose \cup recent \cup E) = {}
  /\ head \cap (old \cup free \cup loose \cup recent \cup E) = {}
  /\ old \cap (free \cup loose \cup recent \cup E) = {}
  /\ free \cap (loose \cup recent \cup E) = {}
  /\ loose \cap (recent \cup E) = {}
  /\ recent \cap E = {}
  /\ P \cup head \cup old \cup free \cup loose \cup recent \cup E = 2 .. next - 1
Parts(e, t, head, E) == Split(PagesOf(AtIn(e, t), t.root), head, e.freed, t.free, Range(t.loose),
                              e.recent, E, t.next)

\* The cursors' stacks are paths of the tree.
PtrTo(e, t, p) == IF p = NoPg THEN NoPtr ELSE GetIn(e, t, p)
Path(e, t, n)  == <<PtrTo(e, t, t.root), PtrTo(e, t, KidOf(AtIn(e, t), t.root)[n])>>
Curs(e, t, mc1) == \A c \in Cursors : mc1[c].init =>
  /\ mc1[c].leaf \in Leaf
  /\ KidOf(AtIn(e, t), t.root)[mc1[c].leaf] # NoPg
  /\ mc1[c].pg = Path(e, t, mc1[c].leaf)

\* Transaction t, with freelist head and cursors mc1, in its environment e.
Good(e, t, head, mc1, E) ==
  /\ Mem(e, t, head)
  /\ RoomIn(e, t)
  /\ TreeShape(AtIn(e, t), t.root)
  /\ Parts(e, t, head, E)
  /\ Curs(e, t, mc1)

\* The snapshot and its free pages.
Base(b, file) ==
  /\ b.next \in 2 .. MaxPg
  /\ TreeShape(file, b.root)
  /\ Split(PagesOf(file, b.root), b.old, {}, {}, {}, b.recent, {}, b.next)

\* Each transaction of the stack, with the freelist and the cursors that it has, or had when it began a child.
HeadAt(s, l) == IF l = Top(s) THEN s.head ELSE s.txns[l + 1].head
McAt(s, l)   == IF l = Top(s) THEN s.mc ELSE s.txns[l + 1].bk
All(b, s) == /\ Base(b, s.file)
             /\ s.txns = <<>> => s.head = {}
             /\ \A l \in 1 .. Top(s) :
                  Good(EnvOf(b, s.file, s.txns, l), s.txns[l], HeadAt(s, l), McAt(s, l), {})
IInv == All(db, Now)

LEMMA MaxIs == ASSUME NEW l \in Nat, NEW S \in SUBSET (1 .. l), S # {}
               PROVE  Max(S) \in S /\ \A x \in S : x <= Max(S)
<1> DEFINE D == {l - x : x \in S}
<1>1. D \subseteq Nat /\ D # {}
  <2>1. ASSUME NEW x \in S PROVE l - x \in Nat
    <3>1. x \in 1 .. l
      OBVIOUS
    <3> QED BY <3>1
  <2>2. D \subseteq Nat
    BY <2>1
  <2>3. PICK x \in S : TRUE
    OBVIOUS
  <2>4. l - x \in D
    OBVIOUS
  <2> QED BY <2>2, <2>4
<1>2. PICK d \in D : \A x \in D : d <= x
  BY <1>1, NatHasMin
<1>3. PICK m \in S : d = l - m
  BY <1>2
<1>4. \A x \in S : m >= x
  <2> SUFFICES ASSUME NEW x \in S PROVE m >= x
    OBVIOUS
  <2>1. l - x \in D /\ x \in Nat /\ m \in Nat
    OBVIOUS
  <2>2. l - m <= l - x
    BY <2>1, <1>2, <1>3
  <2> HIDE DEF D
  <2> QED BY <2>1, <2>2
<1>5. Max(S) = CHOOSE x \in S : \A y \in S : x >= y
  BY DEF Max
<1>6. Max(S) \in S /\ \A x \in S : Max(S) >= x
  BY <1>3, <1>4, <1>5
<1> HIDE DEF D
<1>7. \A x \in S : x \in Nat
  OBVIOUS
<1> QED BY <1>6, <1>7

HasIt(ts, l, p) == {i \in 1 .. l : p \in ts[i].spill \cup DOMAIN ts[i].dirty}

LEMMA GetZero == ASSUME NEW ts, NEW p PROVE PageGet(ts, 0, p) = <<0, p>>
<1>1. HasIt(ts, 0, p) = {}
  BY DEF HasIt
<1> QED BY <1>1 DEF PageGet, HasIt

LEMMA GetTop ==
  ASSUME NEW ts, NEW l \in Nat, l > 0, NEW p
  PROVE  PageGet(ts, l, p) = IF p \in ts[l].spill THEN <<0, p>>
                             ELSE IF p \in DOMAIN ts[l].dirty THEN <<l, p>>
                             ELSE PageGet(ts, l - 1, p)
<1> DEFINE H == HasIt(ts, l, p)
<1>1. CASE p \in ts[l].spill \cup DOMAIN ts[l].dirty
  <2>1. l \in H /\ H \in SUBSET (1 .. l)
    BY <1>1 DEF HasIt
  <2>2. Max(H) \in 1 .. l /\ l <= Max(H)
    BY <2>1, MaxIs
  <2>3. Max(H) = l
    BY <2>2
  <2> QED BY <1>1, <2>1, <2>3 DEF PageGet, HasIt
<1>2. CASE p \notin ts[l].spill \cup DOMAIN ts[l].dirty
  <2>1. H = HasIt(ts, l - 1, p)
    BY <1>2 DEF HasIt
  <2> QED BY <1>2, <2>1 DEF PageGet, HasIt
<1> QED BY <1>1, <1>2

\* mdb_page_get finds the page in the file or in a transaction's dirty list.
LEMMA GetIs ==
  ASSUME NEW ts, NEW l \in Nat, NEW p
  PROVE  \/ PageGet(ts, l, p) = <<0, p>>
         \/ \E i \in 1 .. l : PageGet(ts, l, p) = <<i, p>> /\ p \in DOMAIN ts[i].dirty
<1> DEFINE H == HasIt(ts, l, p)
<1>1. CASE H = {}
  BY <1>1 DEF PageGet, HasIt
<1>2. CASE H # {}
  <2>1. H \in SUBSET (1 .. l)
    BY DEF HasIt
  <2>2. Max(H) \in H
    BY <2>1, <1>2, MaxIs
  <2>3. Max(H) \in 1 .. l /\ p \in ts[Max(H)].spill \cup DOMAIN ts[Max(H)].dirty
    BY <2>2 DEF HasIt
  <2> QED BY <1>2, <2>3 DEF PageGet, HasIt
<1> QED BY <1>1, <1>2

\* mdb_page_get reads only the transactions from the last one down to l.
LEMMA GetSame ==
  ASSUME NEW ts, NEW us, NEW l \in Nat, \A i \in 1 .. l : ts[i] = us[i], NEW p
  PROVE  PageGet(ts, l, p) = PageGet(us, l, p)
<1> DEFINE H == HasIt(ts, l, p)
<1>1. H = HasIt(us, l, p) /\ H \in SUBSET (1 .. l)
  BY DEF HasIt
<1>2. CASE H = {}
  BY <1>1, <1>2 DEF PageGet, HasIt
<1>3. CASE H # {}
  <2>1. Max(H) \in 1 .. l
    BY <1>1, <1>3, MaxIs
  <2> QED BY <1>1, <1>3, <2>1 DEF PageGet, HasIt
<1> QED BY <1>2, <1>3

\* The pages of ListAt are those that are found in memory.
LEMMA GetList ==
  ASSUME NEW ts, NEW l \in Nat, NEW p \in Pg,
         \A i \in 1 .. l : DOMAIN ts[i].dirty \cap ts[i].spill = {}
  PROVE  p \in ListAt(ts, l) <=> PageGet(ts, l, p) # <<0, p>>
<1> DEFINE H == HasIt(ts, l, p)
<1>1. CASE H = {}
  BY <1>1 DEF PageGet, HasIt, ListAt
<1>2. CASE H # {}
  <2>1. H \in SUBSET (1 .. l)
    BY DEF HasIt
  <2> DEFINE m == Max(H)
  <2>2. m \in H /\ \A x \in H : x <= m
    BY <2>1, <1>2, MaxIs
  <2>3. m \in 1 .. l /\ m \in Nat /\ m # 0 /\ p \in ts[m].spill \cup DOMAIN ts[m].dirty
    BY <2>2 DEF HasIt
  <2>4. PageGet(ts, l, p) = IF p \in ts[m].spill THEN <<0, p>> ELSE <<m, p>>
    BY <1>2 DEF PageGet, HasIt
  <2>5. \A j \in m + 1 .. l : p \notin ts[j].spill \cup DOMAIN ts[j].dirty
    <3> SUFFICES ASSUME NEW j \in m + 1 .. l, p \in ts[j].spill \cup DOMAIN ts[j].dirty PROVE FALSE
      OBVIOUS
    <3>1. j \in Nat /\ j > m /\ j \in 1 .. l
      BY <2>3
    <3>2. j \in H
      BY <3>1 DEF HasIt
    <3> HIDE DEF H, m
    <3> QED BY <3>1, <3>2, <2>2, <2>3
  <2> HIDE DEF m, H
  <2>6. CASE p \in ts[m].spill
    <3> SUFFICES ASSUME NEW i \in 1 .. l, p \in DOMAIN ts[i].dirty,
                        \A j \in i + 1 .. l : p \notin ts[j].spill
                 PROVE  FALSE
      BY <2>4, <2>6 DEF ListAt
    <3>1. i # m
      BY <2>3, <2>6
    <3>2. CASE i < m
      BY <2>3, <2>6, <3>2
    <3>3. CASE i > m
      BY <2>3, <2>5, <3>3
    <3> QED BY <3>1, <3>2, <3>3, <2>3
  <2>7. CASE p \notin ts[m].spill
    <3>1. p \in DOMAIN ts[m].dirty /\ \A j \in m + 1 .. l : p \notin ts[j].spill
      BY <2>3, <2>5, <2>7
    <3>2. p \in ListAt(ts, l)
      BY <2>3, <3>1 DEF ListAt
    <3>3. <<m, p>> # <<0, p>>
      BY <2>3
    <3> QED BY <2>4, <2>7, <3>2, <3>3
  <2> QED BY <2>6, <2>7
<1> QED BY <1>1, <1>2

-----------------------------------------------------------------------------
(***************************************************************************)
(* The environment: where mdb_page_get finds a page, what is in it, and    *)
(* the pages that are free to be taken.                                    *)
(***************************************************************************)

\* An environment keeps apart the pages that the transactions below hold and those that are free.
EnvOK(e) ==
  /\ e.n \in Nat \ {0}
  /\ e.file \in [Pg -> Page] /\ e.at \in [Pg -> Page]
  /\ e.list \subseteq Pg
  /\ \A p \in Pg : /\ e.get[p] = <<0, p>> \/ \E i \in 1 .. e.n - 1 : e.get[p] = <<i, p>>
                   /\ p \in e.list <=> e.get[p] # <<0, p>>
                   /\ e.get[p] = <<0, p>> => e.at[p] = e.file[p]
                   /\ p \in e.min => p \in e.reg
  /\ e.list \subseteq e.reg /\ e.spill \subseteq e.reg /\ e.cap \subseteq e.reg
  /\ \A m \in e.min : m \in Nat /\ m + 1 \in e.min
  /\ e.loose \subseteq e.freed
  /\ e.cap \cap e.list = {} /\ e.min \cap e.list = {}

LEMMA AtSame ==
  ASSUME NEW file, NEW ts, NEW us, NEW l \in Nat, \A i \in 1 .. l : ts[i] = us[i]
  PROVE  AtOf(file, ts, l) = AtOf(file, us, l)
<1> SUFFICES ASSUME NEW p \in Pg
             PROVE  PageAt([file |-> file, txns |-> ts], PageGet(ts, l, p))
                  = PageAt([file |-> file, txns |-> us], PageGet(us, l, p))
  BY DEF AtOf
<1>1. PageGet(ts, l, p) = PageGet(us, l, p)
  BY GetSame
<1>2. CASE PageGet(ts, l, p) = <<0, p>>
  BY <1>1, <1>2 DEF PageAt
<1>3. ASSUME NEW i \in 1 .. l, PageGet(ts, l, p) = <<i, p>>
      PROVE  PageAt([file |-> file, txns |-> ts], PageGet(ts, l, p))
           = PageAt([file |-> file, txns |-> us], PageGet(us, l, p))
  BY <1>1, <1>3 DEF PageAt
<1> QED BY <1>2, <1>3, GetIs

LEMMA EnvSame ==
  ASSUME NEW b, NEW file, NEW ts, NEW us, NEW l \in Nat, l > 0,
         \A i \in 1 .. l - 1 : ts[i] = us[i], ts[l].head = us[l].head
  PROVE  EnvOf(b, file, ts, l) = EnvOf(b, file, us, l)
<1> DEFINE k == l - 1
<1>0. k \in Nat /\ \A i \in 1 .. k : ts[i] = us[i]
  OBVIOUS
<1>1. AtOf(file, ts, k) = AtOf(file, us, k)
  BY <1>0, AtSame
<1>2. [p \in Pg |-> PageGet(ts, k, p)] = [p \in Pg |-> PageGet(us, k, p)]
  BY <1>0, GetSame
<1>3. \A j \in 0 .. k : NextAt(b, ts, j) = NextAt(b, us, j)
  BY DEF NextAt
<1>4. \A j \in 0 .. k : HeadUnder(b, ts, j) = HeadUnder(b, us, j)
  <2> SUFFICES ASSUME NEW j \in 0 .. k, j # 0 PROVE ts[j + 1].head = us[j + 1].head
    BY DEF HeadUnder
  <2>1. j + 1 = l \/ j + 1 \in 1 .. k
    OBVIOUS
  <2> QED BY <2>1
<1>5. \A j \in 0 .. k : HeldTo(ts, j) = HeldTo(us, j)
  <2> SUFFICES ASSUME NEW j \in 0 .. k PROVE HeldTo(ts, j) = HeldTo(us, j)
    OBVIOUS
  <2>1. \A i \in 1 .. j : ts[i] = us[i]
    BY <1>0
  <2> QED BY <2>1 DEF HeldTo
<1>6. /\ SpillTo(ts, k) = SpillTo(us, k) /\ FreedTo(ts, k) = FreedTo(us, k)
      /\ LooseTo(ts, k) = LooseTo(us, k)
  BY <1>0 DEF SpillTo, FreedTo, LooseTo
<1>7. ListAt(ts, k) = ListAt(us, k)
  <2> SUFFICES ASSUME NEW p \in Pg PROVE p \in ListAt(ts, k) <=> p \in ListAt(us, k)
    BY DEF ListAt
  <2>1. \A i \in 1 .. k : \A j \in i + 1 .. k : ts[j] = us[j]
    BY <1>0
  <2> QED BY <1>0, <2>1 DEF ListAt
<1>8. /\ {p \in Pg : \A j \in 0 .. k : p \in HeadUnder(b, ts, j)}
         = {p \in Pg : \A j \in 0 .. k : p \in HeadUnder(b, us, j)}
      /\ {p \in Nat : \A j \in 0 .. k : NextAt(b, ts, j) <= p}
         = {p \in Nat : \A j \in 0 .. k : NextAt(b, us, j) <= p}
  BY <1>3, <1>4
<1>9. {p \in Pg : \A j \in 0 .. k : \/ p \in HeadUnder(b, ts, j) \cup HeldTo(ts, j)
                                    \/ p >= NextAt(b, ts, j)}
    = {p \in Pg : \A j \in 0 .. k : \/ p \in HeadUnder(b, us, j) \cup HeldTo(us, j)
                                    \/ p >= NextAt(b, us, j)}
  BY <1>3, <1>4, <1>5
<1> QED BY <1>1, <1>2, <1>6, <1>7, <1>8, <1>9 DEF EnvOf

LEMMA GetTyped ==
  ASSUME NEW file \in [Pg -> Page], NEW ts \in Seq(TxnRec), NEW l \in 0 .. Len(ts)
  PROVE  AtOf(file, ts, l) \in [Pg -> Page]
<1> SUFFICES ASSUME NEW p \in Pg
             PROVE  PageAt([file |-> file, txns |-> ts], PageGet(ts, l, p)) \in Page
  BY DEF AtOf
<1>1. CASE PageGet(ts, l, p) = <<0, p>>
  BY <1>1 DEF PageAt
<1>2. ASSUME NEW i \in 1 .. l, PageGet(ts, l, p) = <<i, p>>, p \in DOMAIN ts[i].dirty
      PROVE  PageAt([file |-> file, txns |-> ts], PageGet(ts, l, p)) \in Page
  <2>1. ts[i] \in TxnRec
    OBVIOUS
  <2>2. ts[i].dirty \in Dirties
    BY <2>1, TxnIs
  <2>3. ts[i].dirty[p] \in Page
    BY <2>2, <1>2, DirtiesOf
  <2> QED BY <1>2, <2>3 DEF PageAt
<1> QED BY <1>1, <1>2, GetIs

\* What the top one of l transactions sees.
LEMMA InEnv ==
  ASSUME NEW b, NEW file, NEW ts \in Seq(TxnRec), NEW l \in 1 .. Len(ts), NEW e,
         e = EnvOf(b, file, ts, l)
  PROVE  /\ \A p \in Pg : PageGet(ts, l, p) = GetIn(e, ts[l], p)
         /\ AtOf(file, ts, l) = AtIn(e, ts[l])
         /\ DOMAIN ts[l].dirty \cap ts[l].spill = {} => ListAt(ts, l) = ListIn(e, ts[l])
<1>1. /\ \A p \in Pg : e.get[p] = PageGet(ts, l - 1, p)
      /\ e.n = l /\ e.file = file
      /\ \A p \in Pg : e.at[p] = PageAt([file |-> file, txns |-> ts], PageGet(ts, l - 1, p))
      /\ e.list = ListAt(ts, l - 1)
  BY DEF EnvOf, AtOf
<1>2. \A p \in Pg : PageGet(ts, l, p) = GetIn(e, ts[l], p)
  BY <1>1, GetTop DEF GetIn
<1>3. ASSUME NEW p \in Pg
      PROVE  PageAt([file |-> file, txns |-> ts], PageGet(ts, l, p)) = AtIn(e, ts[l])[p]
  <2>1. CASE p \in ts[l].spill
    BY <1>1, <1>2, <2>1 DEF GetIn, AtIn, PageAt
  <2>2. CASE p \notin ts[l].spill /\ p \in DOMAIN ts[l].dirty
    <3>1. PageGet(ts, l, p) = <<l, p>> /\ l # 0
      BY <1>1, <1>2, <2>2 DEF GetIn
    <3> QED BY <3>1, <2>2 DEF AtIn, PageAt
  <2>3. CASE p \notin ts[l].spill /\ p \notin DOMAIN ts[l].dirty
    BY <1>1, <1>2, <2>3 DEF GetIn, AtIn
  <2> QED BY <2>1, <2>2, <2>3
<1>4. AtOf(file, ts, l) = AtIn(e, ts[l])
  BY <1>3 DEF AtOf, AtIn
<1>5. ASSUME DOMAIN ts[l].dirty \cap ts[l].spill = {}
      PROVE  ListAt(ts, l) = ListIn(e, ts[l])
  <2>0. ts[l] \in TxnRec
    OBVIOUS
  <2>1. ts[l].dirty \in Dirties
    BY <2>0, TxnIs
  <2>2. DOMAIN ts[l].dirty \subseteq Pg
    BY <2>1, DirtiesOf
  <2>3. ListAt(ts, l - 1) \subseteq Pg /\ ListAt(ts, l) \subseteq Pg
    BY DEF ListAt
  <2>4. ASSUME NEW p \in ListAt(ts, l) PROVE p \in ListIn(e, ts[l])
    <3>1. PICK i \in 1 .. l : p \in DOMAIN ts[i].dirty /\ \A j \in i + 1 .. l : p \notin ts[j].spill
      BY DEF ListAt
    <3>2. CASE i = l
      BY <1>5, <3>1, <3>2 DEF ListIn
    <3>3. CASE i # l
      <4>1. i \in 1 .. l - 1 /\ l \in i + 1 .. l
        BY <3>3
      <4>2. \A j \in i + 1 .. l - 1 : j \in i + 1 .. l
        OBVIOUS
      <4>3. p \in ListAt(ts, l - 1)
        BY <2>3, <3>1, <4>1, <4>2 DEF ListAt
      <4> QED BY <1>1, <3>1, <4>1, <4>3 DEF ListIn
    <3> QED BY <3>2, <3>3
  <2>5. ASSUME NEW p \in ListIn(e, ts[l]) PROVE p \in ListAt(ts, l)
    <3>1. p \notin ts[l].spill /\ p \in DOMAIN ts[l].dirty \cup ListAt(ts, l - 1)
      BY <1>1 DEF ListIn
    <3>2. CASE p \in DOMAIN ts[l].dirty
      <4>1. l \in 1 .. l /\ l + 1 .. l = {}
        OBVIOUS
      <4> QED BY <2>2, <3>2, <4>1 DEF ListAt
    <3>3. CASE p \in ListAt(ts, l - 1)
      <4>1. PICK i \in 1 .. l - 1 : p \in DOMAIN ts[i].dirty /\ \A j \in i + 1 .. l - 1 : p \notin ts[j].spill
        BY <3>3 DEF ListAt
      <4>2. \A j \in i + 1 .. l : j = l \/ j \in i + 1 .. l - 1
        OBVIOUS
      <4> QED BY <2>3, <3>1, <3>3, <4>1, <4>2 DEF ListAt
    <3> QED BY <3>1, <3>2, <3>3
  <2> QED BY <2>4, <2>5
<1> QED BY <1>2, <1>4, <1>5

\* The transactions below keep apart what EnvOK says.
LEMMA EnvIsOK ==
  ASSUME NEW b, NEW file \in [Pg -> Page], NEW ts \in Seq(TxnRec), NEW l \in 1 .. Len(ts),
         b.next \in Nat,
         \A i \in 1 .. l - 1 : Mem(EnvOf(b, file, ts, i), ts[i], ts[i + 1].head)
  PROVE  EnvOK(EnvOf(b, file, ts, l))
<1> DEFINE e == EnvOf(b, file, ts, l)
           k == l - 1
<1>0. k \in Nat /\ k \in 0 .. Len(ts) /\ \A i \in 1 .. k : ts[i] \in TxnRec
  OBVIOUS
<1>m. \A i \in 1 .. k : /\ DOMAIN ts[i].dirty \cap ts[i].spill = {}
                       /\ Held(ts[i]) \subseteq EnvOf(b, file, ts, i).reg
                       /\ Held(ts[i]) \subseteq 2 .. ts[i].next - 1
                       /\ Held(ts[i]) \cap ts[i + 1].head = {}
  BY DEF Mem
<1>1. /\ e.n = l /\ e.file = file /\ e.at = AtOf(file, ts, k)
      /\ \A p \in Pg : e.get[p] = PageGet(ts, k, p)
      /\ e.list = ListAt(ts, k) /\ e.spill = SpillTo(ts, k)
      /\ e.freed = FreedTo(ts, k) /\ e.loose = LooseTo(ts, k)
      /\ e.cap = {p \in Pg : \A j \in 0 .. k : p \in HeadUnder(b, ts, j)}
      /\ e.min = {p \in Nat : \A j \in 0 .. k : NextAt(b, ts, j) <= p}
      /\ e.reg = {p \in Pg : \A j \in 0 .. k : \/ p \in HeadUnder(b, ts, j) \cup HeldTo(ts, j)
                                               \/ p >= NextAt(b, ts, j)}
  BY DEF EnvOf
<1>2. e.at \in [Pg -> Page]
  BY <1>0, <1>1, GetTyped
<1>3. \A p \in Pg : e.get[p] = <<0, p>> \/ \E i \in 1 .. l - 1 : e.get[p] = <<i, p>>
  BY <1>0, <1>1, GetIs
<1>4. \A p \in Pg : p \in e.list <=> e.get[p] # <<0, p>>
  <2> SUFFICES ASSUME NEW p \in Pg PROVE p \in e.list <=> e.get[p] # <<0, p>>
    OBVIOUS
  <2>1. \A i \in 1 .. k : DOMAIN ts[i].dirty \cap ts[i].spill = {}
    BY <1>m
  <2>2. p \in ListAt(ts, k) <=> PageGet(ts, k, p) # <<0, p>>
    BY <1>0, <2>1, GetList
  <2> HIDE DEF e, k
  <2> QED BY <1>1, <2>2
<1>5. ASSUME NEW p \in Pg, e.get[p] = <<0, p>> PROVE e.at[p] = e.file[p]
  <2>1. PageGet(ts, k, p) = <<0, p>>
    BY <1>1, <1>5
  <2>2. e.at[p] = PageAt([file |-> file, txns |-> ts], <<0, p>>)
    BY <1>1, <2>1 DEF AtOf
  <2> QED BY <1>1, <2>2 DEF PageAt
<1>6. ASSUME NEW i \in 1 .. k, NEW p \in Held(ts[i]) PROVE p \in e.reg
  <2> DEFINE r == EnvOf(b, file, ts, i).reg
  <2>1. p \in r /\ r = {q \in Pg : \A j \in 0 .. i - 1 : \/ q \in HeadUnder(b, ts, j) \cup HeldTo(ts, j)
                                                         \/ q >= NextAt(b, ts, j)}
    BY <1>m DEF EnvOf
  <2>2. ASSUME NEW j \in 0 .. k
        PROVE  p \in HeadUnder(b, ts, j) \cup HeldTo(ts, j) \/ p >= NextAt(b, ts, j)
    <3>1. CASE j <= i - 1
      <4>1. j \in 0 .. i - 1
        BY <3>1
      <4> QED BY <2>1, <4>1
    <3>2. CASE ~ (j <= i - 1)
      <4>1. i \in 1 .. j
        BY <3>2
      <4> QED BY <4>1 DEF HeldTo
    <3> QED BY <3>1, <3>2
  <2> HIDE DEF r
  <2> QED BY <1>1, <2>1, <2>2
<1>7. e.list \subseteq e.reg
  <2> SUFFICES ASSUME NEW p \in ListAt(ts, k) PROVE p \in e.reg
    BY <1>1
  <2>1. PICK i \in 1 .. k : p \in DOMAIN ts[i].dirty
    BY DEF ListAt
  <2>2. p \in Held(ts[i])
    BY <2>1 DEF Held
  <2> HIDE DEF e, k
  <2> QED BY <2>2, <1>6
<1>8. e.spill \subseteq e.reg
  <2> SUFFICES ASSUME NEW p \in SpillTo(ts, k) PROVE p \in e.reg
    BY <1>1
  <2>1. PICK i \in 1 .. k : p \in ts[i].spill
    BY DEF SpillTo
  <2>2. p \in Held(ts[i])
    BY <2>1 DEF Held
  <2> HIDE DEF e, k
  <2> QED BY <2>2, <1>6
<1>9. e.cap \subseteq e.reg
  BY <1>1
<1>10. \A m \in e.min : m \in Nat /\ m + 1 \in e.min
  <2>1. \A j \in 0 .. k : NextAt(b, ts, j) \in Nat
    BY <1>0, TxnIs DEF NextAt
  <2>2. e.min = {p \in Nat : \A j \in 0 .. k : NextAt(b, ts, j) <= p}
    BY <1>1
  <2> HIDE DEF e, k
  <2>3. ASSUME NEW m \in e.min PROVE m \in Nat /\ m + 1 \in e.min
    <3>1. m \in Nat /\ \A j \in 0 .. k : NextAt(b, ts, j) <= m
      BY ONLY <2>2, <2>3
    <3>2. m + 1 \in Nat /\ \A j \in 0 .. k : NextAt(b, ts, j) <= m + 1
      BY ONLY <2>1, <3>1
    <3> QED BY ONLY <2>2, <3>1, <3>2
  <2> QED BY ONLY <2>3
<1>11. \A p \in Pg : p \in e.min => p \in e.reg
  <2>1. \A j \in 0 .. k : NextAt(b, ts, j) \in Nat
    BY <1>0, TxnIs DEF NextAt
  <2>2. \A p \in Pg : p \in Nat
    BY DEF Pg
  <2> HIDE DEF k, e
  <2> QED BY <1>1, <2>1, <2>2
<1>12. e.loose \subseteq e.freed
  BY <1>1 DEF LooseTo, FreedTo
<1>13. e.list \subseteq Pg
  BY <1>1 DEF ListAt
<1>14. e.n \in Nat \ {0} /\ e.file \in [Pg -> Page] /\ e.n - 1 = l - 1
  BY <1>1
<1>15. ASSUME NEW p \in e.list PROVE p \notin e.cap /\ p \notin e.min
  <2>1. PICK i \in 1 .. k : p \in DOMAIN ts[i].dirty
    BY <1>1, <1>15 DEF ListAt
  <2>2. p \in 2 .. ts[i].next - 1 /\ p \notin ts[i + 1].head
    BY <2>1, <1>m DEF Held
  <2>3. i \in 0 .. k /\ i # 0 /\ ts[i].next \in Nat
    BY <1>0, TxnIs
  <2>4. HeadUnder(b, ts, i) = ts[i + 1].head /\ NextAt(b, ts, i) = ts[i].next
    BY <2>3 DEF HeadUnder, NextAt
  <2>5. ~ (ts[i].next <= p)
    BY <2>2, <2>3
  <2> HIDE DEF e, k
  <2> QED BY <1>1, <2>2, <2>3, <2>4, <2>5
<1>16. e.cap \cap e.list = {} /\ e.min \cap e.list = {}
  BY <1>15
<1> HIDE DEF e, k
<1> QED BY <1>16, <1>2, <1>3, <1>4, <1>5, <1>7, <1>8, <1>9, <1>10, <1>11, <1>12, <1>13, <1>14 DEF EnvOK, e

-----------------------------------------------------------------------------
(***************************************************************************)
(* States whose last transaction has an environment.                       *)
(***************************************************************************)

\* State s is one whose last transaction has environment e.
Fits(b, e, s) == /\ s \in StRec /\ Top(s) \in Nat \ {0}
                 /\ e = EnvOf(b, s.file, s.txns, Top(s)) /\ EnvOK(e)

\* What operations of the last transaction leave alone.
Along(s, a) == /\ Top(a) = Top(s) /\ \A i \in 1 .. Top(s) - 1 : a.txns[i] = s.txns[i]
               /\ T(a).head = T(s).head /\ T(a).bk = T(s).bk
               /\ Held(T(s)) \subseteq Held(T(a))

LEMMA StIs == ASSUME NEW s \in StRec
              PROVE  /\ s.file \in [Pg -> Page] /\ s.head \in SUBSET Pg /\ s.txns \in Seq(TxnRec)
                     /\ s.rc \in Rcs /\ s.np \in Nat /\ s.mc \in [Cursors \cup {Local} -> CurRec]
                     /\ Top(s) \in Nat /\ (Top(s) # 0 => T(s) \in TxnRec)
  BY DEF StRec, Top, T

LEMMA CurIs == ASSUME NEW r \in CurRec
               PROVE  /\ r.of \in Nat /\ r.init \in BOOLEAN /\ r.leaf \in Leaf \cup {NoVal}
                      /\ r.pg \in [1 .. 2 -> Ptrs] /\ r.pg = <<r.pg[1], r.pg[2]>>
                      /\ r.pg[1] \in Ptrs /\ r.pg[2] \in Ptrs
<1>1. r.pg \in [1 .. 2 -> Ptrs]
  BY DEF CurRec
<1> QED BY <1>1 DEF CurRec

LEMMA PtrIs == ASSUME NEW q \in Ptrs
               PROVE  q = <<q[1], q[2]>> /\ q[1] \in Int /\ q[2] \in Nat
  BY DEF Ptrs

LEMMA PgIs == /\ \A p \in Pg : p \in Nat /\ p # NoPg /\ p # 0 /\ p >= 2 /\ p < MaxPg /\ p \in PgN
              /\ MaxPg \in Nat /\ NoPg \in PgN /\ \A p \in PgN : p \in Nat /\ (p # NoPg => p \in Pg)
  BY NestedAssumption DEF Pg, PgN, NoPg

LEMMA GetInIs ==
  ASSUME NEW e, EnvOK(e), NEW t \in TxnRec, NEW p \in Pg
  PROVE  /\ GetIn(e, t, p) \in Ptrs /\ GetIn(e, t, p)[2] = p
         /\ GetIn(e, t, p)[1] \in 0 .. e.n /\ GetIn(e, t, p) # NoPtr
<1>1. e.n \in Nat /\ p \in Nat
  BY PgIs DEF EnvOK
<1>2. GetIn(e, t, p) = <<0, p>> \/ \E i \in 1 .. e.n : GetIn(e, t, p) = <<i, p>>
  <2>1. e.get[p] = <<0, p>> \/ \E i \in 1 .. e.n - 1 : e.get[p] = <<i, p>>
    BY DEF EnvOK
  <2>2. 1 .. e.n - 1 \subseteq 1 .. e.n /\ e.n \in 1 .. e.n
    BY DEF EnvOK
  <2> QED BY <2>1, <2>2 DEF GetIn
<1>3. PICK i \in 0 .. e.n : GetIn(e, t, p) = <<i, p>>
  BY <1>1, <1>2
<1> QED BY <1>1, <1>3 DEF Ptrs, NoPtr

LEMMA AtInIs ==
  ASSUME NEW e, EnvOK(e), NEW t \in TxnRec
  PROVE  AtIn(e, t) \in [Pg -> Page]
<1> SUFFICES ASSUME NEW p \in Pg PROVE AtIn(e, t)[p] \in Page
  BY DEF AtIn
<1>1. e.at[p] \in Page /\ e.file[p] \in Page
  BY DEF EnvOK
<1>2. p \in DOMAIN t.dirty => t.dirty[p] \in Page
  BY TxnIs
<1> QED BY <1>1, <1>2 DEF AtIn

\* The data of the last transaction, where the operations read it.
LEMMA FitsIs ==
  ASSUME NEW b, NEW e, NEW s, Fits(b, e, s)
  PROVE  /\ e.n = Top(s) /\ e.file = s.file /\ T(s) \in TxnRec /\ s \in StRec /\ EnvOK(e)
         /\ Top(s) \in Nat \ {0} /\ Top(s) > 0
         /\ \A p \in Pg : /\ Get(s, p) = GetIn(e, T(s), p)
                          /\ PageAt(s, Get(s, p)) = AtIn(e, T(s))[p]
<1>1. Top(s) \in 1 .. Len(s.txns) /\ s.txns \in Seq(TxnRec) /\ T(s) \in TxnRec
  BY StIs DEF Fits, Top
<1>2. e.n = Top(s) /\ e.file = s.file
  BY DEF Fits, EnvOf
<1>3. \A p \in Pg : Get(s, p) = GetIn(e, T(s), p)
  BY <1>1, InEnv DEF Fits, Get, T
<1>4. ASSUME NEW p \in Pg PROVE PageAt(s, Get(s, p)) = AtIn(e, T(s))[p]
  <2>1. AtOf(s.file, s.txns, Top(s)) = AtIn(e, T(s))
    BY <1>1, InEnv DEF Fits, T
  <2>2. AtOf(s.file, s.txns, Top(s))[p] = PageAt([file |-> s.file, txns |-> s.txns], Get(s, p))
    BY DEF AtOf, Get
  <2>3. PageAt([file |-> s.file, txns |-> s.txns], Get(s, p)) = PageAt(s, Get(s, p))
    BY DEF PageAt
  <2> QED BY <2>1, <2>2, <2>3
<1> QED BY <1>1, <1>2, <1>3, <1>4 DEF Fits

LEMMA FitsWithT ==
  ASSUME NEW b, NEW e, NEW s, Fits(b, e, s), NEW t \in TxnRec, t.head = T(s).head
  PROVE  LET a == WithT(s, t)
         IN  /\ Fits(b, e, a) /\ T(a) = t /\ a.head = s.head /\ a.mc = s.mc /\ a.rc = s.rc
             /\ a.np = s.np /\ a.file = s.file /\ Top(a) = Top(s)
             /\ t.bk = T(s).bk /\ Held(T(s)) \subseteq Held(t) => Along(s, a)
<1> DEFINE a == WithT(s, t)
<1>1. s \in StRec /\ Top(s) > 0 /\ Top(s) \in Nat \ {0}
  BY FitsIs
<1>2. /\ a.file = s.file /\ a.head = s.head /\ a.mc = s.mc /\ a.rc = s.rc /\ a.np = s.np
      /\ Top(a) = Top(s) /\ \A i \in 1..Top(s)-1 : a.txns[i] = s.txns[i]
      /\ T(a) = t /\ a \in StRec
  BY <1>1, WithTIs
<1>3. a.txns[Top(s)].head = s.txns[Top(s)].head
  BY <1>2 DEF T
<1> HIDE DEF a
<1>4. EnvOf(b, s.file, s.txns, Top(s)) = EnvOf(b, s.file, a.txns, Top(s))
  BY <1>1, <1>2, <1>3, EnvSame
<1>5. Fits(b, e, a)
  BY <1>1, <1>2, <1>4 DEF Fits
<1>6. t.bk = T(s).bk /\ Held(T(s)) \subseteq Held(t) => Along(s, a)
  BY <1>2 DEF Along
<1> QED BY <1>2, <1>5, <1>6 DEF a

LEMMA FitsSame ==
  ASSUME NEW b, NEW e, NEW s, Fits(b, e, s), NEW a \in StRec, a.txns = s.txns, a.file = s.file
  PROVE  Fits(b, e, a) /\ Along(s, a) /\ T(a) = T(s) /\ Top(a) = Top(s)
  BY DEF Fits, Along, Top, T

LEMMA AlongTrans ==
  ASSUME NEW s, NEW a, NEW c, Along(s, a), Along(a, c)
  PROVE  Along(s, c)
  BY DEF Along

-----------------------------------------------------------------------------
LEMMA TreeIs ==
  ASSUME NEW at \in [Pg -> Page], NEW root, TreeShape(at, root)
  PROVE  /\ KidOf(at, root) \in [Leaf -> PgN] /\ PagesOf(at, root) \subseteq Pg
         /\ root \in PgN /\ (root # NoPg => root \in PagesOf(at, root) /\ root \in Pg)
         /\ \A n \in Leaf : /\ KidOf(at, root)[n] \in PgN
                            /\ KidOf(at, root)[n] # NoPg => /\ KidOf(at, root)[n] \in PagesOf(at, root)
                                                            /\ KidOf(at, root)[n] \in Pg
                                                            /\ root # NoPg
         /\ \A p \in PagesOf(at, root) : p = root \/ \E n \in Leaf : p = KidOf(at, root)[n]
         /\ (root = NoPg => PagesOf(at, root) = {})
<1>1. root \in PgN /\ \A n \in Leaf : KidOf(at, root)[n] \in PgN
  BY DEF TreeShape
<1>2. KidOf(at, root) \in [Leaf -> PgN]
  <2>1. CASE root = NoPg
    BY <2>1, PgIs DEF KidOf
  <2>2. CASE root # NoPg
    <3>1. at[root] \in Page
      BY <1>1, <2>2, PgIs
    <3> QED BY <2>2, <3>1 DEF KidOf, Page
  <2> QED BY <2>1, <2>2
<1>3. PagesOf(at, root) \subseteq Pg
  BY <1>1, PgIs DEF PagesOf
<1>4. \A n \in Leaf : root = NoPg => KidOf(at, root)[n] = NoPg
  BY DEF KidOf
<1>5. root = NoPg => PagesOf(at, root) = {}
  BY <1>4 DEF PagesOf
<1>6. root # NoPg => root \in PagesOf(at, root)
  BY DEF PagesOf
<1>7. \A n \in Leaf : KidOf(at, root)[n] # NoPg => KidOf(at, root)[n] \in PagesOf(at, root)
  BY DEF PagesOf
<1>8. \A p \in PagesOf(at, root) : p = root \/ \E n \in Leaf : p = KidOf(at, root)[n]
  BY DEF PagesOf
<1> QED BY <1>1, <1>2, <1>3, <1>4, <1>5, <1>6, <1>7, <1>8, PgIs

\* A tree is what its pages are.
LEMMA Agree ==
  ASSUME NEW at \in [Pg -> Page], NEW at2 \in [Pg -> Page], NEW root, TreeShape(at, root),
         \A p \in PagesOf(at, root) : at2[p] = at[p]
  PROVE  /\ KidOf(at2, root) = KidOf(at, root) /\ PagesOf(at2, root) = PagesOf(at, root)
         /\ ValOf(at2, root) = ValOf(at, root) /\ TreeShape(at2, root)
<1>1. KidOf(at2, root) = KidOf(at, root)
  <2>1. root # NoPg => root \in PagesOf(at, root)
    BY TreeIs
  <2> QED BY <2>1 DEF KidOf
<1>2. PagesOf(at2, root) = PagesOf(at, root)
  BY <1>1 DEF PagesOf
<1>3. \A n \in Leaf : KidOf(at, root)[n] # NoPg => at2[KidOf(at, root)[n]] = at[KidOf(at, root)[n]]
  BY TreeIs
<1>4. ValOf(at2, root) = ValOf(at, root)
  BY <1>1, <1>3 DEF ValOf
<1>5. TreeShape(at2, root)
  BY <1>1 DEF TreeShape
<1> QED BY <1>1, <1>2, <1>4, <1>5

\* The tree and the cursors do not notice a change of other pages.
LEMMA AgreeIn ==
  ASSUME NEW e, EnvOK(e), NEW t \in TxnRec, NEW t2 \in TxnRec, t2.root = t.root,
         TreeShape(AtIn(e, t), t.root),
         \A p \in PagesOf(AtIn(e, t), t.root) : /\ AtIn(e, t2)[p] = AtIn(e, t)[p]
                                                /\ GetIn(e, t2, p) = GetIn(e, t, p)
  PROVE  /\ KidOf(AtIn(e, t2), t2.root) = KidOf(AtIn(e, t), t.root)
         /\ PagesOf(AtIn(e, t2), t2.root) = PagesOf(AtIn(e, t), t.root)
         /\ ValOf(AtIn(e, t2), t2.root) = ValOf(AtIn(e, t), t.root)
         /\ TreeShape(AtIn(e, t2), t2.root)
         /\ \A n \in Leaf : Path(e, t2, n) = Path(e, t, n)
         /\ \A m : Curs(e, t, m) => Curs(e, t2, m)
<1> DEFINE at == AtIn(e, t)
           at2 == AtIn(e, t2)
           r == t.root
<1>1. at \in [Pg -> Page] /\ at2 \in [Pg -> Page]
  BY AtInIs
<1>2. /\ KidOf(at2, r) = KidOf(at, r) /\ PagesOf(at2, r) = PagesOf(at, r)
      /\ ValOf(at2, r) = ValOf(at, r) /\ TreeShape(at2, r)
  BY <1>1, Agree
<1>3. /\ r # NoPg => r \in PagesOf(at, r)
      /\ \A n \in Leaf : KidOf(at, r)[n] # NoPg => KidOf(at, r)[n] \in PagesOf(at, r)
  BY <1>1, TreeIs
<1>4. \A n \in Leaf : Path(e, t2, n) = Path(e, t, n)
  BY <1>2, <1>3 DEF Path, PtrTo
<1>5. \A m : Curs(e, t, m) => Curs(e, t2, m)
  BY <1>2, <1>4 DEF Curs
<1> QED BY <1>2, <1>4, <1>5

-----------------------------------------------------------------------------
(***************************************************************************)
(* mdb_page_alloc: a loose page, one of the freelist, or a new one.        *)
(***************************************************************************)

LEMMA RangeIs == ASSUME NEW S, NEW q \in Seq(S)
                 PROVE  Range(q) = {q[i] : i \in 1 .. Len(q)} /\ Range(q) \subseteq S
  BY DEF Range

LEMMA LooseTail ==
  ASSUME NEW q \in Seq(Pg), q # <<>>, Once(q)
  PROVE  /\ Head(q) \in Range(q) /\ Head(q) \in Pg /\ Tail(q) \in Seq(Pg)
         /\ Range(Tail(q)) = Range(q) \ {Head(q)} /\ Once(Tail(q))
<1>1. Len(q) \in Nat /\ Len(q) > 0 /\ Head(q) = q[1] /\ DOMAIN q = 1 .. Len(q)
  OBVIOUS
<1>2. /\ Tail(q) \in Seq(Pg) /\ Len(Tail(q)) = Len(q) - 1
      /\ \A i \in 1 .. Len(q) - 1 : Tail(q)[i] = q[i + 1]
  BY <1>1
<1>3. DOMAIN Tail(q) = 1 .. Len(q) - 1
  BY <1>2
<1>4. Once(Tail(q))
  <2> SUFFICES ASSUME NEW i \in 1 .. Len(q) - 1, NEW j \in 1 .. Len(q) - 1, q[i + 1] = q[j + 1]
               PROVE  i = j
    BY <1>2, <1>3 DEF Once
  <2>1. i + 1 \in DOMAIN q /\ j + 1 \in DOMAIN q
    BY <1>1
  <2>2. i + 1 = j + 1
    BY <2>1 DEF Once
  <2> QED BY <2>2
<1>5. Range(q) = {q[i] : i \in 1 .. Len(q)} /\ Range(Tail(q)) = {Tail(q)[i] : i \in 1 .. Len(q) - 1}
  BY <1>2, RangeIs
<1>6. ASSUME NEW x \in Range(q), x # q[1] PROVE x \in Range(Tail(q))
  <2>1. PICK i \in 1 .. Len(q) : x = q[i]
    BY <1>5
  <2>2. i # 1
    BY <1>6, <2>1
  <2>3. i - 1 \in 1 .. Len(q) - 1 /\ (i - 1) + 1 = i
    BY <1>1, <2>2
  <2>4. Tail(q)[i - 1] = q[i]
    BY <1>2, <2>3
  <2> QED BY <1>5, <2>1, <2>3, <2>4
<1>7. ASSUME NEW x \in Range(Tail(q)) PROVE x \in Range(q) /\ x # q[1]
  <2>1. PICK i \in 1 .. Len(q) - 1 : x = q[i + 1]
    BY <1>2, <1>5
  <2>2. i + 1 \in DOMAIN q /\ 1 \in DOMAIN q /\ i + 1 # 1
    BY <1>1
  <2>3. x # q[1]
    BY <2>1, <2>2 DEF Once
  <2> QED BY <1>1, <1>5, <2>1, <2>2, <2>3
<1>8. Head(q) \in Range(q) /\ Head(q) \in Pg
  BY <1>1, <1>5
<1> QED BY <1>1, <1>2, <1>4, <1>6, <1>7, <1>8

LEMMA MinIs == ASSUME NEW S \in SUBSET Nat, S # {}
               PROVE  Min(S) \in S
<1>1. \E x \in S : \A y \in S : x <= y
  BY NatHasMin
<1> QED BY <1>1 DEF Min

LEMMA ListFinite == ASSUME NEW e, EnvOK(e), NEW t \in TxnRec
                    PROVE  IsFiniteSet(ListIn(e, t)) /\ ListIn(e, t) \subseteq Pg
<1>1. ListIn(e, t) \subseteq Pg
  BY TxnIs DEF ListIn, EnvOK
<1>2. IsFiniteSet(Pg)
  BY PgIs, FS_Interval DEF Pg
<1> QED BY <1>1, <1>2, FS_Subset

LEMMA AddOne == ASSUME NEW S, IsFiniteSet(S), NEW p, p \notin S
                PROVE  Cardinality(S \cup {p}) = Cardinality(S) + 1 /\ Cardinality(S) \in Nat
  BY FS_AddElement, FS_CardinalityType
LEMMA SubOne == ASSUME NEW S, IsFiniteSet(S), NEW p \in S
                PROVE  Cardinality(S \ {p}) = Cardinality(S) - 1 /\ Cardinality(S) \in Nat
  BY FS_RemoveElement, FS_CardinalityType

-----------------------------------------------------------------------------
(* Allocation.                                                             *)

\* What the allocation of page p makes of the last transaction.
Alloced(e, t, head, t2, head2, p) ==
  /\ t2 \in TxnRec /\ head2 \in SUBSET Pg /\ p \in Pg
  /\ t2.root = t.root /\ t2.head = t.head /\ t2.bk = t.bk /\ t2.free = t.free /\ t2.spill = t.spill
  /\ t2.spills = t.spills /\ t2.err = t.err
  /\ DOMAIN t2.dirty = DOMAIN t.dirty \cup {p} /\ p \notin t2.spill
  /\ \A q \in Pg : q # p => GetIn(e, t2, q) = GetIn(e, t, q) /\ AtIn(e, t2)[q] = AtIn(e, t)[q]

LooseT(t)          == [t EXCEPT !.loose = Tail(@)]
FreshT(t, p, next) == [t EXCEPT !.dirty = With(@, p, Blank), !.room = @ - 1, !.next = next]

\* A loose page.
LEMMA AllocLoose ==
  ASSUME NEW e, EnvOK(e), NEW t \in TxnRec, NEW head \in SUBSET Pg, NEW m, Good(e, t, head, m, {}),
         t.loose # <<>>, NEW t2, t2 = LooseT(t)
  PROVE  Alloced(e, t, head, t2, head, Head(t.loose)) /\ Good(e, t2, head, m, {Head(t.loose)})
<1> DEFINE p == Head(t.loose)
<1>1. Once(t.loose) /\ Range(t.loose) \subseteq DOMAIN t.dirty /\ DOMAIN t.dirty \cap t.spill = {}
  BY DEF Good, Mem
<1>2. /\ p \in Range(t.loose) /\ p \in Pg /\ Tail(t.loose) \in Seq(Pg)
      /\ Range(Tail(t.loose)) = Range(t.loose) \ {p} /\ Once(Tail(t.loose))
  BY <1>1, LooseTail, TxnIs
<1>3. t2 \in TxnRec
  BY <1>2 DEF TxnRec, LooseT
<1>4. /\ t2.root = t.root /\ t2.next = t.next /\ t2.dirty = t.dirty /\ t2.spill = t.spill
      /\ t2.free = t.free /\ t2.room = t.room /\ t2.head = t.head /\ t2.bk = t.bk
      /\ t2.spills = t.spills /\ t2.err = t.err /\ t2.loose = Tail(t.loose)
  BY DEF TxnRec, LooseT
<1> HIDE DEF p
<1>5. AtIn(e, t2) = AtIn(e, t) /\ \A q \in Pg : GetIn(e, t2, q) = GetIn(e, t, q)
  BY <1>4 DEF AtIn, GetIn
<1>6. p \in DOMAIN t.dirty /\ p \notin t.spill
  BY <1>1, <1>2
<1>7. Alloced(e, t, head, t2, head, p)
  BY <1>2, <1>3, <1>4, <1>5, <1>6 DEF Alloced
<1>8. Mem(e, t2, head)
  BY <1>1, <1>2, <1>4 DEF Good, Mem, Held
<1>9. RoomIn(e, t2)
  BY <1>4 DEF Good, RoomIn, ListIn
<1>10. TreeShape(AtIn(e, t2), t2.root) /\ Curs(e, t2, m)
  <2>1. TreeShape(AtIn(e, t), t.root) /\ Curs(e, t, m)
    BY DEF Good
  <2>2. /\ TreeShape(AtIn(e, t2), t2.root)
        /\ \A x : Curs(e, t, x) => Curs(e, t2, x)
    <3>1. AtIn(e, t) \in [Pg -> Page]
      BY AtInIs
    <3>2. PagesOf(AtIn(e, t), t.root) \subseteq Pg
      BY <2>1, <3>1, TreeIs
    <3> QED BY <1>3, <1>4, <1>5, <2>1, <3>2, AgreeIn
  <2> QED BY <2>1, <2>2
<1>11. Parts(e, t2, head, {p})
  <2> DEFINE P == PagesOf(AtIn(e, t), t.root)
             L == Range(t.loose)
             L2 == Range(t2.loose)
  <2>1. Split(P, head, e.freed, t.free, L, e.recent, {}, t.next)
    BY DEF Good, Parts
  <2>2. L2 = L \ {p} /\ p \in L
    BY <1>2, <1>4
  <2> HIDE DEF P, L, L2
  <2>3. Split(P, head, e.freed, t.free, L2, e.recent, {p}, t.next)
    BY <2>1, <2>2 DEF Split
  <2> QED BY <2>3, <1>4, <1>5 DEF Parts, P, L2
<1> QED BY <1>7, <1>8, <1>9, <1>10, <1>11 DEF Good, p

\* A page that was in no transaction's hands.
LEMMA AllocFresh ==
  ASSUME NEW e, EnvOK(e), NEW t \in TxnRec, NEW head \in SUBSET Pg, NEW m, Good(e, t, head, m, {}),
         NEW p \in Pg, NEW next, NEW head2,
         \/ p \in head /\ head2 = head \ {p} /\ next = t.next
         \/ p = t.next /\ p + 1 < MaxPg /\ head2 = head /\ next = p + 1,
         NEW t2, t2 = FreshT(t, p, next)
  PROVE  Alloced(e, t, head, t2, head2, p) /\ Good(e, t2, head2, m, {p})
<1>0. Blank \in Page
  BY PgIs DEF Blank, Page
<1>1. /\ With(t.dirty, p, Blank) \in Dirties
      /\ DOMAIN With(t.dirty, p, Blank) = DOMAIN t.dirty \cup {p}
      /\ \A q \in DOMAIN t.dirty : q # p => With(t.dirty, p, Blank)[q] = t.dirty[q]
  <2>1. t.dirty \in Dirties
    BY TxnIs
  <2>2. \A f \in Dirties : /\ With(f, p, Blank) \in Dirties
                           /\ DOMAIN With(f, p, Blank) = DOMAIN f \cup {p}
                           /\ \A q \in DOMAIN f : q # p => With(f, p, Blank)[q] = f[q]
    BY <1>0, WithIs
  <2> QED BY <2>1, <2>2
<1>n. t.next \in Nat /\ p \in Nat /\ next \in Nat /\ t.room \in Int
  BY TxnIs, PgIs
<1>2. t2 \in TxnRec
  <2>1. \A d \in Dirties, r \in Int, x \in Nat :
          [t EXCEPT !.dirty = d, !.room = r, !.next = x] \in TxnRec
    BY DEF TxnRec
  <2>2. t.room - 1 \in Int
    BY <1>n
  <2> QED BY <1>1, <1>n, <2>1, <2>2 DEF FreshT
<1>3. /\ t2.root = t.root /\ t2.next = next /\ t2.dirty = With(t.dirty, p, Blank) /\ t2.spill = t.spill
      /\ t2.free = t.free /\ t2.room = t.room - 1 /\ t2.head = t.head /\ t2.bk = t.bk
      /\ t2.spills = t.spills /\ t2.err = t.err /\ t2.loose = t.loose
  BY DEF TxnRec, FreshT
<1>4. /\ t.next \in 2 .. MaxPg /\ t.next \in e.min
      /\ Held(t) \subseteq 2 .. t.next - 1 /\ head \subseteq 2 .. t.next - 1
      /\ DOMAIN t.dirty \cap t.spill = {} /\ Held(t) \cap head = {}
      /\ Range(t.loose) \subseteq DOMAIN t.dirty /\ Once(t.loose)
      /\ Held(t) \subseteq e.reg /\ head \subseteq e.cap /\ Held(t) \cap e.loose = {}
  BY DEF Good, Mem
<1> DEFINE P == PagesOf(AtIn(e, t), t.root)
           L == Range(t.loose)
<1>5. Split(P, head, e.freed, t.free, L, e.recent, {}, t.next)
  BY DEF Good, Parts
<1> HIDE DEF P, L
\* The page is not in use.
<1>6. p \notin Held(t) /\ p \notin e.list /\ p \in e.reg
  <2>1. CASE p \in head
    BY <2>1, <1>4 DEF EnvOK
  <2>2. CASE p = t.next
    <3>1. p \notin 2 .. t.next - 1
      BY <2>2, <1>n
    <3> QED BY <2>2, <3>1, <1>4 DEF EnvOK
  <2> QED BY <2>1, <2>2
<1>7. /\ p \notin P /\ p \notin e.freed
      /\ Split(P, head2, e.freed, t.free, L, e.recent, {p}, next)
  <2>1. CASE p \in head /\ head2 = head \ {p} /\ next = t.next
    BY <1>5, <2>1 DEF Split
  <2>2. CASE p = t.next /\ head2 = head /\ next = p + 1
    <3>1. p \notin 2 .. t.next - 1 /\ 2 .. next - 1 = (2 .. t.next - 1) \cup {p}
      BY <2>2, <1>n, PgIs
    <3> QED BY <1>5, <2>2, <3>1 DEF Split
  <2> QED BY <2>1, <2>2
<1>8. \A q \in Pg : q # p => GetIn(e, t2, q) = GetIn(e, t, q) /\ AtIn(e, t2)[q] = AtIn(e, t)[q]
  BY <1>1, <1>3 DEF GetIn, AtIn
<1>9. Alloced(e, t, head, t2, head2, p)
  BY <1>1, <1>2, <1>3, <1>6, <1>8 DEF Alloced, Held
<1>10. /\ TreeShape(AtIn(e, t2), t2.root) /\ Curs(e, t2, m)
       /\ PagesOf(AtIn(e, t2), t2.root) = P
  <2>1. TreeShape(AtIn(e, t), t.root) /\ Curs(e, t, m)
    BY DEF Good
  <2>2. P \subseteq Pg
    BY <2>1, AtInIs, TreeIs DEF P
  <2>3. \A q \in PagesOf(AtIn(e, t), t.root) : /\ AtIn(e, t2)[q] = AtIn(e, t)[q]
                                               /\ GetIn(e, t2, q) = GetIn(e, t, q)
    BY <1>7, <1>8, <2>2 DEF P
  <2> QED BY <1>2, <1>3, <2>1, <2>3, AgreeIn DEF P
<1>11. Parts(e, t2, head2, {p})
  BY <1>3, <1>7, <1>10 DEF Parts, L
<1>12. RoomIn(e, t2)
  <2>1. ListIn(e, t2) = ListIn(e, t) \cup {p} /\ p \notin ListIn(e, t)
    BY <1>1, <1>3, <1>6 DEF ListIn, Held
  <2>2. Cardinality(ListIn(e, t2)) = Cardinality(ListIn(e, t)) + 1 /\ Cardinality(ListIn(e, t)) \in Nat
    BY <2>1, ListFinite, AddOne
  <2>3. t.room = DirtyMax - Cardinality(ListIn(e, t))
    BY DEF Good, RoomIn
  <2> QED BY <2>2, <2>3, <1>3, NestedAssumption DEF RoomIn
<1>13. next \in 2 .. MaxPg /\ next \in e.min /\ next >= t.next /\ p <= next - 1
  <2>1. CASE p \in head /\ next = t.next
    BY <1>4, <1>n, <2>1
  <2>2. CASE p = t.next /\ p + 1 < MaxPg /\ next = p + 1
    <3>1. next \in e.min
      BY <1>4, <2>2 DEF EnvOK
    <3>2. next \in 2 .. MaxPg /\ next >= t.next /\ p <= next - 1
      BY <1>n, <2>2, PgIs
    <3> QED BY <3>1, <3>2
  <2> QED BY <2>1, <2>2
<1>14. Mem(e, t2, head2)
  <2>1. Held(t2) = Held(t) \cup {p}
    BY <1>1, <1>3 DEF Held
  <2>2. 2 .. t.next - 1 \subseteq 2 .. next - 1 /\ p \in 2 .. next - 1
    BY <1>13, <1>n, PgIs
  <2>3. head2 \subseteq head /\ p \notin head2
    <3>1. t.next \notin 2 .. t.next - 1
      BY <1>n
    <3> QED BY <1>4, <3>1
  <2>4. p \notin e.loose
    BY <1>7 DEF EnvOK
  <2>5. Held(t2) \subseteq 2 .. next - 1 /\ head2 \subseteq 2 .. next - 1 /\ Held(t2) \cap head2 = {}
    BY <1>4, <2>1, <2>2, <2>3
  <2>6. DOMAIN t2.dirty \cap t2.spill = {} /\ Range(t2.loose) \subseteq DOMAIN t2.dirty
    BY <1>1, <1>3, <1>4, <1>6 DEF Held
  <2>7. Held(t2) \subseteq e.reg /\ head2 \subseteq e.cap /\ Held(t2) \cap e.loose = {}
    BY <1>4, <1>6, <2>1, <2>3, <2>4
  <2> QED BY <1>3, <1>4, <1>13, <2>5, <2>6, <2>7 DEF Mem
<1> QED BY <1>9, <1>10, <1>11, <1>12, <1>14 DEF Good

-----------------------------------------------------------------------------
(***************************************************************************)
(* Changes of the last transaction that leave Good as it is, and           *)
(* failure.                                                                *)
(***************************************************************************)

SetT(t, p, page) == [t EXCEPT !.dirty = [@ EXCEPT ![p] = page]]
ErrT(t) == [t EXCEPT !.err = TRUE]

\* The same transaction, with other contents of its pages at most.
Alike(t, t2) ==
  /\ t2 \in TxnRec
  /\ t2.root = t.root /\ t2.next = t.next /\ DOMAIN t2.dirty = DOMAIN t.dirty /\ t2.spill = t.spill
  /\ t2.free = t.free /\ t2.room = t.room /\ t2.head = t.head /\ t2.bk = t.bk
  /\ t2.spills = t.spills /\ t2.loose = t.loose

LEMMA AlikeIs ==
  ASSUME NEW e, NEW t, NEW t2, Alike(t, t2)
  PROVE  /\ \A p : GetIn(e, t2, p) = GetIn(e, t, p)
         /\ \A head : Mem(e, t, head) => Mem(e, t2, head)
         /\ RoomIn(e, t) => RoomIn(e, t2)
         /\ Held(t2) = Held(t)
<1>1. Held(t2) = Held(t)
  BY DEF Held, Alike
<1>2. \A p : GetIn(e, t2, p) = GetIn(e, t, p)
  BY DEF GetIn, Alike
<1>3. \A head : Mem(e, t, head) => Mem(e, t2, head)
  BY <1>1 DEF Mem, Alike
<1>4. RoomIn(e, t) => RoomIn(e, t2)
  BY DEF RoomIn, ListIn, Alike
<1> QED BY <1>1, <1>2, <1>3, <1>4

LEMMA SetTIs ==
  ASSUME NEW e, NEW t \in TxnRec, NEW p \in DOMAIN t.dirty, NEW page \in Page
  PROVE  /\ Alike(t, SetT(t, p, page)) /\ SetT(t, p, page).err = t.err
         /\ \A q \in Pg : q # p => AtIn(e, SetT(t, p, page))[q] = AtIn(e, t)[q]
         /\ p \notin t.spill => AtIn(e, SetT(t, p, page))[p] = page
<1> DEFINE d == [t.dirty EXCEPT ![p] = page]
           t2 == SetT(t, p, page)
<1>1. p \in Pg /\ t.dirty \in Dirties
  BY TxnIs
<1>2. d \in Dirties
  BY <1>1, SetIs
<1>3. DOMAIN d = DOMAIN t.dirty /\ d[p] = page /\ \A q \in DOMAIN d : q # p => d[q] = t.dirty[q]
  OBVIOUS
<1>4. t2 = [t EXCEPT !.dirty = d]
  BY DEF SetT
<1> HIDE DEF d
<1>5. /\ t2 \in TxnRec
      /\ t2.root = t.root /\ t2.next = t.next /\ t2.dirty = d /\ t2.spill = t.spill
      /\ t2.free = t.free /\ t2.room = t.room /\ t2.head = t.head /\ t2.bk = t.bk
      /\ t2.spills = t.spills /\ t2.err = t.err /\ t2.loose = t.loose
  BY <1>2, <1>4 DEF TxnRec
<1> HIDE DEF t2
<1>6. Alike(t, t2)
  BY <1>3, <1>5 DEF Alike
<1>7. \A q \in Pg : q # p => AtIn(e, t2)[q] = AtIn(e, t)[q]
  BY <1>3, <1>5 DEF AtIn
<1>8. p \notin t.spill => AtIn(e, t2)[p] = page
  BY <1>1, <1>3, <1>5 DEF AtIn
<1> QED BY <1>5, <1>6, <1>7, <1>8 DEF t2

LEMMA ErrTIs ==
  ASSUME NEW e, NEW t \in TxnRec
  PROVE  Alike(t, ErrT(t)) /\ ErrT(t).err /\ AtIn(e, ErrT(t)) = AtIn(e, t)
<1> DEFINE t2 == ErrT(t)
<1>1. /\ t2 \in TxnRec
      /\ t2.root = t.root /\ t2.next = t.next /\ t2.dirty = t.dirty /\ t2.spill = t.spill
      /\ t2.free = t.free /\ t2.room = t.room /\ t2.head = t.head /\ t2.bk = t.bk
      /\ t2.spills = t.spills /\ t2.err = TRUE /\ t2.loose = t.loose
  BY DEF TxnRec, ErrT
<1> HIDE DEF t2
<1>2. Alike(t, t2) /\ t2.err /\ AtIn(e, t2) = AtIn(e, t)
  BY <1>1 DEF Alike, AtIn
<1> QED BY <1>2 DEF t2

\* A change of a page that is not in the tree.
LEMMA GoodAlike ==
  ASSUME NEW e, EnvOK(e), NEW t \in TxnRec, NEW t2, NEW head, NEW m, NEW E, Good(e, t, head, m, E),
         Alike(t, t2),
         \A p \in PagesOf(AtIn(e, t), t.root) : AtIn(e, t2)[p] = AtIn(e, t)[p]
  PROVE  /\ Good(e, t2, head, m, E)
         /\ KidOf(AtIn(e, t2), t2.root) = KidOf(AtIn(e, t), t.root)
         /\ PagesOf(AtIn(e, t2), t2.root) = PagesOf(AtIn(e, t), t.root)
         /\ ValOf(AtIn(e, t2), t2.root) = ValOf(AtIn(e, t), t.root)
<1>1. /\ \A p : GetIn(e, t2, p) = GetIn(e, t, p)
      /\ Mem(e, t, head) => Mem(e, t2, head)
      /\ RoomIn(e, t) => RoomIn(e, t2)
  BY AlikeIs
<1>2. t2 \in TxnRec /\ t2.root = t.root /\ t2.next = t.next /\ t2.free = t.free /\ t2.loose = t.loose
  BY DEF Alike
<1>3. TreeShape(AtIn(e, t), t.root) /\ Curs(e, t, m) /\ Parts(e, t, head, E)
      /\ Mem(e, t, head) /\ RoomIn(e, t)
  BY DEF Good
<1>4. /\ KidOf(AtIn(e, t2), t2.root) = KidOf(AtIn(e, t), t.root)
      /\ PagesOf(AtIn(e, t2), t2.root) = PagesOf(AtIn(e, t), t.root)
      /\ ValOf(AtIn(e, t2), t2.root) = ValOf(AtIn(e, t), t.root)
      /\ TreeShape(AtIn(e, t2), t2.root)
      /\ \A x : Curs(e, t, x) => Curs(e, t2, x)
  BY <1>1, <1>2, <1>3, AgreeIn
<1>5. Parts(e, t2, head, E)
  BY <1>2, <1>3, <1>4 DEF Parts
<1> QED BY <1>1, <1>3, <1>4, <1>5 DEF Good

\* The same as the state was, but for the return code and the transaction's flag.
Failed(b, e, s, a) ==
  /\ Fits(b, e, a) /\ Along(s, a) /\ a.rc # "OK" /\ T(a).err
  /\ Alike(T(s), T(a)) /\ AtIn(e, T(a)) = AtIn(e, T(s)) /\ a.head = s.head /\ a.mc = s.mc

LEMMA FailIs ==
  ASSUME NEW b, NEW e, NEW s, Fits(b, e, s), NEW rc \in Rcs, rc # "OK"
  PROVE  /\ Failed(b, e, s, Fail(s, rc)) /\ T(Fail(s, rc)) = ErrT(T(s))
         /\ Top(Fail(s, rc)) = Top(s) /\ Fail(s, rc).file = s.file
<1> DEFINE w == WithT(s, ErrT(T(s)))
           a == Fail(s, rc)
<1>1. T(s) \in TxnRec
  BY FitsIs
<1>2. Alike(T(s), ErrT(T(s))) /\ ErrT(T(s)).err /\ AtIn(e, ErrT(T(s))) = AtIn(e, T(s))
  BY <1>1, ErrTIs
<1>3. /\ ErrT(T(s)) \in TxnRec /\ ErrT(T(s)).head = T(s).head /\ ErrT(T(s)).bk = T(s).bk
      /\ Held(ErrT(T(s))) = Held(T(s))
  BY <1>2, AlikeIs DEF Alike
<1>4. Fits(b, e, w) /\ T(w) = ErrT(T(s)) /\ w.head = s.head /\ w.mc = s.mc /\ Along(s, w)
      /\ w.file = s.file /\ Top(w) = Top(s)
  BY <1>3, FitsWithT
<1>5. a = [w EXCEPT !.rc = rc]
  BY DEF Fail, ErrT
<1>6. w \in StRec
  BY <1>4, FitsIs
<1> HIDE DEF w, a
<1>7. a \in StRec /\ a.txns = w.txns /\ a.file = w.file /\ a.rc = rc /\ a.head = w.head /\ a.mc = w.mc
  BY <1>5, <1>6 DEF StRec
<1>8. Fits(b, e, a) /\ Along(w, a) /\ T(a) = T(w) /\ Top(a) = Top(w)
  BY <1>4, <1>7, FitsSame
<1>9. Along(s, a)
  BY <1>4, <1>8, AlongTrans
<1>10. Failed(b, e, s, a)
  BY <1>2, <1>4, <1>7, <1>8, <1>9 DEF Failed
<1> QED BY <1>4, <1>7, <1>8, <1>10 DEF a

LEMMA FailedGood ==
  ASSUME NEW b, NEW e, NEW s, Fits(b, e, s), NEW a, Failed(b, e, s, a),
         NEW E, Good(e, T(s), s.head, s.mc, E)
  PROVE  Good(e, T(a), a.head, a.mc, E)
<1>1. T(s) \in TxnRec /\ EnvOK(e)
  BY FitsIs
<1>2. Alike(T(s), T(a)) /\ AtIn(e, T(a)) = AtIn(e, T(s)) /\ a.head = s.head /\ a.mc = s.mc
  BY DEF Failed
<1> QED BY <1>1, <1>2, GoodAlike

\* A page was allocated, or nothing was.
LEMMA PageAllocIs ==
  ASSUME NEW b, NEW e, NEW s, Fits(b, e, s), s.rc = "OK", Good(e, T(s), s.head, s.mc, {}),
         NEW a, a = PageAlloc(s)
  PROVE  \/ /\ Fits(b, e, a) /\ Along(s, a) /\ a.rc = "OK" /\ a.mc = s.mc
            /\ Alloced(e, T(s), s.head, T(a), a.head, a.np)
            /\ Good(e, T(a), a.head, a.mc, {a.np})
         \/ Failed(b, e, s, a)
<1> DEFINE t == T(s)
           p == IF s.head = {} THEN t.next ELSE Min(s.head)
           d == PageDirty(s, p, Blank)
           g == [d EXCEPT !.np = p]
<1>1. /\ t \in TxnRec /\ EnvOK(e) /\ s \in StRec /\ Top(s) > 0 /\ s.head \in SUBSET Pg
      /\ s.mc \in [Cursors \cup {Local} -> CurRec]
  BY FitsIs, StIs
<1>2. CASE t.loose # <<>>
  <2> DEFINE w == WithT(s, LooseT(t))
             q == Head(t.loose)
  <2>1. Alloced(e, t, s.head, LooseT(t), s.head, q) /\ Good(e, LooseT(t), s.head, s.mc, {q})
    BY <1>1, <1>2, AllocLoose
  <2>2. a = [w EXCEPT !.np = q]
    BY <1>2 DEF PageAlloc, LooseT
  <2>3. /\ LooseT(t) \in TxnRec /\ LooseT(t).head = t.head /\ LooseT(t).bk = t.bk
        /\ Held(t) \subseteq Held(LooseT(t)) /\ q \in Nat
    BY <2>1, PgIs DEF Alloced, Held
  <2> HIDE DEF q
  <2>4. /\ Fits(b, e, w) /\ T(w) = LooseT(t) /\ w.head = s.head /\ w.mc = s.mc /\ Along(s, w)
        /\ w.rc = s.rc
    BY <2>3, FitsWithT
  <2>5. w \in StRec
    BY <2>4, FitsIs
  <2> HIDE DEF w
  <2>6. /\ a \in StRec /\ a.txns = w.txns /\ a.file = w.file /\ a.rc = w.rc /\ a.head = w.head
        /\ a.mc = w.mc /\ a.np = q
    BY <2>2, <2>3, <2>5 DEF StRec
  <2>7. Fits(b, e, a) /\ Along(w, a) /\ T(a) = T(w)
    BY <2>4, <2>6, FitsSame
  <2> QED BY <2>1, <2>4, <2>6, <2>7, AlongTrans
<1>3. CASE t.loose = <<>> /\ t.room = 0
  <2>1. a = Fail(s, "TXN_FULL")
    BY <1>3 DEF PageAlloc
  <2>2. "TXN_FULL" \in Rcs /\ "TXN_FULL" # "OK"
    BY DEF Rcs
  <2>3. Failed(b, e, s, Fail(s, "TXN_FULL"))
    BY <2>2, FailIs
  <2> QED BY <2>1, <2>3
<1>4. CASE t.loose = <<>> /\ t.room # 0 /\ s.head = {} /\ t.next + 1 >= MaxPg
  <2>1. a = Fail(s, "MAP_FULL")
    BY <1>4 DEF PageAlloc
  <2>2. "MAP_FULL" \in Rcs /\ "MAP_FULL" # "OK"
    BY DEF Rcs
  <2>3. Failed(b, e, s, Fail(s, "MAP_FULL"))
    BY <2>2, FailIs
  <2> QED BY <2>1, <2>3
<1>5. CASE t.loose = <<>> /\ t.room # 0 /\ (s.head # {} \/ ~ (t.next + 1 >= MaxPg))
  <2> DEFINE next == IF s.head = {} THEN p + 1 ELSE t.next
             h2 == s.head \ {p}
             f == FreshT(t, p, next)
  <2>0. t.next \in Nat /\ t.next \in 2 .. MaxPg /\ s.head \subseteq 2 .. t.next - 1
    BY <1>1, TxnIs DEF Good, Mem
  <2>1. /\ p \in Pg
        /\ \/ p \in s.head /\ next = t.next
           \/ p = t.next /\ p + 1 < MaxPg /\ h2 = s.head /\ next = p + 1
    <3>1. CASE s.head # {}
      <4>1. Min(s.head) \in s.head
        BY <1>1, <3>1, MinIs, PgIs
      <4> QED BY <1>1, <3>1, <4>1
    <3>2. CASE s.head = {}
      BY <1>5, <2>0, <3>2, PgIs DEF Pg
    <3> QED BY <3>1, <3>2
  <2>2. t.next \in Nat /\ next \in Nat
    BY <2>0, <2>1, PgIs
  <2>3. Alloced(e, t, s.head, f, h2, p) /\ Good(e, f, h2, s.mc, {p})
    <3> HIDE DEF p, next, h2
    <3>1. \/ p \in s.head /\ h2 = s.head \ {p} /\ next = t.next
          \/ p = t.next /\ p + 1 < MaxPg /\ h2 = s.head /\ next = p + 1
      BY <2>1 DEF h2
    <3> QED BY <1>1, <2>1, <3>1, AllocFresh
  <2> HIDE DEF p, next
  <2> DEFINE d1 == [t EXCEPT !.dirty = With(@, p, Blank), !.room = @ - 1]
  <2>4. f = [d1 EXCEPT !.next = next] /\ d1 = [f EXCEPT !.next = t.next]
    BY <1>1 DEF FreshT, TxnRec
  <2>5. f \in TxnRec /\ f.head = t.head /\ f.bk = t.bk /\ Held(t) \subseteq Held(f) /\ p \in Nat
        /\ h2 \in SUBSET Pg
    BY <2>3, PgIs DEF Alloced, Held
  <2> HIDE DEF f, d1
  <2>6. d1 \in TxnRec /\ d1.head = t.head /\ d1.bk = t.bk /\ Held(t) \subseteq Held(d1)
    BY <2>2, <2>4, <2>5 DEF TxnRec, Held
  <2>7. d = WithT(s, d1)
    BY DEF PageDirty, d1
  <2>8. /\ Fits(b, e, d) /\ T(d) = d1 /\ d.head = s.head /\ d.mc = s.mc /\ Along(s, d) /\ d.rc = s.rc
    BY <2>6, <2>7, FitsWithT
  <2>9. d \in StRec
    BY <2>8, FitsIs
  <2> HIDE DEF d
  <2>10. /\ g \in StRec /\ g.txns = d.txns /\ g.file = d.file /\ g.rc = d.rc /\ g.head = d.head
         /\ g.mc = d.mc /\ g.np = p
    BY <2>5, <2>9 DEF StRec
  <2>11. Fits(b, e, g) /\ Along(d, g) /\ T(g) = T(d)
    BY <2>8, <2>10, FitsSame
  <2>12. Along(s, g)
    BY <2>8, <2>11, AlongTrans
  <2>13. CASE s.head # {}
    <3>1. a = [g EXCEPT !.head = @ \ {p}]
      BY <1>5, <2>13 DEF PageAlloc, p, d
    <3>2. next = t.next
      BY <2>13 DEF next
    <3>3. f = d1
      BY <2>4, <2>5, <3>2 DEF TxnRec
    <3> HIDE DEF g
    <3>4. /\ a \in StRec /\ a.txns = g.txns /\ a.file = g.file /\ a.rc = g.rc /\ a.head = h2
          /\ a.mc = g.mc /\ a.np = p
      BY <2>5, <2>8, <2>10, <3>1 DEF StRec
    <3>5. Fits(b, e, a) /\ Along(g, a) /\ T(a) = T(g)
      BY <2>11, <3>4, FitsSame
    <3>6. Along(s, a) /\ T(a) = f /\ a.mc = s.mc /\ a.rc = "OK"
      BY <2>8, <2>10, <2>11, <2>12, <3>3, <3>4, <3>5, AlongTrans
    <3> QED BY <2>3, <3>4, <3>5, <3>6
  <2>14. CASE s.head = {}
    <3>1. a = WithT(g, [T(g) EXCEPT !.next = p + 1])
      BY <1>5, <2>14 DEF PageAlloc, p, d
    <3>2. next = p + 1 /\ h2 = s.head
      BY <2>14 DEF next
    <3> HIDE DEF g
    <3>3. [T(g) EXCEPT !.next = p + 1] = f
      BY <2>4, <2>8, <2>11, <3>2
    <3>4. f.head = T(g).head /\ f.bk = T(g).bk /\ Held(T(g)) \subseteq Held(f)
      BY <2>4, <2>5, <2>6, <2>8, <2>11 DEF TxnRec, Held
    <3>5. /\ Fits(b, e, a) /\ Along(g, a) /\ T(a) = f /\ a.rc = g.rc /\ a.head = g.head
          /\ a.mc = g.mc /\ a.np = g.np
      BY <2>5, <2>11, <3>1, <3>3, <3>4, FitsWithT
    <3>6. Along(s, a) /\ a.mc = s.mc /\ a.rc = "OK" /\ a.head = h2 /\ a.np = p
      BY <2>8, <2>10, <2>12, <3>2, <3>5, AlongTrans
    <3> QED BY <2>3, <3>5, <3>6
  <2> QED BY <2>13, <2>14
<1> QED BY <1>2, <1>3, <1>4, <1>5

-----------------------------------------------------------------------------
(***************************************************************************)
(* The cursors' stacks: what mdb_page_touch sets right in those of the     *)
(* other cursors.                                                          *)
(***************************************************************************)

Kids(e, t) == KidOf(AtIn(e, t), t.root)
Vals(e, t) == ValOf(AtIn(e, t), t.root)
Pages(e, t) == PagesOf(AtIn(e, t), t.root)

\* The working cursor: at its place, whether there is a leaf or not.
Work(e, t, r) == r.leaf \in Leaf /\ r.pg = Path(e, t, r.leaf)
InMem(t, p)   == p \in DOMAIN t.dirty /\ p \notin t.spill

Paths(e, t, n) ==
         /\ Path(e, t, n) \in [1 .. 2 -> Ptrs]
         /\ Path(e, t, n)[1] = PtrTo(e, t, t.root)
         /\ Path(e, t, n)[2] = PtrTo(e, t, KidOf(AtIn(e, t), t.root)[n])
         /\ t.root # NoPg => Path(e, t, n)[1] = GetIn(e, t, t.root)
         /\ t.root = NoPg => Path(e, t, n)[1] = NoPtr
         /\ KidOf(AtIn(e, t), t.root)[n] # NoPg =>
              Path(e, t, n)[2] = GetIn(e, t, KidOf(AtIn(e, t), t.root)[n])
         /\ KidOf(AtIn(e, t), t.root)[n] = NoPg => Path(e, t, n)[2] = NoPtr
         /\ \A p \in PgN : PtrTo(e, t, p) = NoPtr <=> p = NoPg

LEMMA PathIs ==
  ASSUME NEW e, EnvOK(e), NEW t \in TxnRec, TreeShape(AtIn(e, t), t.root), NEW n \in Leaf
  PROVE  Paths(e, t, n)
<1>0. NoPtr \in Ptrs
  BY DEF NoPtr, NoPg, Ptrs
<1>1. \A p \in PgN : PtrTo(e, t, p) \in Ptrs /\ (PtrTo(e, t, p) = NoPtr <=> p = NoPg)
  BY <1>0, GetInIs, PgIs DEF PtrTo
<1>2. AtIn(e, t) \in [Pg -> Page]
  BY AtInIs
<1>3. t.root \in PgN /\ KidOf(AtIn(e, t), t.root)[n] \in PgN
  BY <1>2, TreeIs
<1> DEFINE x == PtrTo(e, t, t.root)
           y == PtrTo(e, t, KidOf(AtIn(e, t), t.root)[n])
<1>4. x \in Ptrs /\ y \in Ptrs
  BY <1>1, <1>3
<1>5. Path(e, t, n) = <<x, y>>
  BY DEF Path
<1>6. /\ t.root # NoPg => x = GetIn(e, t, t.root)
      /\ t.root = NoPg => x = NoPtr
      /\ KidOf(AtIn(e, t), t.root)[n] # NoPg => y = GetIn(e, t, KidOf(AtIn(e, t), t.root)[n])
      /\ KidOf(AtIn(e, t), t.root)[n] = NoPg => y = NoPtr
  BY DEF PtrTo
<1> HIDE DEF x, y
<1>7. Path(e, t, n) \in [1 .. 2 -> Ptrs] /\ Path(e, t, n)[1] = x /\ Path(e, t, n)[2] = y
  BY <1>4, <1>5
<1> QED BY <1>1, <1>6, <1>7 DEF x, y, Paths

\* Cursor c and those with the same page at level i of their stack follow it.
Moved(m, m2, c, i, old, new) ==
  /\ \A d \in Cursors \cup {c} : m2[d].init = m[d].init /\ m2[d].leaf = m[d].leaf
  /\ m2[c].pg = [m[c].pg EXCEPT ![i] = new]
  /\ \A d \in Cursors : d # c /\ m[d].init =>
       m2[d].pg = IF m[d].pg[i] = old THEN [m[d].pg EXCEPT ![i] = new] ELSE m[d].pg

\* The paths of transaction t2 are those of t, but for a pointer at level i, and lead
\* to a leaf where those did.
Follows(e, t, t2, n0, i, old, new) ==
  /\ \A n \in Leaf : (Kids(e, t)[n] # NoPg \/ n = n0) =>
       Path(e, t2, n) = IF Path(e, t, n)[i] = old THEN [Path(e, t, n) EXCEPT ![i] = new]
                        ELSE Path(e, t, n)
  /\ \A n \in Leaf : Kids(e, t)[n] # NoPg => Kids(e, t2)[n] # NoPg

Placed(e, t, m, c, n) == Curs(e, t, m) /\ Work(e, t, m[c]) /\ m[c].leaf = n

LEMMA CursMove ==
  ASSUME NEW e, NEW t, NEW t2, NEW m, NEW m2, NEW c, NEW i, NEW old, NEW new,
         Moved(m, m2, c, i, old, new), NEW n0, Placed(e, t, m, c, n0),
         Path(e, t, n0)[i] = old, Follows(e, t, t2, n0, i, old, new)
  PROVE  Placed(e, t2, m2, c, n0)
<1>a. Curs(e, t, m) /\ Work(e, t, m[c]) /\ m[c].leaf = n0 /\ Path(e, t, m[c].leaf)[i] = old
  BY DEF Placed
<1>0. /\ \A n \in Leaf : (KidOf(AtIn(e, t), t.root)[n] # NoPg \/ n = m[c].leaf) =>
           Path(e, t2, n) = IF Path(e, t, n)[i] = old THEN [Path(e, t, n) EXCEPT ![i] = new]
                            ELSE Path(e, t, n)
      /\ \A n \in Leaf : KidOf(AtIn(e, t), t.root)[n] # NoPg => KidOf(AtIn(e, t2), t2.root)[n] # NoPg
  BY <1>a DEF Follows, Kids
<1>1. Work(e, t2, m2[c]) /\ m2[c].leaf = m[c].leaf
  <2>1. m[c].leaf \in Leaf /\ m[c].pg = Path(e, t, m[c].leaf)
    BY <1>a DEF Work
  <2>2. m2[c].leaf = m[c].leaf /\ m2[c].pg = [Path(e, t, m[c].leaf) EXCEPT ![i] = new]
    BY <2>1 DEF Moved
  <2>3. Path(e, t2, m[c].leaf) = [Path(e, t, m[c].leaf) EXCEPT ![i] = new]
    BY <1>0, <1>a, <2>1
  <2> QED BY <2>1, <2>2, <2>3 DEF Work
<1>2. ASSUME NEW d \in Cursors, m2[d].init
      PROVE  /\ m2[d].leaf \in Leaf
             /\ KidOf(AtIn(e, t2), t2.root)[m2[d].leaf] # NoPg
             /\ m2[d].pg = Path(e, t2, m2[d].leaf)
  <2>1. m[d].init /\ m2[d].leaf = m[d].leaf
    BY <1>2 DEF Moved
  <2>2. /\ m[d].leaf \in Leaf /\ KidOf(AtIn(e, t), t.root)[m[d].leaf] # NoPg
        /\ m[d].pg = Path(e, t, m[d].leaf)
    BY <1>a, <2>1 DEF Curs
  <2>3. CASE d = c
    BY <1>0, <1>1, <2>1, <2>2, <2>3 DEF Work
  <2>4. CASE d # c
    <3>1. m2[d].pg = IF m[d].pg[i] = old THEN [m[d].pg EXCEPT ![i] = new] ELSE m[d].pg
      BY <2>1, <2>4 DEF Moved
    <3> QED BY <1>0, <2>1, <2>2, <3>1
  <2> QED BY <1>0, <2>3, <2>4
<1>3. Curs(e, t2, m2)
  BY <1>2 DEF Curs
<1> QED BY <1>a, <1>1, <1>3 DEF Placed

Adjusted(b, e, s, c, i, old, new, a) ==
         /\ Fits(b, e, a) /\ Along(s, a) /\ T(a) = T(s) /\ a.head = s.head /\ a.rc = s.rc
         /\ a.np = s.np /\ Top(a) = Top(s)
         /\ Moved(s.mc, a.mc, c, i, old, new)

\* The loop over the tracked cursors, for a new page at level i.
LEMMA AdjustIs ==
  ASSUME NEW b, NEW e, NEW s, Fits(b, e, s), NEW c \in Cursors \cup {Local}, NEW i \in 1 .. 2,
         NEW old, NEW new \in Ptrs, NEW a, a = Adjust(s, c, i, old, new)
  PROVE  Adjusted(b, e, s, c, i, old, new, a)
<1> DEFINE D == Cursors \cup {Local}
           m == s.mc
           k(d) == d = c \/ (d \in Tracked(s) /\ m[d].pg[i] = old)
           m2 == [d \in DOMAIN m |-> IF k(d) THEN [m[d] EXCEPT !.pg[i] = new] ELSE m[d]]
<1>1. s \in StRec /\ m \in [D -> CurRec]
  BY FitsIs, StIs
<1>2. a = [s EXCEPT !.mc = m2]
  BY DEF Adjust
<1>3. \A r \in CurRec : LET q == [r EXCEPT !.pg[i] = new]
                        IN  /\ q \in CurRec /\ q.init = r.init /\ q.leaf = r.leaf
                            /\ q.pg = [r.pg EXCEPT ![i] = new]
  BY DEF CurRec
<1>4. \A d \in D : /\ m[d] \in CurRec /\ m2[d] \in CurRec
                   /\ m2[d].init = m[d].init /\ m2[d].leaf = m[d].leaf
                   /\ m2[d].pg = IF k(d) THEN [m[d].pg EXCEPT ![i] = new] ELSE m[d].pg
  <2> SUFFICES ASSUME NEW d \in D
               PROVE  /\ m[d] \in CurRec /\ m2[d] \in CurRec
                      /\ m2[d].init = m[d].init /\ m2[d].leaf = m[d].leaf
                      /\ m2[d].pg = IF k(d) THEN [m[d].pg EXCEPT ![i] = new] ELSE m[d].pg
    OBVIOUS
  <2>1. m[d] \in CurRec /\ m2[d] = IF k(d) THEN [m[d] EXCEPT !.pg[i] = new] ELSE m[d]
    BY <1>1
  <2> HIDE DEF m2, m, k
  <2> QED BY <1>3, <2>1
<1>5. m2 \in [D -> CurRec]
  <2>1. DOMAIN m2 = D
    BY <1>1
  <2>2. m2 = [d \in DOMAIN m2 |-> m2[d]]
    OBVIOUS
  <2> HIDE DEF m2, m
  <2> QED BY <1>4, <2>1, <2>2
<1> HIDE DEF m2
<1>6. a \in StRec /\ a.txns = s.txns /\ a.file = s.file /\ a.mc = m2 /\ a.head = s.head
      /\ a.rc = s.rc /\ a.np = s.np
  BY <1>1, <1>2, <1>5 DEF StRec
<1>7. Fits(b, e, a) /\ Along(s, a) /\ T(a) = T(s) /\ Top(a) = Top(s)
  BY <1>6, FitsSame
<1>8. \A d \in Cursors : d \in Tracked(s) <=> m[d].init
  BY DEF Tracked
<1>9. Moved(m, m2, c, i, old, new)
  <2>1. c \in D /\ k(c)
    OBVIOUS
  <2>2. \A d \in Cursors : d # c /\ m[d].init => (k(d) <=> m[d].pg[i] = old)
    BY <1>8
  <2> HIDE DEF k, m
  <2> QED BY <1>4, <2>1, <2>2 DEF Moved
<1> QED BY <1>6, <1>7, <1>9 DEF Adjusted

\* A write through a pointer to a page of the last transaction.
LEMMA PutPage ==
  ASSUME NEW b, NEW e, NEW s, Fits(b, e, s), NEW p \in DOMAIN T(s).dirty, NEW page \in Page,
         NEW a, a = SetPage(s, <<Top(s), p>>, page)
  PROVE  /\ Fits(b, e, a) /\ Along(s, a) /\ T(a) = SetT(T(s), p, page) /\ a.head = s.head
         /\ a.mc = s.mc /\ a.rc = s.rc /\ a.np = s.np /\ Top(a) = Top(s)
<1>1. T(s) \in TxnRec /\ s \in StRec /\ Top(s) > 0
  BY FitsIs
<1>2. a = WithT(s, SetT(T(s), p, page))
  BY <1>1, SetPageIs DEF SetT
<1>3. Alike(T(s), SetT(T(s), p, page))
  BY <1>1, SetTIs
<1>4. /\ SetT(T(s), p, page) \in TxnRec /\ SetT(T(s), p, page).head = T(s).head
      /\ SetT(T(s), p, page).bk = T(s).bk /\ Held(T(s)) \subseteq Held(SetT(T(s), p, page))
  BY <1>3, AlikeIs DEF Alike
<1> QED BY <1>2, <1>4, FitsWithT

-----------------------------------------------------------------------------
(***************************************************************************)
(* A page is taken from a parent or from the spilled ones, freed, or       *)
(* replaces the root or a leaf page.                                       *)
(***************************************************************************)

\* Page p, which the transaction sees elsewhere, is taken into its dirty list.
TakenT(t, p, page, room) ==
  [t EXCEPT !.dirty = With(@, p, page), !.spill = @ \ {p}, !.room = room]

Taken(e, t, head, p, t2) ==
         /\ t2 \in TxnRec /\ t2.root = t.root /\ t2.head = t.head /\ t2.bk = t.bk /\ t2.err = t.err
         /\ t2.spills = t.spills
         /\ Held(t) \subseteq Held(t2) /\ DOMAIN t2.dirty = DOMAIN t.dirty \cup {p}
         /\ InMem(t2, p) /\ \A q : InMem(t, q) => InMem(t2, q)
         /\ AtIn(e, t2) = AtIn(e, t)
         /\ GetIn(e, t2, p) = <<e.n, p>> /\ \A q \in Pg : q # p => GetIn(e, t2, q) = GetIn(e, t, q)
         /\ Mem(e, t2, head) /\ RoomIn(e, t2) /\ TreeShape(AtIn(e, t2), t2.root)
         /\ Parts(e, t2, head, {})

\* The page is in the transaction's dirty list now; the tree is the same.
LEMMA TakenIs ==
  ASSUME NEW e, EnvOK(e), NEW t \in TxnRec, NEW head \in SUBSET Pg, NEW m, Good(e, t, head, m, {}),
         NEW p \in PagesOf(AtIn(e, t), t.root), p \notin DOMAIN t.dirty,
         NEW room, room = IF GetIn(e, t, p)[1] = 0 THEN t.room - 1 ELSE t.room,
         p \in e.reg \cup t.spill,
         NEW t2, t2 = TakenT(t, p, AtIn(e, t)[p], room)
  PROVE  Taken(e, t, head, p, t2)
<1> DEFINE at == AtIn(e, t)
           P == PagesOf(at, t.root)
           page == at[p]
           d == With(t.dirty, p, page)
<1>1. at \in [Pg -> Page] /\ TreeShape(at, t.root)
  BY AtInIs DEF Good
<1>2. p \in Pg /\ page \in Page
  BY <1>1, TreeIs
<1>3. t.dirty \in Dirties
  BY TxnIs
<1>4. /\ d \in Dirties /\ DOMAIN d = DOMAIN t.dirty \cup {p} /\ d[p] = page
      /\ \A q \in DOMAIN t.dirty : q # p => d[q] = t.dirty[q]
  <2> HIDE DEF page
  <2>1. \A f \in Dirties : /\ With(f, p, page) \in Dirties
                           /\ DOMAIN With(f, p, page) = DOMAIN f \cup {p}
                           /\ With(f, p, page)[p] = page
                           /\ \A q \in DOMAIN f : q # p => With(f, p, page)[q] = f[q]
    BY <1>2, WithIs
  <2> QED BY <1>3, <2>1
<1>5. room \in Int
  BY TxnIs
<1>6. t2 = [t EXCEPT !.dirty = d, !.spill = @ \ {p}, !.room = room]
  BY DEF TakenT
<1> HIDE DEF d, page
<1>7. /\ t2 \in TxnRec
      /\ t2.root = t.root /\ t2.next = t.next /\ t2.dirty = d /\ t2.spill = t.spill \ {p}
      /\ t2.free = t.free /\ t2.room = room /\ t2.head = t.head /\ t2.bk = t.bk
      /\ t2.spills = t.spills /\ t2.err = t.err /\ t2.loose = t.loose
  <2>1. t.spill \ {p} \in SUBSET Pg
    BY TxnIs
  <2>2. t2 \in TxnRec
    BY <1>4, <1>5, <1>6, <2>1 DEF TxnRec
  <2> QED BY <1>6, <2>2 DEF TxnRec
<1> HIDE DEF at
<1>8. \A q \in Pg : AtIn(e, t2)[q] = at[q]
  BY <1>4, <1>7 DEF AtIn, at, page
<1>9. AtIn(e, t2) = at
  <2>1. AtIn(e, t2) \in [Pg -> Page]
    BY <1>7, AtInIs
  <2> QED BY <1>1, <1>8, <2>1
<1>10. /\ GetIn(e, t2, p) = <<e.n, p>>
       /\ \A q \in Pg : q # p => GetIn(e, t2, q) = GetIn(e, t, q)
  BY <1>4, <1>7 DEF GetIn
<1>11. InMem(t2, p) /\ \A q : InMem(t, q) => InMem(t2, q)
  BY <1>4, <1>7 DEF InMem
<1>12. Held(t2) = Held(t) \cup {p}
  BY <1>4, <1>7 DEF Held
<1>13. /\ t.next \in 2 .. MaxPg /\ t.next \in e.min
       /\ Held(t) \subseteq 2 .. t.next - 1 /\ head \subseteq 2 .. t.next - 1
       /\ DOMAIN t.dirty \cap t.spill = {} /\ Held(t) \cap head = {}
       /\ Range(t.loose) \subseteq DOMAIN t.dirty /\ Once(t.loose)
       /\ Held(t) \subseteq e.reg /\ head \subseteq e.cap /\ Held(t) \cap e.loose = {}
  BY DEF Good, Mem
<1>14. Split(P, head, e.freed, t.free, Range(t.loose), e.recent, {}, t.next)
  BY DEF Good, Parts, at
<1>15. p \in 2 .. t.next - 1 /\ p \notin head /\ p \notin e.freed
  BY <1>14 DEF Split, at
<1>16. Mem(e, t2, head)
  <2>1. p \in e.reg /\ p \notin e.loose
    BY <1>13, <1>15 DEF Held, EnvOK
  <2>2. Held(t2) \subseteq 2 .. t.next - 1 /\ Held(t2) \cap head = {} /\ Held(t2) \subseteq e.reg
        /\ Held(t2) \cap e.loose = {}
    BY <1>12, <1>13, <1>15, <2>1
  <2>3. DOMAIN t2.dirty \cap t2.spill = {} /\ Range(t2.loose) \subseteq DOMAIN t2.dirty
    BY <1>4, <1>7, <1>13
  <2> QED BY <1>7, <1>13, <2>2, <2>3 DEF Mem
<1>17. Parts(e, t2, head, {})
  BY <1>7, <1>9, <1>14 DEF Parts
<1>18. TreeShape(AtIn(e, t2), t2.root)
  BY <1>1, <1>7, <1>9
<1>19. RoomIn(e, t2)
  <2>1. t.room = DirtyMax - Cardinality(ListIn(e, t))
    BY DEF Good, RoomIn
  <2>2. CASE GetIn(e, t, p)[1] = 0
    <3>1. p \notin ListIn(e, t)
      <4>1. ASSUME p \notin t.spill, p \in e.list PROVE FALSE
        <5>1. GetIn(e, t, p) = e.get[p] /\ e.get[p] # <<0, p>>
          BY <1>2, <4>1 DEF GetIn, EnvOK
        <5>2. PICK i \in 1 .. e.n - 1 : e.get[p] = <<i, p>>
          BY <1>2, <5>1 DEF EnvOK
        <5> QED BY <2>2, <5>1, <5>2
      <4> QED BY <4>1 DEF ListIn
    <3>2. ListIn(e, t2) = ListIn(e, t) \cup {p}
      BY <1>4, <1>7 DEF ListIn
    <3>3. Cardinality(ListIn(e, t2)) = Cardinality(ListIn(e, t)) + 1 /\ Cardinality(ListIn(e, t)) \in Nat
      BY <3>1, <3>2, ListFinite, AddOne
    <3>4. t2.room = t.room - 1
      BY <1>7, <2>2
    <3> QED BY <2>1, <3>3, <3>4, NestedAssumption DEF RoomIn
  <2>3. CASE GetIn(e, t, p)[1] # 0
    <3>1. p \notin t.spill
      BY <2>3 DEF GetIn
    <3>2. e.get[p] # <<0, p>>
      BY <2>3, <3>1 DEF GetIn
    <3>3. p \in e.list
      BY <1>2, <3>2 DEF EnvOK
    <3>4. ListIn(e, t2) = ListIn(e, t)
      BY <1>4, <1>7, <3>1, <3>3 DEF ListIn
    <3> QED BY <1>7, <2>1, <2>3, <3>4 DEF RoomIn
  <2> QED BY <2>2, <2>3
<1> QED BY <1>4, <1>7, <1>9, <1>10, <1>11, <1>12, <1>16, <1>17, <1>18, <1>19 DEF at, Taken

\* The same lists, but for the free one.
Refreed(e, t, t2, F, root) ==
  /\ t2 \in TxnRec
  /\ t2.root = root /\ t2.next = t.next /\ t2.dirty = t.dirty /\ t2.spill = t.spill
  /\ t2.free = F /\ t2.room = t.room /\ t2.head = t.head /\ t2.bk = t.bk
  /\ t2.spills = t.spills /\ t2.err = t.err /\ t2.loose = t.loose
  /\ AtIn(e, t2) = AtIn(e, t) /\ \A p : GetIn(e, t2, p) = GetIn(e, t, p)
  /\ \A p : InMem(t, p) => InMem(t2, p)
  /\ Held(t2) = Held(t)
  /\ \A head : Mem(e, t, head) => Mem(e, t2, head)
  /\ RoomIn(e, t) => RoomIn(e, t2)

FreeT(t, F, root) == [t EXCEPT !.free = F, !.root = root]

\* The old page goes to the transaction's free list.
LEMMA FreeIs ==
  ASSUME NEW e, NEW t \in TxnRec, NEW F \in SUBSET Pg, NEW root \in PgN,
         NEW t2, t2 = FreeT(t, F, root)
  PROVE  Refreed(e, t, t2, F, root)
<1>1. /\ t2 \in TxnRec
      /\ t2.root = root /\ t2.next = t.next /\ t2.dirty = t.dirty /\ t2.spill = t.spill
      /\ t2.free = F /\ t2.room = t.room /\ t2.head = t.head /\ t2.bk = t.bk
      /\ t2.spills = t.spills /\ t2.err = t.err /\ t2.loose = t.loose
  BY DEF TxnRec, FreeT
<1>2. AtIn(e, t2) = AtIn(e, t) /\ \A p : GetIn(e, t2, p) = GetIn(e, t, p)
  BY <1>1 DEF AtIn, GetIn
<1>3. (\A p : InMem(t, p) => InMem(t2, p)) /\ Held(t2) = Held(t)
  BY <1>1 DEF InMem, Held
<1>4. (\A head : Mem(e, t, head) => Mem(e, t2, head)) /\ (RoomIn(e, t) => RoomIn(e, t2))
  BY <1>1, <1>3 DEF Mem, RoomIn, ListIn
<1> QED BY <1>1, <1>2, <1>3, <1>4 DEF Refreed

\* Page q becomes the root, with the leaves of the old one, which is freed.
RootT(t, q) == [t EXCEPT !.free = @ \cup ({t.root} \ {NoPg}), !.root = q]

Rooted(e, t, head, q, t2) ==
         /\ t2 \in TxnRec /\ t2.root = q /\ t2.head = t.head /\ t2.bk = t.bk /\ t2.err = t.err
         /\ Held(t2) = Held(t) /\ InMem(t2, q) /\ q # NoPg
         /\ KidOf(AtIn(e, t2), t2.root) = KidOf(AtIn(e, t), t.root)
         /\ ValOf(AtIn(e, t2), t2.root) = ValOf(AtIn(e, t), t.root)
         /\ \A n \in Leaf : Path(e, t2, n) = [Path(e, t, n) EXCEPT ![1] = <<e.n, q>>]
         /\ Mem(e, t2, head) /\ RoomIn(e, t2) /\ TreeShape(AtIn(e, t2), t2.root)
         /\ Parts(e, t2, head, {})

\* The new page is the root.
LEMMA RootIs ==
  ASSUME NEW e, EnvOK(e), NEW t \in TxnRec, NEW head \in SUBSET Pg, NEW m, NEW q,
         Good(e, t, head, m, {q}), InMem(t, q),
         KidOf(AtIn(e, t), q) = KidOf(AtIn(e, t), t.root),
         NEW t2, t2 = RootT(t, q)
  PROVE  Rooted(e, t, head, q, t2)
<1> DEFINE at == AtIn(e, t)
           P == PagesOf(at, t.root)
           P2 == PagesOf(at, q)
           F == t.free \cup ({t.root} \ {NoPg})
           K == KidOf(at, t.root)
<1>1. at \in [Pg -> Page] /\ TreeShape(at, t.root)
  BY AtInIs DEF Good
<1>2. q \in Pg /\ q # NoPg /\ q \in PgN
  BY TxnIs, PgIs DEF InMem
<1>3. F \in SUBSET Pg
  BY <1>1, TxnIs, PgIs, TreeIs
<1>4. t2 = FreeT(t, F, q)
  BY DEF RootT, FreeT
<1> HIDE DEF F, at
<1>5. Refreed(e, t, t2, F, q)
  BY <1>2, <1>3, <1>4, FreeIs
<1>5a. AtIn(e, t2) = at
  BY <1>5 DEF Refreed, at
<1>6. KidOf(at, q) = K
  BY DEF at
<1>7. Split(P, head, e.freed, t.free, Range(t.loose), e.recent, {q}, t.next)
  BY DEF Good, Parts, at
<1>8. /\ t.root \in PgN /\ (t.root # NoPg => t.root \in P)
      /\ \A n \in Leaf : /\ K[n] \in PgN /\ (K[n] # NoPg => K[n] \in P)
                         /\ (K[n] # NoPg => K[n] # t.root)
      /\ P \subseteq Pg
  BY <1>1, TreeIs DEF TreeShape
<1>9. q \notin P
  BY <1>7 DEF Split
<1>10. P2 = (P \ {t.root}) \cup {q}
  <2>1. P2 = ({q} \cup {K[n] : n \in Leaf}) \ {NoPg} /\ P = ({t.root} \cup {K[n] : n \in Leaf}) \ {NoPg}
    BY <1>6 DEF PagesOf
  <2>2. t.root \notin {K[n] : n \in Leaf} \ {NoPg}
    BY <1>8
  <2> HIDE DEF P2, P, K
  <2> QED BY <1>2, <2>1, <2>2
<1>11. Split(P2, head, e.freed, F, Range(t.loose), e.recent, {}, t.next)
  <2>1. \/ t.root \in P /\ F = t.free \cup {t.root} /\ t.root \in Pg /\ t.root # NoPg
        \/ P = {} /\ F = t.free /\ P2 = {q}
    <3>1. CASE t.root # NoPg
      BY <1>8, <3>1 DEF F
    <3>2. CASE t.root = NoPg
      <4>1. P = {}
        BY <1>1, <3>2, TreeIs
      <4>2. F = t.free
        BY <3>2 DEF F
      <4> HIDE DEF P, P2
      <4> QED BY <1>10, <4>1, <4>2
    <3> QED BY <3>1, <3>2
  <2> HIDE DEF P, P2
  <2>2. CASE t.root \in P /\ F = t.free \cup {t.root}
    BY <1>7, <1>9, <1>10, <2>2 DEF Split
  <2>3. CASE P = {} /\ F = t.free /\ P2 = {q}
    BY <1>7, <2>3 DEF Split
  <2> QED BY <2>1, <2>2, <2>3
<1>12. Parts(e, t2, head, {})
  BY <1>5, <1>5a, <1>11 DEF Parts, Refreed
<1>13. TreeShape(at, q)
  <2>1. \A n \in Leaf : K[n] # NoPg => K[n] # q
    BY <1>8, <1>9
  <2> HIDE DEF K
  <2>2. \A x, y \in Leaf : K[x] = K[y] /\ x # y => K[x] = NoPg
    BY <1>1 DEF TreeShape, K
  <2> QED BY <1>2, <1>6, <1>8, <2>1, <2>2 DEF TreeShape
<1>14. ValOf(at, q) = ValOf(at, t.root)
  BY <1>6 DEF ValOf
<1>15. Mem(e, t2, head) /\ RoomIn(e, t2)
  BY <1>5 DEF Good, Refreed
<1>16. GetIn(e, t2, q) = <<e.n, q>>
  BY <1>5 DEF GetIn, InMem, Refreed
<1>17. ASSUME NEW n \in Leaf PROVE Path(e, t2, n) = [Path(e, t, n) EXCEPT ![1] = <<e.n, q>>]
  <2>1. PtrTo(e, t2, q) = <<e.n, q>>
    BY <1>2, <1>16 DEF PtrTo
  <2>2. PtrTo(e, t2, K[n]) = PtrTo(e, t, K[n])
    BY <1>5 DEF PtrTo, Refreed
  <2>3. Path(e, t2, n) = <<<<e.n, q>>, PtrTo(e, t, K[n])>>
    BY <1>5, <1>5a, <1>6, <2>1, <2>2 DEF Path, Refreed
  <2>4. Path(e, t, n) = <<PtrTo(e, t, t.root), PtrTo(e, t, K[n])>>
    BY DEF Path, at
  <2> QED BY <2>3, <2>4
<1>18. /\ t2 \in TxnRec /\ t2.root = q /\ t2.head = t.head /\ t2.bk = t.bk /\ t2.err = t.err
       /\ Held(t2) = Held(t) /\ InMem(t2, q)
  BY <1>5 DEF Refreed
<1> QED BY <1>2, <1>5a, <1>18, <1>6, <1>12, <1>13, <1>14, <1>15, <1>17 DEF at, Rooted

\* Page q becomes the leaf page of n, with its value, and the old one is freed.
KidT(t, q, n, k, page) == SetT([t EXCEPT !.free = @ \cup ({k} \ {NoPg})], t.root, [page EXCEPT !.kid[n] = q])

Kidded(e, t, head, q, n, t2) ==
         /\ t2 \in TxnRec /\ t2.root = t.root /\ t2.head = t.head /\ t2.bk = t.bk /\ t2.err = t.err
         /\ Held(t2) = Held(t) /\ InMem(t2, q) /\ InMem(t2, t2.root) /\ q # NoPg
         /\ KidOf(AtIn(e, t2), t2.root) = [KidOf(AtIn(e, t), t.root) EXCEPT ![n] = q]
         /\ ValOf(AtIn(e, t2), t2.root) = ValOf(AtIn(e, t), t.root)
         /\ \A x \in Leaf : Path(e, t2, x) = IF x = n THEN [Path(e, t, x) EXCEPT ![2] = <<e.n, q>>]
                                             ELSE Path(e, t, x)
         /\ Mem(e, t2, head) /\ RoomIn(e, t2) /\ TreeShape(AtIn(e, t2), t2.root)
         /\ Parts(e, t2, head, {})

\* The new page is a leaf page of the root.
LEMMA KidIs ==
  ASSUME NEW e, EnvOK(e), NEW t \in TxnRec, NEW head \in SUBSET Pg, NEW m, NEW q, NEW n \in Leaf,
         Good(e, t, head, m, {q}), InMem(t, q), InMem(t, t.root),
         AtIn(e, t)[q].val = ValOf(AtIn(e, t), t.root)[n],
         NEW t2, t2 = KidT(t, q, n, KidOf(AtIn(e, t), t.root)[n], AtIn(e, t)[t.root])
  PROVE  Kidded(e, t, head, q, n, t2)
<1> DEFINE at == AtIn(e, t)
           r == t.root
           P == PagesOf(at, r)
           K == KidOf(at, r)
           k == K[n]
           F == t.free \cup ({k} \ {NoPg})
           page == [at[r] EXCEPT !.kid[n] = q]
           f == [t EXCEPT !.free = F]
<1>1. at \in [Pg -> Page] /\ TreeShape(at, r)
  BY AtInIs DEF Good
<1>2. /\ q \in Pg /\ q # NoPg /\ q \in PgN /\ r \in Pg /\ r # NoPg /\ r \in DOMAIN t.dirty
      /\ q \in DOMAIN t.dirty /\ q \notin t.spill /\ r \notin t.spill
  BY TxnIs, PgIs DEF InMem
<1>3. /\ K \in [Leaf -> PgN] /\ P \subseteq Pg /\ r \in P
      /\ \A x \in Leaf : /\ K[x] \in PgN /\ (K[x] # NoPg => K[x] \in P /\ K[x] \in Pg)
                         /\ (K[x] # NoPg => K[x] # r)
      /\ \A x, y \in Leaf : K[x] = K[y] /\ x # y => K[x] = NoPg
      /\ \A p \in P : p = r \/ \E x \in Leaf : p = K[x]
  BY <1>1, <1>2, TreeIs DEF TreeShape
<1>4. Split(P, head, e.freed, t.free, Range(t.loose), e.recent, {q}, t.next)
  BY DEF Good, Parts
<1>5. q \notin P
  BY <1>4 DEF Split
<1>6. at[r] \in Page /\ K = at[r].kid
  BY <1>1, <1>2 DEF KidOf
<1>7. page \in Page /\ page.kid = [K EXCEPT ![n] = q]
  BY <1>2, <1>6 DEF Page
<1>8. t2 = SetT(f, r, page)
  BY DEF KidT
<1> HIDE DEF at, K, P
<1>9. F \in SUBSET Pg
  BY <1>3, TxnIs
<1> HIDE DEF F
<1>10. f = FreeT(t, F, r)
  BY DEF TxnRec, FreeT
<1> HIDE DEF f, page
<1>11. Refreed(e, t, f, F, r)
  <2>1. r \in PgN
    BY <1>2, PgIs
  <2> QED BY <1>9, <1>10, <2>1, FreeIs
<1>11a. f \in TxnRec /\ f.dirty = t.dirty /\ f.spill = t.spill /\ AtIn(e, f) = at
  BY <1>11 DEF Refreed, at
<1>12. /\ Alike(f, t2) /\ t2.err = f.err
       /\ \A p \in Pg : p # r => AtIn(e, t2)[p] = at[p]
       /\ AtIn(e, t2)[r] = page
  <2>1. r \in DOMAIN f.dirty /\ r \notin f.spill
    BY <1>2, <1>11a
  <2> QED BY <1>7, <1>8, <1>11a, <2>1, SetTIs
<1>13. /\ \A p : GetIn(e, t2, p) = GetIn(e, t, p)
       /\ \A h : Mem(e, t, h) => Mem(e, t2, h)
       /\ RoomIn(e, t) => RoomIn(e, t2)
       /\ Held(t2) = Held(t)
  <2>1. /\ \A p : GetIn(e, t2, p) = GetIn(e, f, p)
        /\ \A h : Mem(e, f, h) => Mem(e, t2, h)
        /\ RoomIn(e, f) => RoomIn(e, t2)
        /\ Held(t2) = Held(f)
    BY <1>12, AlikeIs
  <2> QED BY <1>11, <2>1 DEF Refreed
<1>14. /\ t2 \in TxnRec /\ t2.root = r /\ t2.next = t.next /\ DOMAIN t2.dirty = DOMAIN t.dirty
       /\ t2.spill = t.spill /\ t2.free = F /\ t2.loose = t.loose /\ t2.head = t.head
       /\ t2.bk = t.bk /\ t2.err = t.err
  BY <1>11, <1>12 DEF Alike, Refreed
<1> DEFINE at2 == AtIn(e, t2)
           K2 == [K EXCEPT ![n] = q]
<1>15. KidOf(at2, r) = K2
  BY <1>2, <1>7, <1>12 DEF KidOf
<1>16. K2 \in [Leaf -> PgN] /\ K2[n] = q /\ \A x \in Leaf : x # n => K2[x] = K[x]
  BY <1>2, <1>3
<1> HIDE DEF K2, at2
<1>17. TreeShape(at2, r)
  <2>1. \A x \in Leaf : K2[x] \in PgN /\ (K2[x] # NoPg => K2[x] # r)
    BY <1>2, <1>3, <1>5, <1>16
  <2>2. \A x, y \in Leaf : K2[x] = K2[y] /\ x # y => K2[x] = NoPg
    <3>1. \A x \in Leaf : K[x] # q
      BY <1>2, <1>3, <1>5
    <3> QED BY <1>3, <1>16, <3>1
  <2>3. r \in PgN
    BY <1>2, PgIs
  <2> QED BY <1>15, <2>1, <2>2, <2>3 DEF TreeShape
<1>18. PagesOf(at2, r) = (P \ {k}) \cup {q}
  <2>1. /\ PagesOf(at2, r) = ({r} \cup {K2[x] : x \in Leaf}) \ {NoPg}
        /\ P = ({r} \cup {K[x] : x \in Leaf}) \ {NoPg}
    BY <1>15 DEF PagesOf, P, K
  <2>2. ASSUME NEW p, p \in PagesOf(at2, r) PROVE p \in (P \ {k}) \cup {q}
    <3>1. CASE p = r
      BY <1>2, <1>3, <3>1
    <3>2. ASSUME NEW x \in Leaf, p = K2[x], p # NoPg PROVE p \in (P \ {k}) \cup {q}
      BY <1>3, <1>16, <3>2
    <3> QED BY <2>1, <2>2, <3>1, <3>2
  <2>3. ASSUME NEW p, p \in (P \ {k}) \cup {q} PROVE p \in PagesOf(at2, r)
    <3>1. CASE p = q
      BY <1>2, <1>16, <2>1, <3>1
    <3>2. CASE p \in P /\ p # k
      <4>1. p = r \/ \E x \in Leaf : p = K[x] /\ x # n
        BY <1>3, <3>2
      <4>2. p # NoPg
        BY <2>1, <3>2
      <4> QED BY <1>16, <2>1, <4>1, <4>2
    <3> QED BY <2>3, <3>1, <3>2
  <2> QED BY <2>2, <2>3
<1>19. Split((P \ {k}) \cup {q}, head, e.freed, F, Range(t.loose), e.recent, {}, t.next)
  <2>1. \/ k \in P /\ F = t.free \cup {k}
        \/ P \ {k} = P /\ F = t.free
    <3>1. CASE k # NoPg
      BY <1>3, <3>1 DEF F
    <3>2. CASE k = NoPg
      BY <1>3, <3>2, PgIs DEF F
    <3> QED BY <3>1, <3>2
  <2> HIDE DEF k
  <2>2. CASE k \in P /\ F = t.free \cup {k}
    BY <1>4, <1>5, <2>2 DEF Split
  <2>3. CASE P \ {k} = P /\ F = t.free
    BY <1>4, <2>3 DEF Split
  <2> QED BY <2>1, <2>2, <2>3
<1>20. Parts(e, t2, head, {})
  BY <1>14, <1>18, <1>19 DEF Parts, at2
<1>21. ValOf(at2, r) = ValOf(at, r)
  <2>1. ASSUME NEW x \in Leaf
        PROVE  (IF K2[x] = NoPg THEN NoVal ELSE at2[K2[x]].val) = (IF K[x] = NoPg THEN NoVal ELSE at[K[x]].val)
    <3>1. CASE x = n
      <4>1. at[q].val = ValOf(at, r)[n]
        BY DEF at
      <4>2. ValOf(at, r)[n] = IF K[n] = NoPg THEN NoVal ELSE at[K[n]].val
        BY DEF ValOf, K
      <4>3. at2[q] = at[q]
        BY <1>2, <1>3, <1>5, <1>12 DEF at2
      <4> QED BY <1>2, <1>16, <3>1, <4>1, <4>2, <4>3
    <3>2. CASE x # n
      BY <1>3, <1>12, <1>16, <3>2 DEF at2
    <3> QED BY <3>1, <3>2
  <2> QED BY <1>15, <2>1 DEF ValOf, K
<1>22. ASSUME NEW x \in Leaf
       PROVE  Path(e, t2, x) = IF x = n THEN [Path(e, t, x) EXCEPT ![2] = <<e.n, q>>]
                               ELSE Path(e, t, x)
  <2>1. Path(e, t2, x) = <<PtrTo(e, t, r), PtrTo(e, t, K2[x])>>
    BY <1>13, <1>14, <1>15 DEF Path, PtrTo, at2
  <2>2. Path(e, t, x) = <<PtrTo(e, t, r), PtrTo(e, t, K[x])>>
    BY DEF Path, K, at
  <2>3. PtrTo(e, t, q) = <<e.n, q>>
    BY <1>2 DEF PtrTo, GetIn
  <2> QED BY <1>16, <2>1, <2>2, <2>3
<1>23. Mem(e, t2, head) /\ RoomIn(e, t2)
  BY <1>13 DEF Good
<1>24. InMem(t2, q) /\ InMem(t2, r)
  BY <1>2, <1>14 DEF InMem
<1> QED BY <1>2, <1>13, <1>14, <1>15, <1>17, <1>20, <1>21, <1>22, <1>23, <1>24 DEF at, at2, K2, K, Kidded

-----------------------------------------------------------------------------
(***************************************************************************)
(* What a page is after its allocation.                                    *)
(***************************************************************************)

\* The operation failed; what was done before is in place.
Bad(b, e, s, a) == /\ Fits(b, e, a) /\ Along(s, a) /\ a.rc # "OK" /\ T(a).err
                   /\ Good(e, T(a), a.head, a.mc, {})

\* It succeeded: cursor c can go on, and the values are the same.
Fine(b, e, s, c, a) ==
  /\ Fits(b, e, a) /\ Along(s, a) /\ a.rc = "OK" /\ T(a).err = T(s).err
  /\ Good(e, T(a), a.head, a.mc, {})
  /\ Work(e, T(a), a.mc[c]) /\ a.mc[c].leaf = s.mc[c].leaf

LEMMA FailedBad ==
  ASSUME NEW b, NEW e, NEW s, Fits(b, e, s), NEW a, Failed(b, e, s, a),
         Good(e, T(s), s.head, s.mc, {})
  PROVE  Bad(b, e, s, a)
<1>1. Good(e, T(a), a.head, a.mc, {})
  BY FailedGood
<1> QED BY <1>1 DEF Failed, Bad

LEMMA AllocedIs ==
  ASSUME NEW e, EnvOK(e), NEW t \in TxnRec, NEW head, NEW t2, NEW head2, NEW p, NEW m,
         Alloced(e, t, head, t2, head2, p), Good(e, t, head, m, {}), Good(e, t2, head2, m, {p})
  PROVE  /\ p \notin Pages(e, t) /\ Kids(e, t2) = Kids(e, t) /\ Pages(e, t2) = Pages(e, t)
         /\ Vals(e, t2) = Vals(e, t) /\ InMem(t2, p) /\ \A q : InMem(t, q) => InMem(t2, q)
         /\ \A q \in Pages(e, t) : GetIn(e, t2, q) = GetIn(e, t, q) /\ AtIn(e, t2)[q] = AtIn(e, t)[q]
         /\ \A n \in Leaf : Path(e, t2, n) = Path(e, t, n)
<1>1. /\ t2 \in TxnRec /\ p \in Pg /\ t2.root = t.root /\ t2.spill = t.spill
      /\ DOMAIN t2.dirty = DOMAIN t.dirty \cup {p} /\ p \notin t2.spill
      /\ \A q \in Pg : q # p => GetIn(e, t2, q) = GetIn(e, t, q) /\ AtIn(e, t2)[q] = AtIn(e, t)[q]
  BY DEF Alloced
<1> DEFINE at == AtIn(e, t)
           at2 == AtIn(e, t2)
           r == t.root
<1>2. at \in [Pg -> Page] /\ at2 \in [Pg -> Page] /\ TreeShape(at, r) /\ TreeShape(at2, r)
  BY <1>1, AtInIs DEF Good
<1>3. p \notin PagesOf(at2, r)
  BY <1>1 DEF Good, Parts, Split
<1>4. \A q \in Pg : q # p => at2[q] = at[q]
  BY <1>1
<1> HIDE DEF at, at2
<1>5. PagesOf(at2, r) \subseteq Pg /\ PagesOf(at, r) \subseteq Pg
  BY <1>2, TreeIs
<1>6. \A q \in PagesOf(at2, r) : at[q] = at2[q]
  BY <1>3, <1>4, <1>5
<1>7. PagesOf(at, r) = PagesOf(at2, r)
  BY <1>2, <1>6, Agree
<1>8. \A q \in Pages(e, t) : GetIn(e, t2, q) = GetIn(e, t, q) /\ AtIn(e, t2)[q] = AtIn(e, t)[q]
  BY <1>1, <1>3, <1>5, <1>7 DEF Pages, at, at2
<1>9. /\ Kids(e, t2) = Kids(e, t) /\ Pages(e, t2) = Pages(e, t) /\ Vals(e, t2) = Vals(e, t)
      /\ \A n \in Leaf : Path(e, t2, n) = Path(e, t, n)
  BY <1>1, <1>2, <1>8, AgreeIn DEF Kids, Pages, Vals, at
<1>10. InMem(t2, p) /\ \A q : InMem(t, q) => InMem(t2, q)
  BY <1>1 DEF InMem
<1> QED BY <1>1, <1>3, <1>7, <1>8, <1>9, <1>10 DEF Pages, at, at2

\* A page was allocated and written; it is not in the tree yet.
Fresh(b, e, s, x, page) ==
  /\ Fits(b, e, x) /\ Along(s, x) /\ x.rc = "OK" /\ x.mc = s.mc /\ Top(x) = Top(s)
  /\ Good(e, T(x), x.head, x.mc, {x.np}) /\ T(x).err = T(s).err
  /\ InMem(T(x), x.np) /\ AtIn(e, T(x))[x.np] = page /\ x.np \notin Pages(e, T(s))
  /\ \A q : InMem(T(s), q) => InMem(T(x), q)
  /\ T(x).root = T(s).root /\ Kids(e, T(x)) = Kids(e, T(s)) /\ Pages(e, T(x)) = Pages(e, T(s))
  /\ Vals(e, T(x)) = Vals(e, T(s))
  /\ \A q \in Pages(e, T(s)) : /\ GetIn(e, T(x), q) = GetIn(e, T(s), q)
                               /\ AtIn(e, T(x))[q] = AtIn(e, T(s))[q]
  /\ \A n \in Leaf : Path(e, T(x), n) = Path(e, T(s), n)

LEMMA FreshIs ==
  ASSUME NEW b, NEW e, NEW s, Fits(b, e, s), s.rc = "OK", Good(e, T(s), s.head, s.mc, {}),
         NEW a, a = PageAlloc(s), a.rc = "OK", NEW page \in Page,
         NEW x, x = SetPage(a, <<Top(a), a.np>>, page)
  PROVE  Fresh(b, e, s, x, page) /\ x.np = a.np /\ Top(a) = Top(s)
<1> DEFINE p == a.np
           t1 == T(a)
           t2 == SetT(t1, p, page)
<1>1. /\ Fits(b, e, a) /\ Along(s, a) /\ a.mc = s.mc
      /\ Alloced(e, T(s), s.head, T(a), a.head, a.np)
      /\ Good(e, T(a), a.head, a.mc, {a.np})
  <2>1. ~ Failed(b, e, s, a)
    BY DEF Failed
  <2> QED BY <2>1, PageAllocIs
<1>2. T(s) \in TxnRec /\ EnvOK(e) /\ t1 \in TxnRec
  BY <1>1, FitsIs
<1>3. /\ p \notin Pages(e, T(s)) /\ Kids(e, t1) = Kids(e, T(s)) /\ Pages(e, t1) = Pages(e, T(s))
      /\ Vals(e, t1) = Vals(e, T(s)) /\ InMem(t1, p) /\ \A q : InMem(T(s), q) => InMem(t1, q)
      /\ \A q \in Pages(e, T(s)) : GetIn(e, t1, q) = GetIn(e, T(s), q) /\ AtIn(e, t1)[q] = AtIn(e, T(s))[q]
      /\ \A n \in Leaf : Path(e, t1, n) = Path(e, T(s), n)
  <2> HIDE DEF t1, p
  <2>1. Alloced(e, T(s), s.head, t1, a.head, p)
    BY <1>1 DEF t1, p
  <2>2. Good(e, T(s), s.head, s.mc, {})
    OBVIOUS
  <2>3. Good(e, t1, a.head, s.mc, {p})
    BY <1>1 DEF t1, p
  <2> QED BY ONLY <1>2, <2>1, <2>2, <2>3, AllocedIs
<1>4. p \in DOMAIN t1.dirty /\ p \notin t1.spill
  BY <1>3 DEF InMem
<1>5. /\ Fits(b, e, x) /\ Along(a, x) /\ T(x) = t2 /\ x.head = a.head
      /\ x.mc = a.mc /\ x.rc = a.rc /\ x.np = p /\ Top(x) = Top(a)
  BY <1>1, <1>4, PutPage
<1>6. /\ Alike(t1, t2) /\ t2.err = t1.err
      /\ \A q \in Pg : q # p => AtIn(e, t2)[q] = AtIn(e, t1)[q]
      /\ AtIn(e, t2)[p] = page
  BY <1>2, <1>4, SetTIs
<1> HIDE DEF t1, t2, p
<1>7. \A q \in Pages(e, t1) : q \in Pg /\ q # p
  <2>1. AtIn(e, t1) \in [Pg -> Page] /\ TreeShape(AtIn(e, t1), t1.root)
    BY <1>1, <1>2, AtInIs DEF Good, t1
  <2>2. Pages(e, t1) \subseteq Pg
    BY <2>1, TreeIs DEF Pages
  <2> QED BY <1>3, <2>2
<1>8. /\ Good(e, t2, a.head, a.mc, {p})
      /\ Kids(e, t2) = Kids(e, t1) /\ Pages(e, t2) = Pages(e, t1) /\ Vals(e, t2) = Vals(e, t1)
  <2>1. \A q \in PagesOf(AtIn(e, t1), t1.root) : AtIn(e, t2)[q] = AtIn(e, t1)[q]
    BY <1>6, <1>7 DEF Pages
  <2>2. Good(e, t1, a.head, a.mc, {p})
    BY <1>1 DEF t1, p
  <2> QED BY <1>2, <1>6, <2>1, <2>2, GoodAlike DEF Kids, Pages, Vals
<1>9. \A q : GetIn(e, t2, q) = GetIn(e, t1, q)
  BY <1>6, AlikeIs
<1>10. \A n \in Leaf : Path(e, t2, n) = Path(e, t1, n)
  <2>1. t2.root = t1.root
    BY <1>6 DEF Alike
  <2> QED BY <1>8, <1>9, <2>1 DEF Path, PtrTo, Kids
<1>11. \A q : InMem(t1, q) => InMem(t2, q)
  BY <1>6 DEF InMem, Alike
<1>12. t2.root = T(s).root /\ t2.err = T(s).err
  BY <1>1, <1>6 DEF Alike, Alloced, t1
<1>13. Along(s, x) /\ Top(x) = Top(s)
  BY <1>1, <1>5, AlongTrans DEF Along
<1>14. \A q \in Pages(e, T(s)) : /\ GetIn(e, t2, q) = GetIn(e, T(s), q)
                                 /\ AtIn(e, t2)[q] = AtIn(e, T(s))[q]
  BY <1>3, <1>6, <1>7, <1>9
<1>15. /\ Good(e, T(x), x.head, x.mc, {x.np})
       /\ InMem(T(x), x.np) /\ AtIn(e, T(x))[x.np] = page /\ x.np \notin Pages(e, T(s))
  BY <1>3, <1>5, <1>6, <1>8, <1>11
<1>16. \A n \in Leaf : Path(e, T(x), n) = Path(e, T(s), n)
  BY <1>3, <1>5, <1>10
<1>17. \A q : InMem(T(s), q) => InMem(T(x), q)
  BY <1>3, <1>5, <1>11
<1>18. /\ Kids(e, T(x)) = Kids(e, T(s)) /\ Pages(e, T(x)) = Pages(e, T(s))
       /\ Vals(e, T(x)) = Vals(e, T(s))
  BY <1>3, <1>5, <1>8
<1>19. Fresh(b, e, s, x, page)
  BY <1>1, <1>5, <1>12, <1>13, <1>14, <1>15, <1>16, <1>17, <1>18 DEF Fresh
<1> QED BY <1>5, <1>13, <1>19 DEF p

-----------------------------------------------------------------------------
(***************************************************************************)
(* mdb_page_touch, one page: what it must keep for the cursor's stack.     *)
(***************************************************************************)

\* Cursor c is at a path of the tree.
Ready(b, e, s, c) == /\ Fits(b, e, s) /\ s.rc = "OK" /\ Good(e, T(s), s.head, s.mc, {})
                     /\ c \in Cursors \cup {Local} /\ Work(e, T(s), s.mc[c])

\* Page p is the root, or the leaf page of cursor c under a root in memory.
Touchable(e, s, c, i, p) ==
  /\ p # NoPg
  /\ \/ i = 1 /\ p = T(s).root
     \/ i = 2 /\ p = Kids(e, T(s))[s.mc[c].leaf] /\ InMem(T(s), T(s).root)

Touched(b, e, s, c, i, a) ==
  \/ Bad(b, e, s, a)
  \/ /\ Fine(b, e, s, c, a) /\ Vals(e, T(a)) = Vals(e, T(s))
     /\ T(a).root # NoPg /\ InMem(T(a), T(a).root)
     /\ i = 2 => InMem(T(a), Kids(e, T(a))[s.mc[c].leaf])
     /\ \A n \in Leaf : Kids(e, T(a))[n] = NoPg <=> Kids(e, T(s))[n] = NoPg

TouchPage(e, s, c, i, p) ==
         /\ p \in Pg /\ p \in Pages(e, T(s)) /\ s.mc[c].pg[i] = GetIn(e, T(s), p)
         /\ GetIn(e, T(s), p) \in Ptrs /\ GetIn(e, T(s), p)[2] = p /\ T(s).root # NoPg
         /\ s.mc[c].pg[i] = Get(s, p) /\ PageAt(s, s.mc[c].pg[i]) = AtIn(e, T(s))[p]
         /\ s.mc[c].leaf \in Leaf /\ T(s) \in TxnRec /\ EnvOK(e) /\ s.head \in SUBSET Pg
         /\ TreeShape(AtIn(e, T(s)), T(s).root) /\ AtIn(e, T(s)) \in [Pg -> Page]
         /\ Path(e, T(s), s.mc[c].leaf)[i] = GetIn(e, T(s), p)
         /\ e.n = Top(s) /\ Top(s) \in Nat \ {0} /\ <<e.n, p>> \in Ptrs

LEMMA TouchableIs ==
  ASSUME NEW b, NEW e, NEW s, NEW c, Ready(b, e, s, c), NEW i \in 1 .. 2, NEW p,
         Touchable(e, s, c, i, p)
  PROVE  TouchPage(e, s, c, i, p)
<1> DEFINE t == T(s)
           n == s.mc[c].leaf
<1>1. /\ t \in TxnRec /\ EnvOK(e) /\ s \in StRec /\ s.head \in SUBSET Pg
      /\ e.n = Top(s) /\ Top(s) \in Nat \ {0}
  BY FitsIs, StIs DEF Ready
<1>2. TreeShape(AtIn(e, t), t.root) /\ AtIn(e, t) \in [Pg -> Page]
  BY <1>1, AtInIs DEF Ready, Good
<1>3. n \in Leaf /\ s.mc[c].pg = Path(e, t, n)
  BY DEF Ready, Work
<1>4. /\ p \in Pg /\ p \in Pages(e, t) /\ t.root # NoPg
      /\ i = 1 => p = t.root
      /\ i = 2 => p = Kids(e, t)[n]
  BY <1>2, <1>3, TreeIs DEF Touchable, Kids, Pages
<1>5a. Paths(e, t, n)
  BY <1>1, <1>2, <1>3, PathIs
<1>5. Path(e, t, n)[i] = GetIn(e, t, p)
  <2>1. CASE i = 1
    BY <1>5a, <1>4, <2>1 DEF Paths
  <2>2. CASE i = 2
    <3>1. KidOf(AtIn(e, t), t.root)[n] # NoPg
      BY <1>4, <2>2 DEF Kids, Touchable
    <3> QED BY <1>5a, <1>4, <2>2, <3>1 DEF Paths, Kids
  <2> QED BY <2>1, <2>2
<1>6. GetIn(e, t, p) \in Ptrs /\ GetIn(e, t, p)[2] = p
  BY <1>1, <1>4, GetInIs
<1>7. Get(s, p) = GetIn(e, t, p) /\ PageAt(s, Get(s, p)) = AtIn(e, t)[p]
  BY <1>4, FitsIs DEF Ready
<1>8. <<e.n, p>> \in Ptrs
  BY <1>1, <1>4, PgIs DEF Ptrs
<1> QED BY <1>1, <1>2, <1>3, <1>4, <1>5, <1>6, <1>7, <1>8 DEF TouchPage

\* In memory already.
LEMMA TouchNothing ==
  ASSUME NEW b, NEW e, NEW s, NEW c, Ready(b, e, s, c), NEW i \in 1 .. 2, NEW p,
         Touchable(e, s, c, i, p), InMem(T(s), p)
  PROVE  Touched(b, e, s, c, i, s)
<1>1. Fits(b, e, s) /\ Along(s, s)
  BY DEF Ready, Along
<1>2. Fine(b, e, s, c, s)
  BY <1>1 DEF Fine, Ready
<1>3. T(s).root # NoPg
  <2>1. TouchPage(e, s, c, i, p)
    BY TouchableIs
  <2> QED BY <2>1 DEF TouchPage
<1>4. InMem(T(s), T(s).root) /\ (i = 2 => InMem(T(s), Kids(e, T(s))[s.mc[c].leaf]))
  BY DEF Touchable
<1> QED BY <1>2, <1>3, <1>4 DEF Touched

\* A parent's copy, or what was spilled.
LEMMA TouchTaken ==
  ASSUME NEW b, NEW e, NEW s, NEW c, Ready(b, e, s, c), NEW i \in 1 .. 2, NEW p,
         Touchable(e, s, c, i, p), p \notin DOMAIN T(s).dirty, p \in e.reg \cup T(s).spill,
         NEW room, room = IF GetIn(e, T(s), p)[1] = 0 THEN T(s).room - 1 ELSE T(s).room,
         NEW u, u = WithT(s, TakenT(T(s), p, AtIn(e, T(s))[p], room)),
         NEW a, a = Adjust(u, c, i, s.mc[c].pg[i], <<Top(s), p>>)
  PROVE  Touched(b, e, s, c, i, a)
<1> DEFINE t == T(s)
           n == s.mc[c].leaf
           t2 == TakenT(t, p, AtIn(e, t)[p], room)
           old == GetIn(e, t, p)
           new == <<e.n, p>>
<1>1. /\ p \in Pg /\ p \in Pages(e, t) /\ s.mc[c].pg[i] = old
      /\ old \in Ptrs /\ old[2] = p /\ t.root # NoPg
      /\ n \in Leaf /\ t \in TxnRec /\ EnvOK(e) /\ s.head \in SUBSET Pg
      /\ TreeShape(AtIn(e, t), t.root) /\ AtIn(e, t) \in [Pg -> Page]
      /\ Path(e, t, n)[i] = old /\ e.n = Top(s) /\ new \in Ptrs
  <2>1. TouchPage(e, s, c, i, p)
    BY TouchableIs
  <2> QED BY <2>1 DEF TouchPage
<1>2. Good(e, t, s.head, s.mc, {}) /\ Fits(b, e, s) /\ s.rc = "OK" /\ c \in Cursors \cup {Local}
      /\ Work(e, t, s.mc[c])
  BY DEF Ready
<1> HIDE DEF t2, old, new
<1>3. /\ t2 \in TxnRec /\ t2.root = t.root /\ t2.head = t.head /\ t2.bk = t.bk /\ t2.err = t.err
      /\ Held(t) \subseteq Held(t2)
      /\ InMem(t2, p) /\ \A q : InMem(t, q) => InMem(t2, q)
      /\ AtIn(e, t2) = AtIn(e, t)
      /\ GetIn(e, t2, p) = <<e.n, p>> /\ \A q \in Pg : q # p => GetIn(e, t2, q) = GetIn(e, t, q)
      /\ Mem(e, t2, s.head) /\ RoomIn(e, t2) /\ TreeShape(AtIn(e, t2), t2.root)
      /\ Parts(e, t2, s.head, {})
  <2>1. Taken(e, t, s.head, p, t2)
    BY <1>1, <1>2, TakenIs DEF Pages, t2
  <2> QED BY <2>1 DEF Taken
<1>4. Fits(b, e, u) /\ T(u) = t2 /\ u.head = s.head /\ u.mc = s.mc /\ u.rc = s.rc /\ Along(s, u)
  BY <1>2, <1>3, FitsWithT DEF t2
<1>5. /\ Fits(b, e, a) /\ Along(u, a) /\ T(a) = t2 /\ a.head = s.head /\ a.rc = "OK"
      /\ Moved(s.mc, a.mc, c, i, old, new)
  <2>1. a = Adjust(u, c, i, old, new)
    BY <1>1 DEF new
  <2>2. Adjusted(b, e, u, c, i, old, new, a)
    BY <1>1, <1>2, <1>4, <2>1, AdjustIs
  <2> QED BY <1>2, <1>4, <2>2 DEF Adjusted
<1>6. Along(s, a)
  BY <1>4, <1>5, AlongTrans
<1> DEFINE K == Kids(e, t)
<1>7. /\ Kids(e, t2) = K /\ Vals(e, t2) = Vals(e, t)
  BY <1>3 DEF Kids, Vals
<1>8. \A x \in Leaf : /\ K[x] \in PgN /\ (K[x] # NoPg => K[x] \in Pg)
                      /\ (K[x] # NoPg => K[x] # t.root)
      /\ t.root \in Pg
  BY <1>1, TreeIs DEF Kids, TreeShape
<1> HIDE DEF K
<1>9. ASSUME NEW x \in Leaf, K[x] # NoPg \/ x = n
      PROVE  Path(e, t2, x) = IF Path(e, t, x)[i] = old THEN [Path(e, t, x) EXCEPT ![i] = new]
                              ELSE Path(e, t, x)
  <2>1. /\ Path(e, t, x) = <<GetIn(e, t, t.root), PtrTo(e, t, K[x])>>
        /\ Path(e, t2, x) = <<GetIn(e, t2, t.root), PtrTo(e, t2, K[x])>>
    BY <1>1, <1>3, <1>7 DEF Path, PtrTo, Kids, K
  <2>2. CASE i = 1
    <3>1. p = t.root
      BY <2>2 DEF Touchable
    <3>2. PtrTo(e, t2, K[x]) = PtrTo(e, t, K[x])
      BY <1>3, <1>8, <3>1 DEF PtrTo
    <3> QED BY <1>3, <2>1, <2>2, <3>1, <3>2 DEF old, new
  <2>3. CASE i = 2
    <3>1. p = K[n] /\ p # NoPg
      BY <2>3 DEF Touchable, K
    <3>2. GetIn(e, t2, t.root) = GetIn(e, t, t.root)
      BY <1>3, <1>8, <1>1, <3>1
    <3>3. CASE K[x] = p
      <4>1. PtrTo(e, t2, K[x]) = new /\ PtrTo(e, t, K[x]) = old
        BY <1>3, <3>1, <3>3 DEF PtrTo, new, old
      <4> QED BY <2>1, <2>3, <3>2, <4>1
    <3>4. CASE K[x] # p
      <4>1. K[x] # NoPg /\ K[x] \in Pg
        BY <1>8, <1>9, <3>1, <3>4
      <4>2. PtrTo(e, t2, K[x]) = GetIn(e, t, K[x]) /\ PtrTo(e, t, K[x]) = GetIn(e, t, K[x])
        BY <1>3, <3>4, <4>1 DEF PtrTo
      <4>3. GetIn(e, t, K[x])[2] = K[x]
        BY <1>1, <4>1, GetInIs
      <4>4. GetIn(e, t, K[x]) # old
        BY <1>1, <3>4, <4>3
      <4> QED BY <2>1, <2>3, <3>2, <4>2, <4>4
    <3> QED BY <3>3, <3>4
  <2> QED BY <2>2, <2>3
<1>10. Curs(e, t2, a.mc) /\ Work(e, t2, a.mc[c]) /\ a.mc[c].leaf = n
  <2>1. Curs(e, t, s.mc)
    BY <1>2 DEF Good
  <2>2. Follows(e, t, t2, n, i, old, new)
    BY <1>7, <1>9 DEF K, Follows
  <2>8. Path(e, t, n)[i] = old /\ Placed(e, t, s.mc, c, n)
    BY <1>1, <1>2, <2>1 DEF Placed
  <2>9. Moved(s.mc, a.mc, c, i, old, new)
    BY <1>5
  <2>10. Placed(e, t2, a.mc, c, n)
    BY <2>2, <2>8, <2>9, CursMove
  <2> QED BY <2>10 DEF Placed
<1>11. Good(e, t2, a.head, a.mc, {})
  BY <1>3, <1>5, <1>10 DEF Good
<1>12. Fine(b, e, s, c, a)
  BY <1>3, <1>5, <1>6, <1>10, <1>11 DEF Fine
<1>13. InMem(t2, t2.root) /\ (i = 2 => InMem(t2, K[n]))
  BY <1>3 DEF Touchable, K
<1> QED BY <1>1, <1>3, <1>5, <1>7, <1>12, <1>13 DEF Touched, K

\* A new page becomes the root.
LEMMA TouchRoot ==
  ASSUME NEW b, NEW e, NEW s, NEW c, Ready(b, e, s, c), NEW p, Touchable(e, s, c, 1, p),
         NEW x, Fresh(b, e, s, x, AtIn(e, T(s))[p]),
         NEW u, Fits(b, e, u), Along(x, u), T(u) = RootT(T(x), x.np), u.head = x.head,
         u.mc = x.mc, u.rc = x.rc,
         NEW a, a = Adjust(u, c, 1, s.mc[c].pg[1], <<Top(s), x.np>>)
  PROVE  Touched(b, e, s, c, 1, a)
<1> DEFINE t == T(s)
           n == s.mc[c].leaf
           q == x.np
           t2 == RootT(T(x), q)
           old == GetIn(e, t, p)
           new == <<e.n, q>>
<1>0. 1 \in 1 .. 2
  OBVIOUS
<1>1. /\ p \in Pg /\ p \in Pages(e, t) /\ s.mc[c].pg[1] = old
      /\ old \in Ptrs /\ old[2] = p /\ t.root # NoPg
      /\ n \in Leaf /\ t \in TxnRec /\ EnvOK(e) /\ s.head \in SUBSET Pg
      /\ TreeShape(AtIn(e, t), t.root) /\ AtIn(e, t) \in [Pg -> Page]
      /\ Path(e, t, n)[1] = old /\ e.n = Top(s)
  <2>1. TouchPage(e, s, c, 1, p)
    BY <1>0, TouchableIs
  <2> QED BY <2>1 DEF TouchPage
<1>1a. p = t.root
  BY DEF Touchable
<1>2. Good(e, t, s.head, s.mc, {}) /\ Fits(b, e, s) /\ s.rc = "OK" /\ c \in Cursors \cup {Local}
      /\ Work(e, t, s.mc[c])
  BY DEF Ready
<1>3. /\ Fits(b, e, x) /\ Along(s, x) /\ x.rc = "OK" /\ x.mc = s.mc /\ Top(x) = Top(s)
      /\ Good(e, T(x), x.head, x.mc, {q}) /\ T(x).err = T(s).err
      /\ InMem(T(x), q) /\ AtIn(e, T(x))[q] = AtIn(e, t)[p]
      /\ T(x).root = t.root /\ Kids(e, T(x)) = Kids(e, t)
      /\ Vals(e, T(x)) = Vals(e, t)
      /\ \A y \in Leaf : Path(e, T(x), y) = Path(e, t, y)
  BY DEF Fresh
<1>4. T(x) \in TxnRec /\ x.head \in SUBSET Pg /\ q \in Pg /\ q # NoPg
  <2>1. T(x) \in TxnRec /\ x \in StRec
    BY <1>3, FitsIs
  <2> QED BY <1>3, <2>1, TxnIs, StIs, PgIs DEF InMem
<1> HIDE DEF t2, old, new, q
<1>5. KidOf(AtIn(e, T(x)), q) = KidOf(AtIn(e, T(x)), T(x).root)
  <2>1. KidOf(AtIn(e, T(x)), q) = AtIn(e, t)[p].kid
    BY <1>3, <1>4 DEF KidOf
  <2>2. Kids(e, t) = AtIn(e, t)[p].kid
    BY <1>1, <1>1a DEF Kids, KidOf
  <2> QED BY <1>3, <2>1, <2>2 DEF Kids
<1>6. /\ t2 \in TxnRec /\ t2.root = q /\ t2.err = T(x).err /\ InMem(t2, q)
      /\ Kids(e, t2) = Kids(e, t) /\ Vals(e, t2) = Vals(e, t)
      /\ \A y \in Leaf : Path(e, t2, y) = [Path(e, t, y) EXCEPT ![1] = new]
      /\ Mem(e, t2, x.head) /\ RoomIn(e, t2) /\ TreeShape(AtIn(e, t2), t2.root)
      /\ Parts(e, t2, x.head, {})
  <2>1. Rooted(e, T(x), x.head, q, t2)
    BY <1>1, <1>3, <1>4, <1>5, RootIs DEF t2
  <2> QED BY <1>3, <2>1 DEF Rooted, new, Kids, Vals
<1>7. new \in Ptrs /\ new = <<Top(s), x.np>>
  <2>1. e.n \in Int /\ q \in Nat
    BY <1>1, <1>4, PgIs DEF EnvOK
  <2> QED BY <1>1, <2>1 DEF new, Ptrs, q
<1>8. /\ Fits(b, e, a) /\ Along(u, a) /\ T(a) = t2 /\ a.head = x.head /\ a.rc = "OK"
      /\ Moved(s.mc, a.mc, c, 1, old, new)
  <2>1. a = Adjust(u, c, 1, old, new) /\ T(u) = t2
    BY <1>1, <1>7 DEF t2, q
  <2>2. Adjusted(b, e, u, c, 1, old, new, a)
    BY <1>0, <1>2, <1>7, <2>1, AdjustIs
  <2> QED BY <1>3, <2>1, <2>2 DEF Adjusted
<1>9. Along(s, a)
  <2>1. Along(s, u)
    BY <1>3, AlongTrans
  <2> QED BY <1>8, <2>1, AlongTrans
<1>10. Curs(e, t2, a.mc) /\ Work(e, t2, a.mc[c]) /\ a.mc[c].leaf = n
  <2>1. Curs(e, t, s.mc)
    BY <1>2 DEF Good
  <2>2. \A y \in Leaf : Path(e, t, y)[1] = old
    <3>1. \A y \in Leaf : Paths(e, t, y)
      BY <1>1, PathIs
    <3> QED BY <1>1, <1>1a, <3>1 DEF old, Paths
  <2>3. Follows(e, t, t2, n, 1, old, new)
    BY <1>6, <2>2 DEF Follows
  <2>8. Path(e, t, n)[1] = old /\ Placed(e, t, s.mc, c, n)
    BY <1>1, <1>2, <2>1 DEF Placed
  <2>9. Moved(s.mc, a.mc, c, 1, old, new)
    BY <1>8
  <2>10. Placed(e, t2, a.mc, c, n)
    BY <2>3, <2>8, <2>9, CursMove
  <2> QED BY <2>10 DEF Placed
<1>11. Good(e, t2, a.head, a.mc, {})
  BY <1>6, <1>8, <1>10 DEF Good
<1>12. Fine(b, e, s, c, a)
  BY <1>3, <1>6, <1>8, <1>9, <1>10, <1>11 DEF Fine
<1> QED BY <1>4, <1>6, <1>8, <1>12 DEF Touched

\* A new page becomes the cursor's leaf page.
LEMMA TouchKid ==
  ASSUME NEW b, NEW e, NEW s, NEW c, Ready(b, e, s, c), NEW p, Touchable(e, s, c, 2, p),
         NEW x, Fresh(b, e, s, x, AtIn(e, T(s))[p]),
         NEW u, Fits(b, e, u), Along(x, u), u.head = x.head, u.mc = x.mc, u.rc = x.rc,
         T(u) = KidT(T(x), x.np, s.mc[c].leaf, p, AtIn(e, T(x))[T(x).root]),
         NEW a, a = Adjust(u, c, 2, s.mc[c].pg[2], <<Top(s), x.np>>)
  PROVE  Touched(b, e, s, c, 2, a)
<1> DEFINE t == T(s)
           n == s.mc[c].leaf
           q == x.np
           t2 == T(u)
           old == GetIn(e, t, p)
           new == <<e.n, q>>
<1>0. 2 \in 1 .. 2
  OBVIOUS
<1>1. /\ p \in Pg /\ p \in Pages(e, t) /\ s.mc[c].pg[2] = old
      /\ old \in Ptrs /\ old[2] = p /\ t.root # NoPg
      /\ n \in Leaf /\ t \in TxnRec /\ EnvOK(e) /\ s.head \in SUBSET Pg
      /\ TreeShape(AtIn(e, t), t.root) /\ AtIn(e, t) \in [Pg -> Page]
      /\ Path(e, t, n)[2] = old /\ e.n = Top(s)
  <2>1. TouchPage(e, s, c, 2, p)
    BY <1>0, TouchableIs
  <2> QED BY <2>1 DEF TouchPage
<1>1a. p = Kids(e, t)[n] /\ InMem(t, t.root) /\ p # NoPg
  BY DEF Touchable
<1>2. Good(e, t, s.head, s.mc, {}) /\ Fits(b, e, s) /\ s.rc = "OK" /\ c \in Cursors \cup {Local}
      /\ Work(e, t, s.mc[c])
  BY DEF Ready
<1>3. /\ Fits(b, e, x) /\ Along(s, x) /\ x.rc = "OK" /\ x.mc = s.mc /\ Top(x) = Top(s)
      /\ Good(e, T(x), x.head, x.mc, {q}) /\ T(x).err = T(s).err
      /\ InMem(T(x), q) /\ AtIn(e, T(x))[q] = AtIn(e, t)[p]
      /\ T(x).root = t.root /\ Kids(e, T(x)) = Kids(e, t)
      /\ Vals(e, T(x)) = Vals(e, t)
      /\ \A y \in Leaf : Path(e, T(x), y) = Path(e, t, y)
      /\ \A y : InMem(t, y) => InMem(T(x), y)
  BY DEF Fresh
<1>4. T(x) \in TxnRec /\ x.head \in SUBSET Pg /\ q \in Pg /\ q # NoPg
  <2>1. T(x) \in TxnRec /\ x \in StRec
    BY <1>3, FitsIs
  <2> QED BY <1>3, <2>1, TxnIs, StIs, PgIs DEF InMem
<1> HIDE DEF old, new, q
<1>5. AtIn(e, T(x))[q].val = Vals(e, T(x))[n]
  <2>1. Vals(e, t)[n] = AtIn(e, t)[p].val
    BY <1>1, <1>1a DEF Vals, ValOf, Kids
  <2> QED BY <1>3, <2>1
<1>6. /\ t2 \in TxnRec /\ t2.root = T(x).root /\ t2.err = T(x).err /\ InMem(t2, q) /\ InMem(t2, t2.root)
      /\ Kids(e, t2) = [Kids(e, t) EXCEPT ![n] = q] /\ Vals(e, t2) = Vals(e, t)
      /\ \A y \in Leaf : Path(e, t2, y) = IF y = n THEN [Path(e, t, y) EXCEPT ![2] = new]
                                          ELSE Path(e, t, y)
      /\ Mem(e, t2, x.head) /\ RoomIn(e, t2) /\ TreeShape(AtIn(e, t2), t2.root)
      /\ Parts(e, t2, x.head, {})
  <2>1. t2 = KidT(T(x), q, n, KidOf(AtIn(e, T(x)), T(x).root)[n], AtIn(e, T(x))[T(x).root])
    BY <1>1a, <1>3 DEF Kids, q
  <2>2. InMem(T(x), T(x).root) /\ Good(e, T(x), x.head, x.mc, {q}) /\ InMem(T(x), q)
        /\ AtIn(e, T(x))[q].val = ValOf(AtIn(e, T(x)), T(x).root)[n]
    BY <1>1a, <1>3, <1>5 DEF Vals
  <2> HIDE DEF t2
  <2>3. Kidded(e, T(x), x.head, q, n, t2)
    BY <1>1, <1>4, <2>1, <2>2, KidIs
  <2> QED BY <1>3, <2>3 DEF Kidded, new, Kids, Vals
<1>7. new \in Ptrs /\ new = <<Top(s), x.np>>
  <2>1. e.n \in Int /\ q \in Nat
    BY <1>1, <1>4, PgIs DEF EnvOK
  <2> QED BY <1>1, <2>1 DEF new, Ptrs, q
<1>8. /\ Fits(b, e, a) /\ Along(u, a) /\ T(a) = t2 /\ a.head = x.head /\ a.rc = "OK"
      /\ Moved(s.mc, a.mc, c, 2, old, new)
  <2>1. a = Adjust(u, c, 2, old, new)
    BY <1>1, <1>7
  <2>2. Adjusted(b, e, u, c, 2, old, new, a)
    BY <1>0, <1>2, <1>7, <2>1, AdjustIs
  <2> QED BY <1>3, <2>1, <2>2 DEF Adjusted
<1>9. Along(s, a)
  <2>1. Along(s, u)
    BY <1>3, AlongTrans
  <2> QED BY <1>8, <2>1, AlongTrans
<1> DEFINE K == Kids(e, t)
<1>10. Curs(e, t2, a.mc) /\ Work(e, t2, a.mc[c]) /\ a.mc[c].leaf = n
  <2>1. Curs(e, t, s.mc)
    BY <1>2 DEF Good
  <2>2. ASSUME NEW y \in Leaf, K[y] # NoPg, y # n PROVE Path(e, t, y)[2] # old
    <3>1. K[y] # p /\ K[y] \in Pg
      BY <1>1, <1>1a, <2>2, TreeIs DEF TreeShape, K, Kids
    <3>2. Path(e, t, y)[2] = GetIn(e, t, K[y])
      <4>1. Paths(e, t, y)
        BY <1>1, PathIs
      <4> QED BY <2>2, <4>1 DEF K, Kids, Paths
    <3>3. GetIn(e, t, K[y])[2] = K[y]
      BY <1>1, <3>1, GetInIs
    <3> QED BY <1>1, <3>1, <3>2, <3>3
  <2>4. K \in [Leaf -> PgN]
    BY <1>1, TreeIs DEF K, Kids
  <2>5. \A y \in Leaf : K[y] # NoPg => Kids(e, t2)[y] # NoPg
    BY <1>4, <1>6, <2>4 DEF K
  <2>6. \A y \in Leaf : (K[y] # NoPg \/ y = n) =>
           Path(e, t2, y) = IF Path(e, t, y)[2] = old THEN [Path(e, t, y) EXCEPT ![2] = new]
                            ELSE Path(e, t, y)
    BY <1>1, <1>6, <2>2
  <2>7. Follows(e, t, t2, n, 2, old, new)
    BY <2>5, <2>6 DEF Follows, K
  <2>8. Path(e, t, n)[2] = old /\ Placed(e, t, s.mc, c, n)
    BY <1>1, <1>2, <2>1 DEF Placed
  <2>9. Moved(s.mc, a.mc, c, 2, old, new)
    BY <1>8
  <2>10. Placed(e, t2, a.mc, c, n)
    BY <2>7, <2>8, <2>9, CursMove
  <2> QED BY <2>10 DEF Placed
<1>11. Good(e, t2, a.head, a.mc, {})
  BY <1>6, <1>8, <1>10 DEF Good
<1>12. Fine(b, e, s, c, a)
  BY <1>3, <1>6, <1>8, <1>9, <1>10, <1>11 DEF Fine
<1>13. \A y \in Leaf : Kids(e, t2)[y] = NoPg <=> K[y] = NoPg
  <2>1. K \in [Leaf -> PgN]
    BY <1>1, TreeIs DEF K, Kids
  <2> QED BY <1>1a, <1>4, <1>6, <2>1 DEF K
<1>14. Kids(e, t2)[n] = q
  <2>1. K \in [Leaf -> PgN]
    BY <1>1, TreeIs DEF K, Kids
  <2> QED BY <1>1, <1>6, <2>1 DEF K
<1> QED BY <1>1, <1>3, <1>6, <1>8, <1>12, <1>13, <1>14 DEF Touched, K

-----------------------------------------------------------------------------
(***************************************************************************)
(* mdb_page_touch of a page that a parent has, and mdb_page_unspill.       *)
(***************************************************************************)

LEMMA WithTwice ==
  ASSUME NEW s \in StRec, Top(s) > 0, NEW t1 \in TxnRec, NEW t2 \in TxnRec
  PROVE  WithT(WithT(s, t1), t2) = WithT(s, t2)
<1> DEFINE N == Top(s)
           ts == [s.txns EXCEPT ![N] = t1]
<1>1. s.txns \in Seq(TxnRec) /\ N \in 1 .. Len(s.txns) /\ N = Len(s.txns)
  BY DEF StRec, Top
<1>2. WithT(s, t1) = [s EXCEPT !.txns = ts]
  BY DEF WithT
<1>3. [s EXCEPT !.txns = ts].txns = ts /\ Top([s EXCEPT !.txns = ts]) = N
  <2>1. Len(ts) = N
    BY <1>1
  <2>2. [s EXCEPT !.txns = ts].txns = ts
    BY DEF StRec
  <2> QED BY <2>1, <2>2 DEF Top
<1>4. WithT(WithT(s, t1), t2) = [[s EXCEPT !.txns = ts] EXCEPT !.txns = [ts EXCEPT ![N] = t2]]
  BY <1>2, <1>3 DEF WithT
<1>5. [ts EXCEPT ![N] = t2] = [s.txns EXCEPT ![N] = t2]
  BY <1>1
<1>6. WithT(WithT(s, t1), t2) = [[s EXCEPT !.txns = ts] EXCEPT !.txns = [s.txns EXCEPT ![N] = t2]]
  BY <1>4, <1>5
<1> HIDE DEF ts
<1>7. [[s EXCEPT !.txns = ts] EXCEPT !.txns = [s.txns EXCEPT ![N] = t2]]
    = [s EXCEPT !.txns = [s.txns EXCEPT ![N] = t2]]
  OBVIOUS
<1> QED BY <1>6, <1>7 DEF WithT

\* A page in the memory of the last transaction.
Here(e, s, p) == /\ p \in Pg /\ GetIn(e, T(s), p) = <<Top(s), p>> /\ Get(s, p) = <<Top(s), p>>
                 /\ AtIn(e, T(s))[p] = T(s).dirty[p] /\ PageAt(s, <<Top(s), p>>) = T(s).dirty[p]
                 /\ p \in DOMAIN T(s).dirty

LEMMA HereIs ==
  ASSUME NEW b, NEW e, NEW s, Fits(b, e, s), NEW p, InMem(T(s), p)
  PROVE  Here(e, s, p)
<1>1. e.n = Top(s) /\ T(s) \in TxnRec /\ Top(s) \in Nat \ {0}
  BY FitsIs
<1>2. p \in DOMAIN T(s).dirty /\ p \notin T(s).spill /\ p \in Pg
  BY <1>1, TxnIs DEF InMem
<1>3. GetIn(e, T(s), p) = <<Top(s), p>>
  BY <1>1, <1>2 DEF GetIn
<1>4. Get(s, p) = GetIn(e, T(s), p)
  BY <1>2, FitsIs
<1>5. AtIn(e, T(s))[p] = T(s).dirty[p]
  BY <1>2 DEF AtIn
<1>6. PageAt(s, <<Top(s), p>>) = T(s).dirty[p]
  BY <1>1 DEF PageAt, T
<1> QED BY <1>2, <1>3, <1>4, <1>5, <1>6 DEF Here

\* Pages join the free list.
Freed(b, e, x, w, F, root) ==
  /\ Fits(b, e, w) /\ Along(x, w) /\ Refreed(e, T(x), T(w), F, root) /\ w.head = x.head
  /\ w.mc = x.mc /\ w.rc = x.rc /\ w.np = x.np /\ Top(w) = Top(x) /\ w.file = x.file

LEMMA FreedIs ==
  ASSUME NEW b, NEW e, NEW x, Fits(b, e, x), NEW F \in SUBSET Pg, NEW root \in PgN,
         NEW t2, t2 = FreeT(T(x), F, root),
         NEW w, w = WithT(x, t2)
  PROVE  Freed(b, e, x, w, F, root) /\ T(w) = t2
<1>1. T(x) \in TxnRec
  BY FitsIs
<1>2. Refreed(e, T(x), t2, F, root)
  BY <1>1, FreeIs
<1>3. t2 \in TxnRec /\ t2.head = T(x).head /\ t2.bk = T(x).bk /\ Held(T(x)) \subseteq Held(t2)
  BY <1>2 DEF Refreed
<1>4. /\ Fits(b, e, w) /\ T(w) = t2 /\ w.head = x.head /\ w.mc = x.mc /\ w.rc = x.rc
      /\ w.np = x.np /\ w.file = x.file /\ Top(w) = Top(x) /\ Along(x, w)
  BY <1>3, FitsWithT
<1> QED BY <1>2, <1>4 DEF Freed

\* The pieces of PageTouch.
LEMMA TouchCopy ==
  ASSUME NEW b, NEW e, NEW s, NEW c, Ready(b, e, s, c), NEW i \in 1 .. 2, NEW p,
         Touchable(e, s, c, i, p), GetIn(e, T(s), p)[1] # 0
  PROVE  Touched(b, e, s, c, i, PageTouch(s, c, i))
<1> DEFINE t == T(s)
           ptr == s.mc[c].pg[i]
<1>1. /\ p \in Pg /\ ptr = GetIn(e, t, p) /\ ptr[2] = p
      /\ PageAt(s, ptr) = AtIn(e, t)[p] /\ t \in TxnRec /\ EnvOK(e) /\ e.n = Top(s)
      /\ Top(s) \in Nat \ {0}
  <2>1. TouchPage(e, s, c, i, p)
    BY TouchableIs
  <2> QED BY <2>1 DEF TouchPage
<1>2. Good(e, t, s.head, s.mc, {}) /\ Fits(b, e, s)
  BY DEF Ready
<1>3. DOMAIN t.dirty \cap t.spill = {}
  BY <1>2 DEF Good, Mem
<1>4. p \notin t.spill
  BY <1>1 DEF GetIn
<1>5. CASE p \in DOMAIN t.dirty
  <2>1. InMem(t, p)
    BY <1>4, <1>5 DEF InMem
  <2>2. ptr = <<Top(s), p>>
    BY <1>1, <1>4, <1>5 DEF GetIn
  <2>3. PageTouch(s, c, i) = s
    <3>1. ptr[1] # 0
      BY <1>1
    <3> QED BY <1>1, <1>5, <2>2, <3>1 DEF PageTouch, CopyFromParent
  <2>4. Touched(b, e, s, c, i, s)
    BY <2>1, TouchNothing
  <2> QED BY <2>3, <2>4
<1>6. CASE p \notin DOMAIN t.dirty
  <2>1. GetIn(e, t, p) = e.get[p]
    BY <1>4, <1>6 DEF GetIn
  <2>2. p \in e.list /\ p \in e.reg /\ e.n # 1
    <3>1. e.get[p] # <<0, p>>
      BY <2>1
    <3>2. PICK j \in 1 .. e.n - 1 : e.get[p] = <<j, p>>
      BY <1>1, <3>1 DEF EnvOK
    <3>3. e.n # 1
      BY <3>2
    <3> QED BY <1>1, <3>1, <3>3 DEF EnvOK
  <2> DEFINE u == WithT(s, TakenT(t, p, AtIn(e, t)[p], t.room))
             a == Adjust(u, c, i, ptr, <<Top(s), p>>)
  <2>3. [t EXCEPT !.dirty = With(@, p, AtIn(e, t)[p])] = TakenT(t, p, AtIn(e, t)[p], t.room)
    <3>1. t.spill \ {p} = t.spill
      BY <1>4
    <3> QED BY <1>1, <3>1 DEF TakenT, TxnRec
  <2>4. PageTouch(s, c, i) = a
    <3>1. Top(s) > 1 /\ ptr[1] # 0
      BY <1>1, <2>2
    <3>2. PageTouch(s, c, i) = CopyFromParent(s, c, i)
      BY <3>1 DEF PageTouch
    <3>3. CopyFromParent(s, c, i)
          = Adjust(WithT(s, [t EXCEPT !.dirty = With(@, p, AtIn(e, t)[p])]), c, i, ptr, <<Top(s), p>>)
      BY <1>1, <1>6 DEF CopyFromParent
    <3> QED BY <2>3, <3>2, <3>3
  <2>5. t.room = IF GetIn(e, t, p)[1] = 0 THEN t.room - 1 ELSE t.room
    OBVIOUS
  <2> HIDE DEF a
  <2>6. Touched(b, e, s, c, i, a)
    BY <1>6, <2>2, <2>5, TouchTaken DEF a
  <2> QED BY <2>4, <2>6
<1> QED BY <1>5, <1>6

LEMMA TouchUnspill ==
  ASSUME NEW b, NEW e, NEW s, NEW c, Ready(b, e, s, c), NEW i \in 1 .. 2, NEW p,
         Touchable(e, s, c, i, p), GetIn(e, T(s), p)[1] = 0,
         T(s).spills /\ SpilledBy(s, p) # {}
  PROVE  Touched(b, e, s, c, i, PageTouch(s, c, i))
<1> DEFINE t == T(s)
           ptr == s.mc[c].pg[i]
<1>1. /\ p \in Pg /\ ptr = GetIn(e, t, p) /\ ptr[2] = p
      /\ PageAt(s, ptr) = AtIn(e, t)[p] /\ t \in TxnRec /\ EnvOK(e) /\ e.n = Top(s)
      /\ Top(s) \in Nat \ {0}
  <2>1. TouchPage(e, s, c, i, p)
    BY TouchableIs
  <2> QED BY <2>1 DEF TouchPage
<1>2. Good(e, t, s.head, s.mc, {}) /\ Fits(b, e, s) /\ s.rc = "OK"
  BY DEF Ready
<1>3. DOMAIN t.dirty \cap t.spill = {}
  BY <1>2 DEF Good, Mem
<1>4. p \notin DOMAIN t.dirty
  <2>1. p \notin t.spill /\ p \in DOMAIN t.dirty => GetIn(e, t, p)[1] = e.n
    BY DEF GetIn
  <2> QED BY <1>1, <1>3, <2>1
<1>5. AtIn(e, t)[p] = s.file[p]
  <2>1. e.file = s.file
    BY <1>2, FitsIs
  <2>2. CASE p \in t.spill
    BY <1>1, <2>1, <2>2 DEF AtIn
  <2>3. CASE p \notin t.spill
    <3>1. GetIn(e, t, p) = e.get[p] /\ AtIn(e, t)[p] = e.at[p]
      BY <1>1, <1>4, <2>3 DEF GetIn, AtIn
    <3>2. e.get[p] = <<0, p>>
      <4>1. ASSUME NEW j \in 1 .. e.n - 1, e.get[p] = <<j, p>> PROVE FALSE
        BY <3>1, <4>1
      <4> QED BY <1>1, <4>1 DEF EnvOK
    <3> QED BY <1>1, <2>1, <3>1, <3>2 DEF EnvOK
  <2> QED BY <2>2, <2>3
<1>6. p \in e.reg \cup t.spill
  <2>1. PICK l \in 1 .. Top(s) : p \in s.txns[l].spill
    BY DEF SpilledBy
  <2>2. CASE l = Top(s)
    BY <2>1, <2>2 DEF T
  <2>3. CASE l # Top(s)
    <3>1. l \in 1 .. Top(s) - 1
      BY <1>1, <2>3
    <3>2. e.spill = SpillTo(s.txns, Top(s) - 1)
      BY <1>2 DEF Fits, EnvOf
    <3>3. p \in e.spill
      BY <2>1, <3>1, <3>2 DEF SpillTo
    <3> QED BY <1>1, <3>3 DEF EnvOK
  <2> QED BY <2>2, <2>3
<1>7. ptr[1] = 0
  BY <1>1
<1>8. PageTouch(s, c, i) = Then(PageUnspill(s, p), LAMBDA a : Adjust(a, c, i, ptr, <<Top(a), p>>))
  BY <1>1, <1>7 DEF PageTouch
<1>9. CASE t.room = 0
  <2>1. PageUnspill(s, p) = Fail(s, "TXN_FULL")
    BY <1>9 DEF PageUnspill
  <2>2. "TXN_FULL" \in Rcs /\ "TXN_FULL" # "OK"
    BY DEF Rcs
  <2>3. Failed(b, e, s, Fail(s, "TXN_FULL"))
    BY <1>2, <2>2, FailIs
  <2>4. Fail(s, "TXN_FULL").rc # "OK"
    BY <2>3 DEF Failed
  <2>5. PageTouch(s, c, i) = Fail(s, "TXN_FULL")
    BY <1>8, <2>1, <2>4 DEF Then
  <2>6. Bad(b, e, s, Fail(s, "TXN_FULL"))
    BY <1>2, <2>3, FailedBad
  <2> QED BY <2>5, <2>6 DEF Touched
<1>10. CASE t.room # 0
  <2> DEFINE t1 == [t EXCEPT !.spill = @ \ {p}]
             t2 == TakenT(t, p, AtIn(e, t)[p], t.room - 1)
             u == WithT(s, t2)
             a == Adjust(u, c, i, ptr, <<Top(s), p>>)
  <2>1. t1 \in TxnRec
    <3>1. t.spill \ {p} \in SUBSET Pg
      BY <1>1, TxnIs
    <3> QED BY <1>1, <3>1 DEF TxnRec
  <2>2. s \in StRec /\ Top(s) > 0
    BY <1>2, FitsIs
  <2>3. T(WithT(s, t1)) = t1
    BY <2>1, <2>2, WithTIs
  <2>4. [t1 EXCEPT !.dirty = With(@, p, s.file[p]), !.room = @ - 1] = t2
    BY <1>1, <1>5 DEF TakenT, TxnRec
  <2>5. t2 \in TxnRec
    <3>1. AtIn(e, t)[p] \in Page
      BY <1>1, AtInIs
    <3>2. With(t.dirty, p, AtIn(e, t)[p]) \in Dirties
      BY <1>1, <3>1, TxnIs, WithIs
    <3>3. t.spill \ {p} \in SUBSET Pg /\ t.room - 1 \in Int
      BY <1>1, TxnIs
    <3>4. \A d \in Dirties, S \in SUBSET Pg, r \in Int :
            [t EXCEPT !.dirty = d, !.spill = S, !.room = r] \in TxnRec
      BY <1>1 DEF TxnRec
    <3> QED BY <3>2, <3>3, <3>4 DEF TakenT
  <2>6. PageUnspill(s, p) = u
    <3>1. PageUnspill(s, p) = PageDirty(WithT(s, t1), p, s.file[p])
      BY <1>10 DEF PageUnspill
    <3>2. PageDirty(WithT(s, t1), p, s.file[p]) = WithT(WithT(s, t1), t2)
      BY <2>3, <2>4 DEF PageDirty
    <3> HIDE DEF t1, t2
    <3> QED BY <3>1, <3>2, <2>1, <2>2, <2>5, WithTwice
  <2>7. u.rc = "OK" /\ Top(u) = Top(s)
    <3> HIDE DEF t2
    <3> QED BY <1>2, <2>2, <2>5, WithTIs
  <2>8. PageTouch(s, c, i) = a
    <3> HIDE DEF u
    <3> QED BY <1>8, <2>6, <2>7 DEF Then
  <2>9. t.room - 1 = IF GetIn(e, t, p)[1] = 0 THEN t.room - 1 ELSE t.room
    OBVIOUS
  <2> HIDE DEF a
  <2>10. Touched(b, e, s, c, i, a)
    BY <1>4, <1>6, <2>9, TouchTaken DEF a
  <2> QED BY <2>8, <2>10
<1> QED BY <1>9, <1>10

-----------------------------------------------------------------------------
(***************************************************************************)
(* mdb_page_touch of a page of the snapshot, and mdb_cursor_touch.         *)
(***************************************************************************)

LEMMA TouchNew ==
  ASSUME NEW b, NEW e, NEW s, NEW c, Ready(b, e, s, c), NEW i \in 1 .. 2, NEW p,
         Touchable(e, s, c, i, p), GetIn(e, T(s), p)[1] = 0,
         ~ (T(s).spills /\ SpilledBy(s, p) # {})
  PROVE  Touched(b, e, s, c, i, PageTouch(s, c, i))
<1> DEFINE t == T(s)
           n == s.mc[c].leaf
           ptr == s.mc[c].pg[i]
           a == PageAlloc(s)
           page == AtIn(e, t)[p]
           x == SetPage(a, <<Top(a), a.np>>, page)
           q == x.np
           d == WithT(x, [T(x) EXCEPT !.free = @ \cup {p}])
           kid == [PageAt(d, d.mc[c].pg[1]) EXCEPT !.kid[d.mc[c].leaf] = a.np]
           u == IF i = 1 THEN WithT(d, [T(d) EXCEPT !.root = a.np])
                ELSE SetPage(d, d.mc[c].pg[1], kid)
<1>1. /\ p \in Pg /\ ptr = GetIn(e, t, p) /\ ptr[2] = p /\ n \in Leaf
      /\ PageAt(s, ptr) = page /\ t \in TxnRec /\ EnvOK(e) /\ e.n = Top(s)
      /\ Top(s) \in Nat \ {0} /\ page \in Page
      /\ TreeShape(AtIn(e, t), t.root) /\ AtIn(e, t) \in [Pg -> Page] /\ t.root # NoPg
  <2>1. TouchPage(e, s, c, i, p)
    BY TouchableIs
  <2> QED BY <2>1 DEF TouchPage
<1>2. Good(e, t, s.head, s.mc, {}) /\ Fits(b, e, s) /\ s.rc = "OK" /\ Work(e, t, s.mc[c])
  BY DEF Ready
<1>3. ptr[1] = 0
  BY <1>1
<1>4. CASE a.rc # "OK"
  <2>1. PageTouch(s, c, i) = a
    BY <1>1, <1>3, <1>4 DEF PageTouch, Then
  <2> HIDE DEF a
  <2>2. Failed(b, e, s, a)
    BY <1>2, <1>4, PageAllocIs DEF a
  <2>3. Bad(b, e, s, a)
    BY <1>2, <2>2, FailedBad
  <2> QED BY <2>1, <2>3 DEF Touched
<1>5. CASE a.rc = "OK"
  <2>1. PageTouch(s, c, i) = Adjust(u, c, i, ptr, <<Top(s), a.np>>)
    BY <1>1, <1>3, <1>5 DEF PageTouch, Then
  <2> HIDE DEF a, page, kid
  <2>2. Fresh(b, e, s, x, page) /\ q = a.np /\ Top(a) = Top(s)
    BY <1>1, <1>2, <1>5, FreshIs DEF a
  <2> HIDE DEF x, q
  <2>3. /\ Fits(b, e, x) /\ Along(s, x) /\ x.rc = "OK" /\ x.mc = s.mc /\ Top(x) = Top(s)
        /\ InMem(T(x), q) /\ T(x).root = t.root /\ \A z : InMem(t, z) => InMem(T(x), z)
        /\ Kids(e, T(x)) = Kids(e, t)
    BY <2>2 DEF Fresh, q
  <2>4. x \in StRec /\ Top(x) > 0 /\ T(x) \in TxnRec
    BY <2>3, FitsIs
  <2>5. q \in Pg /\ q \in PgN /\ T(x).root \in PgN /\ T(x).free \in SUBSET Pg
    BY <2>3, <2>4, TxnIs, PgIs DEF InMem
  <2> DEFINE F == T(x).free \cup {p}
             t1 == FreeT(T(x), F, T(x).root)
  <2>6. F \in SUBSET Pg
    BY <1>1, <2>5
  <2> HIDE DEF F
  <2>7. [T(x) EXCEPT !.free = @ \cup {p}] = t1 /\ d = WithT(x, t1)
    BY <2>4 DEF FreeT, TxnRec, F
  <2> HIDE DEF t1
  <2>8. Freed(b, e, x, d, F, T(x).root) /\ T(d) = t1
    BY <2>3, <2>5, <2>6, <2>7, FreedIs DEF t1
  <2>9. t1 \in TxnRec
    BY <2>8 DEF Freed, Refreed
  <2>10. CASE i = 1
    <3> DEFINE t2 == RootT(T(x), q)
               w == WithT(x, t2)
               G == T(x).free \cup ({T(x).root} \ {NoPg})
    <3>1. p = T(x).root
      BY <2>3, <2>10 DEF Touchable
    <3>2. G = F /\ G \in SUBSET Pg
      BY <2>6, <1>1, <3>1, PgIs DEF F
    <3>3. t2 = FreeT(T(x), G, q)
      BY DEF RootT, FreeT
    <3> HIDE DEF G, t2
    <3>4. Freed(b, e, x, w, G, q) /\ T(w) = t2
      BY <2>3, <2>5, <3>2, <3>3, FreedIs
    <3>5. t2 \in TxnRec
      BY <3>4 DEF Freed, Refreed
    <3>6. [T(d) EXCEPT !.root = a.np] = t2
      BY <2>2, <2>4, <2>8, <3>2, <3>3 DEF FreeT, t1, TxnRec
    <3>7. u = w
      <4>1. u = WithT(WithT(x, t1), t2)
        BY <2>7, <2>10, <3>6
      <4> QED BY <2>4, <2>9, <3>5, <4>1, WithTwice
    <3> HIDE DEF w, u
    <3>8. /\ Fits(b, e, w) /\ Along(x, w) /\ w.head = x.head /\ w.mc = x.mc /\ w.rc = x.rc
      BY <3>4 DEF Freed
    <3> DEFINE z == Adjust(w, c, 1, s.mc[c].pg[1], <<Top(s), x.np>>)
    <3>9. PageTouch(s, c, i) = z
      BY <2>1, <2>2, <2>10, <3>7 DEF q
    <3> HIDE DEF z
    <3>10. T(w) = RootT(T(x), x.np) /\ Touchable(e, s, c, 1, p)
      BY <2>10, <3>4 DEF t2, q
    <3>11. Touched(b, e, s, c, 1, z)
      BY <2>2, <3>8, <3>10, TouchRoot DEF z, page
    <3> QED BY <2>10, <3>9, <3>11
  <2>11. CASE i = 2
    <3> DEFINE r == T(x).root
               page2 == [AtIn(e, T(x))[r] EXCEPT !.kid[n] = q]
    <3>1. InMem(t, t.root) /\ r = t.root /\ r # NoPg
      BY <1>1, <2>3, <2>11 DEF Touchable
    <3>2. Here(e, s, r)
      BY <1>2, <3>1, HereIs
    <3>3. s.mc[c].pg[1] = <<Top(s), r>>
      <4>1. Paths(e, t, n)
        BY <1>1, PathIs
      <4>2. s.mc[c].pg = Path(e, t, n)
        BY <1>2 DEF Work
      <4> QED BY <3>1, <3>2, <4>1, <4>2 DEF Paths, Here
    <3>4. /\ Fits(b, e, d) /\ Along(x, d) /\ d.head = x.head /\ d.mc = x.mc /\ d.rc = x.rc
          /\ Top(d) = Top(x) /\ AtIn(e, T(d)) = AtIn(e, T(x)) /\ \A z : InMem(T(x), z) => InMem(T(d), z)
          /\ d.np = x.np
      BY <2>8 DEF Freed, Refreed
    <3> HIDE DEF d
    <3>5. Here(e, d, r)
      <4>1. InMem(T(d), r)
        BY <2>3, <3>1, <3>4
      <4> QED BY <3>4, <4>1, HereIs
    <3>6. PageAt(d, <<Top(s), r>>) = AtIn(e, T(x))[r] /\ r \in DOMAIN T(d).dirty /\ r \in Pg
      BY <2>3, <3>4, <3>5 DEF Here
    <3>7. d.mc[c].pg[1] = <<Top(d), r>> /\ d.mc[c].leaf = n
      BY <2>3, <3>3, <3>4
    <3>8. kid = page2
      BY <2>2, <2>3, <3>4, <3>6, <3>7 DEF kid
    <3>9. page2 \in Page
      <4>1. AtIn(e, T(x))[r] \in Page
        BY <1>1, <2>4, <3>6, AtInIs
      <4> QED BY <1>1, <2>5, <4>1 DEF Page
    <3>10. u = SetPage(d, <<Top(d), r>>, page2)
      BY <2>11, <3>7, <3>8
    <3> HIDE DEF page2, u
    <3>11. /\ Fits(b, e, u) /\ Along(d, u) /\ T(u) = SetT(T(d), r, page2) /\ u.head = d.head
           /\ u.mc = d.mc /\ u.rc = d.rc
      BY <3>4, <3>6, <3>9, <3>10, PutPage
    <3>12. T(u) = KidT(T(x), q, n, p, AtIn(e, T(x))[r])
      <4>1. {p} \ {NoPg} = {p}
        BY <1>1, PgIs
      <4>2. T(d) = [T(x) EXCEPT !.free = @ \cup ({p} \ {NoPg})]
        BY <2>7, <2>8, <4>1
      <4> QED BY <3>11, <4>2 DEF KidT, page2
    <3>13. Along(x, u)
      BY <3>4, <3>11, AlongTrans
    <3> DEFINE z == Adjust(u, c, 2, s.mc[c].pg[2], <<Top(s), x.np>>)
    <3>14. PageTouch(s, c, i) = z
      BY <2>1, <2>2, <2>11 DEF q
    <3> HIDE DEF z
    <3>15. u.head = x.head /\ u.mc = x.mc /\ u.rc = x.rc /\ Touchable(e, s, c, 2, p)
      BY <2>11, <3>4, <3>11
    <3>16. Touched(b, e, s, c, 2, z)
      BY <2>2, <3>11, <3>12, <3>13, <3>15, TouchKid DEF z, page, q
    <3> QED BY <2>11, <3>14, <3>16
  <2> QED BY <2>10, <2>11
<1> QED BY <1>4, <1>5

\* mdb_page_touch fails, or makes the page at level i of the stack the transaction's own.
LEMMA PageTouchIs ==
  ASSUME NEW b, NEW e, NEW s, NEW c, Ready(b, e, s, c), NEW i \in 1 .. 2, NEW p,
         Touchable(e, s, c, i, p)
  PROVE  Touched(b, e, s, c, i, PageTouch(s, c, i))
BY TouchCopy, TouchUnspill, TouchNew

\* The path of cursor c is in memory.
Ours(b, e, s, c, a) ==
  \/ Bad(b, e, s, a)
  \/ /\ Fine(b, e, s, c, a) /\ Vals(e, T(a)) = Vals(e, T(s))
     /\ T(a).root # NoPg /\ InMem(T(a), T(a).root)
     /\ Kids(e, T(a))[s.mc[c].leaf] # NoPg => InMem(T(a), Kids(e, T(a))[s.mc[c].leaf])
     /\ \A n \in Leaf : Kids(e, T(a))[n] = NoPg <=> Kids(e, T(s))[n] = NoPg

\* mdb_cursor_touch, from the root down.
LEMMA CursorTouchIs ==
  ASSUME NEW b, NEW e, NEW s, NEW c, Ready(b, e, s, c), T(s).root # NoPg
  PROVE  Ours(b, e, s, c, CursorTouch(s, c))
<1> DEFINE n == s.mc[c].leaf
           a == PageTouch(s, c, 1)
           d == PageTouch(a, c, 2)
<1>0. 1 \in 1 .. 2 /\ 2 \in 1 .. 2
  OBVIOUS
<1>1. Touchable(e, s, c, 1, T(s).root)
  BY DEF Touchable
<1>2. Touched(b, e, s, c, 1, a)
  BY <1>0, <1>1, PageTouchIs
<1>3. n \in Leaf
  BY DEF Ready, Work
<1>4. CursorTouch(s, c) = IF a.rc = "OK" THEN IF a.mc[c].pg[2] = NoPtr THEN a ELSE d ELSE a
  BY DEF CursorTouch, Then
<1> HIDE DEF a
<1>5. CASE Bad(b, e, s, a)
  <2>1. a.rc # "OK"
    BY <1>5 DEF Bad
  <2> QED BY <1>4, <1>5, <2>1 DEF Ours
<1>6. CASE ~ Bad(b, e, s, a)
  <2>1. /\ Fine(b, e, s, c, a) /\ Vals(e, T(a)) = Vals(e, T(s))
        /\ T(a).root # NoPg /\ InMem(T(a), T(a).root)
        /\ \A z \in Leaf : Kids(e, T(a))[z] = NoPg <=> Kids(e, T(s))[z] = NoPg
    BY <1>2, <1>6 DEF Touched
  <2>2. /\ Fits(b, e, a) /\ Along(s, a) /\ a.rc = "OK" /\ T(a).err = T(s).err
        /\ Good(e, T(a), a.head, a.mc, {}) /\ Work(e, T(a), a.mc[c]) /\ a.mc[c].leaf = n
    BY <2>1 DEF Fine
  <2>3. T(a) \in TxnRec /\ EnvOK(e) /\ TreeShape(AtIn(e, T(a)), T(a).root)
    BY <2>2, FitsIs DEF Good
  <2> DEFINE k == Kids(e, T(a))[n]
  <2>4. k \in PgN /\ (a.mc[c].pg[2] = NoPtr <=> k = NoPg)
    <3>1. Paths(e, T(a), n)
      BY <1>3, <2>3, PathIs
    <3>2. k \in PgN
      BY <1>3, <2>3 DEF TreeShape, Kids
    <3>3. a.mc[c].pg[2] = PtrTo(e, T(a), k)
      BY <2>2, <3>1 DEF Work, Paths, Kids
    <3> QED BY <3>1, <3>2, <3>3 DEF Paths
  <2>5. CASE k = NoPg
    <3>1. CursorTouch(s, c) = a
      BY <1>4, <2>4, <2>5
    <3> QED BY <2>1, <2>5, <3>1 DEF Ours
  <2>6. CASE k # NoPg
    <3>1. CursorTouch(s, c) = d
      BY <1>4, <2>2, <2>4, <2>6
    <3>2. Ready(b, e, a, c)
      BY <2>2 DEF Ready
    <3>3. Touchable(e, a, c, 2, k)
      BY <2>1, <2>2, <2>6 DEF Touchable
    <3>4. Touched(b, e, a, c, 2, d)
      BY <1>0, <3>2, <3>3, PageTouchIs
    <3> HIDE DEF d
    <3>5. CASE Bad(b, e, a, d)
      <4>1. Bad(b, e, s, d)
        BY <2>2, <3>5, AlongTrans DEF Bad
      <4> QED BY <3>1, <4>1 DEF Ours
    <3>6. CASE ~ Bad(b, e, a, d)
      <4>1. /\ Fine(b, e, a, c, d) /\ Vals(e, T(d)) = Vals(e, T(a))
            /\ T(d).root # NoPg /\ InMem(T(d), T(d).root) /\ InMem(T(d), Kids(e, T(d))[n])
            /\ \A z \in Leaf : Kids(e, T(d))[z] = NoPg <=> Kids(e, T(a))[z] = NoPg
        BY <2>2, <3>4, <3>6 DEF Touched
      <4>2. Fine(b, e, s, c, d)
        BY <2>2, <4>1, AlongTrans DEF Fine
      <4> QED BY <2>1, <3>1, <4>1, <4>2 DEF Ours
    <3> QED BY <3>5, <3>6
  <2> QED BY <2>5, <2>6
<1> QED BY <1>5, <1>6

-----------------------------------------------------------------------------
(***************************************************************************)
(* Pages are written to the file before the commit, where no transaction   *)
(* of the stack reads them.                                                *)
(***************************************************************************)

\* Environments of the same transactions over two files.
SameEnv(e, e2) ==
  /\ e2.n = e.n /\ e2.get = e.get /\ e2.list = e.list /\ e2.spill = e.spill /\ e2.freed = e.freed
  /\ e2.recent = e.recent /\ e2.loose = e.loose /\ e2.cap = e.cap /\ e2.min = e.min /\ e2.reg = e.reg
  /\ \A p \in Pg : e2.at[p] = IF e.get[p] = <<0, p>> THEN e2.file[p] ELSE e.at[p]

\* A page of the file changes that is in no transaction's tree.
LEMMA EnvFile ==
  ASSUME NEW b, NEW file, NEW file2, NEW ts, NEW l \in Nat, l > 0,
         NEW e, e = EnvOf(b, file, ts, l), NEW e2, e2 = EnvOf(b, file2, ts, l)
  PROVE  SameEnv(e, e2) /\ e2.file = file2
<1>1. /\ e2.n = e.n /\ e2.get = e.get /\ e2.list = e.list /\ e2.spill = e.spill /\ e2.freed = e.freed
      /\ e2.recent = e.recent /\ e2.loose = e.loose /\ e2.cap = e.cap /\ e2.min = e.min
      /\ e2.reg = e.reg /\ e2.file = file2
  BY DEF EnvOf
<1>2. ASSUME NEW p \in Pg
      PROVE  e2.at[p] = IF e.get[p] = <<0, p>> THEN file2[p] ELSE e.at[p]
  <2>1. /\ e.get[p] = PageGet(ts, l - 1, p)
        /\ e2.at[p] = PageAt([file |-> file2, txns |-> ts], PageGet(ts, l - 1, p))
        /\ e.at[p] = PageAt([file |-> file, txns |-> ts], PageGet(ts, l - 1, p))
    BY DEF EnvOf, AtOf
  <2>2. l - 1 \in Nat
    OBVIOUS
  <2>3. CASE PageGet(ts, l - 1, p) = <<0, p>>
    BY <2>1, <2>3 DEF PageAt
  <2>4. ASSUME NEW i \in 1 .. l - 1, PageGet(ts, l - 1, p) = <<i, p>>
        PROVE  e2.at[p] = e.at[p] /\ e.get[p] # <<0, p>>
    <3>1. i # 0
      OBVIOUS
    <3> QED BY <2>1, <2>4, <3>1 DEF PageAt
  <2> QED BY <2>1, <2>2, <2>3, <2>4, GetIs
<1> QED BY <1>1, <1>2 DEF SameEnv

LEMMA EnvFileOK ==
  ASSUME NEW e, EnvOK(e), NEW e2, SameEnv(e, e2), e2.file \in [Pg -> Page], e2.at = [p \in Pg |-> e2.at[p]]
  PROVE  EnvOK(e2)
<1>1. e2.at \in [Pg -> Page]
  <2>1. \A p \in Pg : e2.at[p] \in Page
    BY DEF SameEnv, EnvOK
  <2> QED BY <2>1
<1>2. \A p \in Pg : e2.get[p] = <<0, p>> => e2.at[p] = e2.file[p]
  BY DEF SameEnv
<1> QED BY <1>1, <1>2 DEF SameEnv, EnvOK

\* The pages of out leave the memory of transaction t.
SpillT(t, out) == [t EXCEPT !.dirty = Restrict(@, DOMAIN @ \ out), !.spill = @ \cup out,
                            !.room = @ + Cardinality(out), !.spills = TRUE]
FileT(file, t, out) == [p \in DOMAIN file |-> IF p \in out THEN t.dirty[p] ELSE file[p]]

SpillTo2(e, t, t2, out) ==
  /\ t2 \in TxnRec /\ t2.root = t.root /\ t2.next = t.next /\ t2.spill = t.spill \cup out
  /\ DOMAIN t2.dirty = DOMAIN t.dirty \ out /\ \A p \in DOMAIN t2.dirty : t2.dirty[p] = t.dirty[p]
  /\ t2.free = t.free /\ t2.room = t.room + Cardinality(out) /\ t2.head = t.head /\ t2.bk = t.bk
  /\ t2.err = t.err /\ t2.loose = t.loose /\ Held(t2) = Held(t)

LEMMA SpillTIs ==
  ASSUME NEW e, NEW t \in TxnRec, NEW out \in SUBSET (DOMAIN t.dirty), NEW t2, t2 = SpillT(t, out)
  PROVE  SpillTo2(e, t, t2, out) /\ IsFiniteSet(out)
<1>1. DOMAIN t.dirty \in SUBSET Pg /\ t.dirty \in Dirties /\ t.spill \in SUBSET Pg /\ t.room \in Int
  BY TxnIs
<1>2. IsFiniteSet(out) /\ Cardinality(out) \in Nat
  <2>1. IsFiniteSet(Pg)
    BY PgIs, FS_Interval DEF Pg
  <2>2. out \in SUBSET Pg
    BY <1>1
  <2>3. IsFiniteSet(out)
    BY <2>1, <2>2, FS_Subset
  <2> QED BY <2>3, FS_CardinalityType
<1> DEFINE d == Restrict(t.dirty, DOMAIN t.dirty \ out)
           D == DOMAIN t.dirty \ out
           S == t.spill \cup out
           r == t.room + Cardinality(out)
<1>3. d \in Dirties /\ DOMAIN d = D /\ \A p \in D : d[p] = t.dirty[p]
  <2>1. DOMAIN d = D /\ \A p \in D : d[p] = t.dirty[p]
    BY DEF Restrict
  <2>2. d = [p \in D |-> t.dirty[p]]
    BY DEF Restrict
  <2>3. \A p \in D : t.dirty[p] \in Page
    BY TxnIs
  <2> HIDE DEF d
  <2>4. d \in [D -> Page] /\ D \in SUBSET Pg
    BY <1>1, <2>2, <2>3
  <2> QED BY <2>1, <2>4, DirtiesBy
<1>4. S \in SUBSET Pg /\ r \in Int
  BY <1>1, <1>2
<1>5. t2 = [t EXCEPT !.dirty = d, !.spill = S, !.room = r, !.spills = TRUE]
  BY DEF SpillT
<1> HIDE DEF d, D, S, r
<1>6. /\ t2 \in TxnRec
      /\ t2.root = t.root /\ t2.next = t.next /\ t2.dirty = d /\ t2.spill = S
      /\ t2.free = t.free /\ t2.room = r /\ t2.head = t.head /\ t2.bk = t.bk
      /\ t2.err = t.err /\ t2.loose = t.loose
  BY <1>3, <1>4, <1>5 DEF TxnRec
<1>7. Held(t2) = Held(t)
  BY <1>3, <1>6 DEF Held, S, D
<1> QED BY <1>2, <1>3, <1>6, <1>7 DEF SpillTo2, S, D, r

\* What is in the pages stays the same; where they are does not.
LEMMA SpilledGood ==
  ASSUME NEW e, EnvOK(e), NEW t \in TxnRec, NEW head, NEW m, Good(e, t, head, m, {}),
         NEW out \in SUBSET (DOMAIN t.dirty), out \cap Range(t.loose) = {}, out \cap e.spill = {},
         NEW t2, t2 = SpillT(t, out),
         NEW e2, EnvOK(e2), SameEnv(e, e2), e2.file = FileT(e.file, t, out)
  PROVE  /\ AtIn(e2, t2) = AtIn(e, t)
         /\ \A p \in Pg : p \notin out => GetIn(e2, t2, p) = GetIn(e, t, p)
         /\ Mem(e2, t2, head) /\ RoomIn(e2, t2) /\ TreeShape(AtIn(e2, t2), t2.root)
         /\ Parts(e2, t2, head, {})
<1>1. SpillTo2(e, t, t2, out) /\ IsFiniteSet(out)
  BY SpillTIs
<1>2. /\ t2 \in TxnRec /\ t2.root = t.root /\ t2.next = t.next /\ t2.spill = t.spill \cup out
      /\ DOMAIN t2.dirty = DOMAIN t.dirty \ out /\ \A p \in DOMAIN t2.dirty : t2.dirty[p] = t.dirty[p]
      /\ t2.free = t.free /\ t2.room = t.room + Cardinality(out) /\ t2.loose = t.loose
      /\ Held(t2) = Held(t)
  BY <1>1 DEF SpillTo2
<1>3. DOMAIN t.dirty \cap t.spill = {} /\ Range(t.loose) \subseteq DOMAIN t.dirty
  BY DEF Good, Mem
<1>4. /\ e2.n = e.n /\ e2.get = e.get /\ e2.list = e.list /\ e2.freed = e.freed
      /\ e2.recent = e.recent /\ e2.loose = e.loose /\ e2.cap = e.cap /\ e2.min = e.min
      /\ e2.reg = e.reg
      /\ \A p \in Pg : e2.at[p] = IF e.get[p] = <<0, p>> THEN e2.file[p] ELSE e.at[p]
  BY DEF SameEnv
<1>5. \A p \in Pg : /\ p \in out => e2.file[p] = t.dirty[p]
                    /\ p \notin out => e2.file[p] = e.file[p]
  <2>1. DOMAIN e.file = Pg
    BY DEF EnvOK
  <2> QED BY <2>1 DEF FileT
<1>6. ASSUME NEW p \in Pg PROVE AtIn(e2, t2)[p] = AtIn(e, t)[p]
  <2>0. e.get[p] = <<0, p>> => e.at[p] = e.file[p]
    BY DEF EnvOK
  <2>1. CASE p \in out
    BY <1>2, <1>3, <1>5, <2>1 DEF AtIn
  <2>2. CASE p \notin out
    <3>1. CASE p \in t.spill
      BY <1>2, <1>5, <2>2, <3>1 DEF AtIn
    <3>2. CASE p \notin t.spill /\ p \in DOMAIN t.dirty
      BY <1>2, <2>2, <3>2 DEF AtIn
    <3>3. CASE p \notin t.spill /\ p \notin DOMAIN t.dirty
      <4>1. AtIn(e2, t2)[p] = e2.at[p] /\ AtIn(e, t)[p] = e.at[p]
        BY <1>2, <2>2, <3>3 DEF AtIn
      <4> QED BY <1>4, <1>5, <2>0, <2>2, <4>1
    <3> QED BY <3>1, <3>2, <3>3
  <2> QED BY <2>1, <2>2
<1>7. AtIn(e2, t2) = AtIn(e, t)
  <2>1. AtIn(e2, t2) \in [Pg -> Page] /\ AtIn(e, t) \in [Pg -> Page]
    BY <1>2, AtInIs
  <2> QED BY <1>6, <2>1
<1>8. \A p \in Pg : p \notin out => GetIn(e2, t2, p) = GetIn(e, t, p)
  BY <1>2, <1>4 DEF GetIn
<1>9. RoomIn(e2, t2)
  <2>1. ListIn(e2, t2) = ListIn(e, t) \ out /\ ListIn(e, t) \cap out = out
    BY <1>2, <1>3, <1>4 DEF ListIn
  <2>2. IsFiniteSet(ListIn(e, t))
    BY ListFinite
  <2>3. Cardinality(ListIn(e2, t2)) = Cardinality(ListIn(e, t)) - Cardinality(out)
    BY <2>1, <2>2, FS_Difference
  <2>4. Cardinality(ListIn(e, t)) \in Nat /\ Cardinality(out) \in Nat
    BY <1>1, <2>2, FS_CardinalityType
  <2>5. t.room = DirtyMax - Cardinality(ListIn(e, t))
    BY DEF Good, RoomIn
  <2> QED BY <1>2, <2>3, <2>4, <2>5, NestedAssumption DEF RoomIn
<1>10. Mem(e2, t2, head)
  <2>1. DOMAIN t2.dirty \cap t2.spill = {} /\ Range(t2.loose) \subseteq DOMAIN t2.dirty
    BY <1>2, <1>3
  <2> QED BY <1>2, <1>4, <2>1 DEF Good, Mem
<1>11. TreeShape(AtIn(e2, t2), t2.root) /\ Parts(e2, t2, head, {})
  BY <1>2, <1>4, <1>7 DEF Good, Parts
<1> QED BY <1>7, <1>8, <1>9, <1>10, <1>11

-----------------------------------------------------------------------------
(***************************************************************************)
(* mdb_page_spill, which keeps the pages of the cursors' stacks            *)
(* (P_KEEP).                                                               *)
(***************************************************************************)

\* The file changes in pages that the last transaction has, and no other spilled.
FileKept(s, a) ==
  \A p \in Pg : a.file[p] # s.file[p] => p \in Held(T(s)) /\ p \notin SpillTo(s.txns, Top(s) - 1)

Spilled(b, e, e2, s, c, a) ==
  /\ Fits(b, e2, a) /\ Along(s, a) /\ FileKept(s, a) /\ a.rc = "OK" /\ a.mc = s.mc
  /\ T(a).err = T(s).err /\ Good(e2, T(a), a.head, a.mc, {}) /\ Work(e2, T(a), a.mc[c])
  /\ T(a).root = T(s).root /\ Kids(e2, T(a)) = Kids(e, T(s)) /\ Vals(e2, T(a)) = Vals(e, T(s))

OutOf(s, c) == LET all == Spillable(s, c)
               IN  {p \in all : Cardinality({q \in all : q > p}) < Need}

LEMMA OutIs ==
  ASSUME NEW b, NEW e, NEW s, Fits(b, e, s), NEW c, NEW out, out = OutOf(s, c)
  PROVE  /\ out \in SUBSET (DOMAIN T(s).dirty) /\ out \cap Range(T(s).loose) = {}
         /\ out \cap e.spill = {} /\ out \cap Kept(s, c) = {}
<1>1. out \subseteq Spillable(s, c)
  BY DEF OutOf
<1>2. e.spill = UNION {s.txns[l].spill : l \in 1 .. Top(s) - 1}
  BY DEF Fits, EnvOf, SpillTo
<1> QED BY <1>1, <1>2 DEF Spillable

\* The pages that the cursors point at stay.
LEMMA KeptPath ==
  ASSUME NEW b, NEW e, NEW s, Fits(b, e, s), NEW c, NEW out, out \cap Kept(s, c) = {},
         TreeShape(AtIn(e, T(s)), T(s).root),
         NEW d \in Tracked(s) \cup {c}, Work(e, T(s), s.mc[d]),
         NEW e2, NEW t2, t2.root = T(s).root, AtIn(e2, t2) = AtIn(e, T(s)),
         \A p \in Pg : p \notin out => GetIn(e2, t2, p) = GetIn(e, T(s), p)
  PROVE  Work(e2, t2, s.mc[d])
<1> DEFINE t == T(s)
           n == s.mc[d].leaf
           k == Kids(e, t)[n]
<1>1. n \in Leaf /\ s.mc[d].pg = Path(e, t, n)
  BY DEF Work
<1>2. EnvOK(e) /\ t \in TxnRec /\ AtIn(e, t) \in [Pg -> Page]
  BY FitsIs, AtInIs
<1>3. t.root \in PgN /\ k \in PgN
  BY <1>1 DEF TreeShape, Kids
<1>4. Paths(e, t, n)
  BY <1>1, <1>2, PathIs
<1>5. PtrTo(e2, t2, t.root) = PtrTo(e, t, t.root)
  <2>1. t.root \notin out
    BY DEF Kept
  <2> QED BY <1>3, <2>1, PgIs DEF PtrTo
<1>6. PtrTo(e2, t2, k) = PtrTo(e, t, k)
  <2>1. CASE k = NoPg
    BY <2>1 DEF PtrTo
  <2>2. CASE k # NoPg
    <3>1. k \in Pg
      BY <1>3, <2>2, PgIs
    <3>2. s.mc[d].pg[2] = GetIn(e, t, k)
      BY <1>1, <1>4, <2>2 DEF Paths, Kids
    <3>3. s.mc[d].pg[2][2] = k
      BY <1>2, <3>1, <3>2, GetInIs
    <3>4. s.mc[d].pg[2][2] \in Kept(s, c)
      BY DEF Kept
    <3>5. k \notin out
      BY <3>3, <3>4
    <3> QED BY <2>2, <3>1, <3>5 DEF PtrTo
  <2> QED BY <2>1, <2>2
<1>7. Path(e2, t2, n) = Path(e, t, n)
  BY <1>5, <1>6 DEF Path, Kids
<1> QED BY <1>1, <1>7 DEF Work

\* mdb_page_spill changes what is in memory and nothing that is read.
LEMMA PageSpillIs ==
  ASSUME NEW b, NEW e, NEW s, NEW c, Ready(b, e, s, c)
  PROVE  \E e2 : Spilled(b, e, e2, s, c, PageSpill(s, c))
<1> DEFINE t == T(s)
           out == OutOf(s, c)
           t2 == SpillT(t, out)
           w == WithT(s, t2)
           f == FileT(s.file, t, out)
           a == [w EXCEPT !.file = f]
           N == Top(s)
<1>1. /\ Fits(b, e, s) /\ s.rc = "OK" /\ Good(e, t, s.head, s.mc, {}) /\ c \in Cursors \cup {Local}
      /\ Work(e, t, s.mc[c])
  BY DEF Ready
<1>2. /\ t \in TxnRec /\ EnvOK(e) /\ s \in StRec /\ N \in Nat \ {0} /\ e.file = s.file
      /\ e = EnvOf(b, s.file, s.txns, N) /\ s.file \in [Pg -> Page] /\ N > 0
  <2>1. /\ t \in TxnRec /\ EnvOK(e) /\ s \in StRec /\ N \in Nat \ {0} /\ e.file = s.file /\ N > 0
    BY <1>1, FitsIs
  <2>2. e = EnvOf(b, s.file, s.txns, N)
    BY <1>1 DEF Fits
  <2> QED BY <2>1, <2>2, StIs
<1>3. CASE t.room > Need
  <2>1. PageSpill(s, c) = s
    BY <1>3 DEF PageSpill
  <2>2. Spilled(b, e, e, s, c, s)
    BY <1>1 DEF Spilled, Along, FileKept
  <2> QED BY <2>1, <2>2
<1>4. CASE ~ (t.room > Need)
  <2>1. PageSpill(s, c) = [w EXCEPT !.file = FileT(w.file, t, out)]
    BY <1>4 DEF PageSpill, OutOf, SpillT, FileT
  <2> HIDE DEF out
  <2>2. /\ out \in SUBSET (DOMAIN t.dirty) /\ out \cap Range(t.loose) = {}
        /\ out \cap e.spill = {} /\ out \cap Kept(s, c) = {}
    BY <1>1, OutIs DEF out
  <2> HIDE DEF t2
  <2>3. SpillTo2(e, t, t2, out)
    BY <1>2, <2>2, SpillTIs DEF t2
  <2>4. /\ t2 \in TxnRec /\ t2.root = t.root /\ t2.head = t.head /\ t2.bk = t.bk /\ t2.err = t.err
        /\ Held(t2) = Held(t)
    BY <2>3 DEF SpillTo2
  <2>5. /\ T(w) = t2 /\ w.head = s.head /\ w.mc = s.mc /\ w.rc = s.rc
        /\ Along(s, w) /\ Top(w) = N /\ w.file = s.file /\ Fits(b, e, w)
    BY <1>1, <2>4, FitsWithT
  <2>6. w \in StRec /\ e = EnvOf(b, s.file, w.txns, N)
    BY <2>5 DEF Fits
  <2> HIDE DEF w, f
  <2>7. f \in [Pg -> Page]
    <3>1. \A p \in Pg : p \in out => t.dirty[p] \in Page
      BY <1>2, <2>2, TxnIs
    <3> QED BY <1>2, <3>1 DEF f, FileT
  <2>8. /\ a \in StRec /\ a.txns = w.txns /\ a.file = f /\ a.rc = w.rc /\ a.head = w.head
        /\ a.mc = w.mc
    BY <2>6, <2>7 DEF StRec
  <2>8a. PageSpill(s, c) = a
    BY <2>1, <2>5 DEF f
  <2> HIDE DEF a
  <2>9. Top(a) = N /\ T(a) = t2 /\ Along(w, a)
    BY <2>5, <2>8 DEF Top, T, Along
  <2> DEFINE e2 == EnvOf(b, f, a.txns, N)
  <2>10. SameEnv(e, e2) /\ e2.file = f
    BY <1>2, <2>6, <2>8, EnvFile
  <2>11. EnvOK(e2)
    <3>1. e2.at = [p \in Pg |-> e2.at[p]]
      BY DEF EnvOf, AtOf
    <3> HIDE DEF e2
    <3> QED BY <1>2, <2>7, <2>10, <3>1, EnvFileOK
  <2>12. Fits(b, e2, a)
    BY <1>2, <2>8, <2>9, <2>11 DEF Fits
  <2> HIDE DEF e2
  <2>13. /\ AtIn(e2, t2) = AtIn(e, t)
         /\ \A p \in Pg : p \notin out => GetIn(e2, t2, p) = GetIn(e, t, p)
         /\ Mem(e2, t2, s.head) /\ RoomIn(e2, t2) /\ TreeShape(AtIn(e2, t2), t2.root)
         /\ Parts(e2, t2, s.head, {})
    BY <1>1, <1>2, <2>2, <2>10, <2>11, SpilledGood DEF t2, f
  <2>14. Kids(e2, t2) = Kids(e, t) /\ Vals(e2, t2) = Vals(e, t)
    BY <2>4, <2>13 DEF Kids, Vals
  <2>15. TreeShape(AtIn(e, t), t.root) /\ Curs(e, t, s.mc)
    BY <1>1 DEF Good
  <2>16. \A d \in Tracked(s) \cup {c} : Work(e, t, s.mc[d]) => Work(e2, t2, s.mc[d])
    BY <1>1, <2>2, <2>4, <2>13, <2>15, KeptPath
  <2>17. Curs(e2, t2, s.mc)
    <3> SUFFICES ASSUME NEW d \in Cursors, s.mc[d].init
                 PROVE  /\ s.mc[d].leaf \in Leaf
                        /\ Kids(e2, t2)[s.mc[d].leaf] # NoPg
                        /\ s.mc[d].pg = Path(e2, t2, s.mc[d].leaf)
      BY DEF Curs, Kids
    <3>1. /\ s.mc[d].leaf \in Leaf
          /\ Kids(e, t)[s.mc[d].leaf] # NoPg
          /\ s.mc[d].pg = Path(e, t, s.mc[d].leaf)
      BY <2>15 DEF Curs, Kids
    <3>2. Work(e, t, s.mc[d]) /\ d \in Tracked(s)
      BY <3>1 DEF Work, Tracked
    <3>3. Work(e2, t2, s.mc[d])
      BY <2>16, <3>2
    <3> QED BY <2>14, <3>1, <3>3 DEF Work
  <2>18. Good(e2, t2, s.head, s.mc, {})
    BY <2>13, <2>17 DEF Good
  <2>19. FileKept(s, a)
    <3> SUFFICES ASSUME NEW p \in Pg, f[p] # s.file[p]
                 PROVE  p \in Held(t) /\ p \notin SpillTo(s.txns, N - 1)
      BY <2>8 DEF FileKept
    <3>1. p \in out
      BY <1>2 DEF f, FileT
    <3>2. e.spill = SpillTo(s.txns, N - 1)
      BY <1>2 DEF EnvOf
    <3> QED BY <2>2, <3>1, <3>2 DEF Held
  <2>20. Along(s, a)
    BY <2>5, <2>9, AlongTrans
  <2>21. Spilled(b, e, e2, s, c, a)
    <3>1. Work(e2, t2, s.mc[c])
      BY <1>1, <2>16
    <3> QED BY <1>1, <2>4, <2>5, <2>8, <2>9, <2>12, <2>14, <2>18, <2>19, <2>20, <3>1 DEF Spilled
  <2> QED BY <2>8a, <2>21
<1> QED BY <1>3, <1>4

-----------------------------------------------------------------------------
(***************************************************************************)
(* mdb_cursor_set and mdb_page_new.                                        *)
(***************************************************************************)

Positioned(b, e, s, c, n, a) ==
  /\ Ready(b, e, a, c) /\ Along(s, a) /\ T(a) = T(s) /\ a.file = s.file /\ a.head = s.head
  /\ a.txns = s.txns /\ Top(a) = Top(s) /\ a.mc[c].leaf = n
  /\ a.mc[c].init => Kids(e, T(s))[n] # NoPg
  /\ Kids(e, T(s))[n] # NoPg => a.mc[c].init

\* mdb_cursor_set positions at the leaf, if there is one.
LEMMA PositionIs ==
  ASSUME NEW b, NEW e, NEW s, Fits(b, e, s), s.rc = "OK", Good(e, T(s), s.head, s.mc, {}),
         NEW c \in Cursors \cup {Local}, NEW n \in Leaf
  PROVE  Positioned(b, e, s, c, n, Position(s, c, n))
<1> DEFINE t == T(s)
           k == Kids(e, t)[n]
           D == Cursors \cup {Local}
           r == [s.mc[c] EXCEPT !.leaf = n, !.init = k # NoPg, !.pg = Path(e, t, n)]
           m == [s.mc EXCEPT ![c] = r]
           a == [s EXCEPT !.mc = m]
<1>1. /\ t \in TxnRec /\ EnvOK(e) /\ s \in StRec /\ AtIn(e, t) \in [Pg -> Page]
      /\ TreeShape(AtIn(e, t), t.root) /\ Curs(e, t, s.mc)
  BY FitsIs, AtInIs DEF Good
<1>2. t.root \in PgN /\ k \in PgN /\ (t.root = NoPg => k = NoPg)
  BY <1>1, TreeIs DEF Kids
<1>3. Paths(e, t, n)
  BY <1>1, PathIs
<1>4. Position(s, c, n) = a
  <2>1. t.root # NoPg => PageAt(s, Get(s, t.root)).kid[n] = k
    BY <1>2, PgIs, FitsIs DEF Kids, KidOf
  <2>2. (IF t.root = NoPg THEN NoPg ELSE PageAt(s, Get(s, t.root)).kid[n]) = k
    BY <1>2, <2>1
  <2>3. /\ t.root # NoPg => Get(s, t.root) = GetIn(e, t, t.root)
        /\ k # NoPg => Get(s, k) = GetIn(e, t, k)
    BY <1>2, PgIs, FitsIs
  <2>4. <<IF t.root = NoPg THEN NoPtr ELSE Get(s, t.root), IF k = NoPg THEN NoPtr ELSE Get(s, k)>>
        = Path(e, t, n)
    BY <2>3 DEF Path, PtrTo, Kids
  <2> HIDE DEF k
  <2>5. Position(s, c, n) = [s EXCEPT !.mc[c] = [@ EXCEPT !.leaf = n, !.init = k # NoPg,
                               !.pg = Path(e, t, n)]]
    BY <2>2, <2>4 DEF Position
  <2> QED BY <2>5
<1>5. r \in CurRec /\ r.leaf = n /\ (r.init <=> k # NoPg) /\ r.pg = Path(e, t, n)
  <2>1. s.mc[c] \in CurRec
    BY <1>1, StIs
  <2>2. Path(e, t, n) \in [1 .. 2 -> Ptrs]
    BY <1>3 DEF Paths
  <2>3. (k # NoPg) \in BOOLEAN
    OBVIOUS
  <2> HIDE DEF k
  <2> QED BY <2>1, <2>2, <2>3 DEF CurRec
<1> HIDE DEF r
<1>6. m \in [D -> CurRec] /\ m[c] = r /\ \A d \in D : d # c => m[d] = s.mc[d]
  <2>1. s.mc \in [D -> CurRec]
    BY <1>1, StIs
  <2> QED BY <1>5, <2>1
<1> HIDE DEF m
<1>7. /\ a \in StRec /\ a.txns = s.txns /\ a.file = s.file /\ a.rc = s.rc /\ a.head = s.head
      /\ a.mc = m
  BY <1>1, <1>6 DEF StRec
<1> HIDE DEF a
<1>8. Fits(b, e, a) /\ Along(s, a) /\ T(a) = t /\ Top(a) = Top(s)
  BY <1>7, FitsSame
<1>9. Curs(e, t, m)
  <2> SUFFICES ASSUME NEW d \in Cursors, m[d].init
               PROVE  /\ m[d].leaf \in Leaf
                      /\ Kids(e, t)[m[d].leaf] # NoPg
                      /\ m[d].pg = Path(e, t, m[d].leaf)
    BY DEF Curs, Kids
  <2>1. CASE d = c
    BY <1>5, <1>6, <2>1
  <2>2. CASE d # c
    <3>1. m[d] = s.mc[d]
      BY <1>6, <2>2
    <3> QED BY <1>1, <3>1 DEF Curs, Kids
  <2> QED BY <2>1, <2>2
<1>10. Good(e, T(a), a.head, a.mc, {})
  BY <1>7, <1>8, <1>9 DEF Good
<1>11. Ready(b, e, a, c)
  BY <1>5, <1>6, <1>7, <1>8, <1>10 DEF Ready, Work
<1> QED BY <1>4, <1>5, <1>6, <1>7, <1>8, <1>11 DEF Positioned

\* A pointer of cursor c is set.
PointAt(s, c, i, new) == [s EXCEPT !.mc[c].pg[i] = new]
Pointed(b, e, u, c, i, new, a) ==
  /\ Fits(b, e, a) /\ Along(u, a) /\ T(a) = T(u) /\ a.head = u.head /\ a.rc = u.rc
  /\ Top(a) = Top(u) /\ a.mc[c].init = u.mc[c].init /\ a.mc[c].leaf = u.mc[c].leaf
  /\ a.mc[c].pg = [u.mc[c].pg EXCEPT ![i] = new]
  /\ \A d \in Cursors : d # c => a.mc[d] = u.mc[d]

LEMMA PointIs ==
  ASSUME NEW b, NEW e, NEW u, Fits(b, e, u), NEW c \in Cursors \cup {Local}, NEW i \in 1 .. 2,
         NEW new \in Ptrs, NEW a, a = PointAt(u, c, i, new)
  PROVE  Pointed(b, e, u, c, i, new, a)
<1> DEFINE D == Cursors \cup {Local}
           r == [u.mc[c] EXCEPT !.pg[i] = new]
           m == [u.mc EXCEPT ![c] = r]
<1>1. u \in StRec /\ u.mc \in [D -> CurRec] /\ u.mc[c] \in CurRec
  BY FitsIs, StIs
<1>2. a = [u EXCEPT !.mc = m]
  BY DEF PointAt
<1>3. r \in CurRec /\ r.init = u.mc[c].init /\ r.leaf = u.mc[c].leaf
      /\ r.pg = [u.mc[c].pg EXCEPT ![i] = new]
  <2>1. \A z \in CurRec : LET q == [z EXCEPT !.pg[i] = new]
                          IN  /\ q \in CurRec /\ q.init = z.init /\ q.leaf = z.leaf
                              /\ q.pg = [z.pg EXCEPT ![i] = new]
    BY DEF CurRec
  <2> QED BY <1>1, <2>1
<1> HIDE DEF r
<1>4. m \in [D -> CurRec] /\ m[c] = r /\ \A d \in Cursors : d # c => m[d] = u.mc[d]
  BY <1>1, <1>3
<1> HIDE DEF m
<1>5. /\ a \in StRec /\ a.txns = u.txns /\ a.file = u.file /\ a.rc = u.rc /\ a.head = u.head
      /\ a.mc = m
  BY <1>1, <1>2, <1>4 DEF StRec
<1>6. Fits(b, e, a) /\ Along(u, a) /\ T(a) = T(u) /\ Top(a) = Top(u)
  BY <1>5, FitsSame
<1> QED BY <1>3, <1>4, <1>5, <1>6 DEF Pointed

\* mdb_page_new fails, or gives a page that the tree does not have.
LEMMA PageNewIs ==
  ASSUME NEW b, NEW e, NEW s, Fits(b, e, s), s.rc = "OK", Good(e, T(s), s.head, s.mc, {})
  PROVE  LET x == PageNew(s)
         IN  \/ Bad(b, e, s, x)
             \/ Fresh(b, e, s, x, Blank)
<1> DEFINE a == PageAlloc(s)
           x == SetPage(a, <<Top(a), a.np>>, Blank)
<1>0. Blank \in Page
  BY PgIs DEF Blank, Page
<1>1. CASE a.rc = "OK"
  <2>1. PageNew(s) = x
    BY <1>1 DEF PageNew, Then
  <2> HIDE DEF a
  <2>2. Fresh(b, e, s, x, Blank)
    BY <1>0, <1>1, FreshIs DEF a
  <2> QED BY <2>1, <2>2
<1>2. CASE a.rc # "OK"
  <2>1. PageNew(s) = a
    BY <1>2 DEF PageNew, Then
  <2> HIDE DEF a
  <2>2. Failed(b, e, s, a)
    BY <1>2, PageAllocIs DEF a
  <2>3. Bad(b, e, s, a)
    BY <2>2, FailedBad
  <2> QED BY <2>1, <2>3
<1> QED BY <1>1, <1>2

LEMMA NewRootIs ==
  ASSUME NEW b, NEW e, NEW s, NEW c, Ready(b, e, s, c), T(s).root = NoPg
  PROVE  Ours(b, e, s, c, NewRoot(s, c))
<1> DEFINE t == T(s)
           n == s.mc[c].leaf
           x == PageNew(s)
           q == x.np
           t2 == RootT(T(x), q)
           G == T(x).free \cup ({T(x).root} \ {NoPg})
           u == WithT(x, t2)
           new == <<Top(x), q>>
           a == PointAt(u, c, 1, new)
<1>1. Good(e, t, s.head, s.mc, {}) /\ Fits(b, e, s) /\ s.rc = "OK" /\ c \in Cursors \cup {Local}
      /\ n \in Leaf /\ s.mc[c].pg = Path(e, t, n)
  BY DEF Ready, Work
<1>2. Bad(b, e, s, x) \/ Fresh(b, e, s, x, Blank)
  BY <1>1, PageNewIs
<1>3. /\ x.rc = "OK" => NewRoot(s, c) = PointAt(WithT(x, [T(x) EXCEPT !.root = q]), c, 1, new)
      /\ x.rc # "OK" => NewRoot(s, c) = x
  BY DEF NewRoot, Then, PointAt
<1> HIDE DEF x, q
<1>4. CASE Bad(b, e, s, x)
  <2>1. x.rc # "OK"
    BY <1>4 DEF Bad
  <2> QED BY <1>3, <1>4, <2>1 DEF Ours
<1>5. CASE Fresh(b, e, s, x, Blank)
  <2>1. /\ Fits(b, e, x) /\ Along(s, x) /\ x.rc = "OK" /\ x.mc = s.mc /\ Top(x) = Top(s)
        /\ Good(e, T(x), x.head, x.mc, {q}) /\ T(x).err = t.err
        /\ InMem(T(x), q) /\ AtIn(e, T(x))[q] = Blank
        /\ T(x).root = NoPg /\ Kids(e, T(x)) = Kids(e, t) /\ Vals(e, T(x)) = Vals(e, t)
        /\ \A y \in Leaf : Path(e, T(x), y) = Path(e, t, y)
    BY <1>5 DEF Fresh, q
  <2>2. /\ T(x) \in TxnRec /\ x \in StRec /\ EnvOK(e) /\ e.n = Top(s) /\ Top(s) \in Nat
        /\ x.head \in SUBSET Pg
    BY <1>1, <2>1, FitsIs, StIs
  <2>3. q \in Pg /\ q \in PgN /\ q # NoPg /\ q \in Nat
    BY <2>1, <2>2, TxnIs, PgIs DEF InMem
  <2>4. G \in SUBSET Pg /\ t2 = FreeT(T(x), G, q)
    <3>1. G = T(x).free
      BY <2>1
    <3> QED BY <2>2, <3>1, TxnIs DEF RootT, FreeT
  <2>5. [T(x) EXCEPT !.root = q] = t2
    BY <2>1, <2>2 DEF RootT, TxnRec
  <2> HIDE DEF G, t2
  <2>6. Freed(b, e, x, u, G, q) /\ T(u) = t2
    BY <2>1, <2>3, <2>4, FreedIs
  <2>7. NewRoot(s, c) = a
    BY <1>3, <2>1, <2>5
  <2> HIDE DEF u
  <2>8. /\ Fits(b, e, u) /\ Along(x, u) /\ u.head = x.head /\ u.mc = x.mc /\ u.rc = x.rc
    BY <2>6 DEF Freed
  <2>9. new \in Ptrs /\ new = <<e.n, q>>
    BY <2>1, <2>2, <2>3 DEF Ptrs
  <2>10. \A y \in Leaf : Kids(e, t)[y] = NoPg
    BY DEF Kids, KidOf
  <2>11. Rooted(e, T(x), x.head, q, t2)
    <3>1. KidOf(AtIn(e, T(x)), q) = KidOf(AtIn(e, T(x)), T(x).root)
      BY <2>1, <2>3 DEF KidOf, Blank
    <3> QED BY <2>1, <2>2, <3>1, RootIs DEF t2
  <2>12. /\ t2 \in TxnRec /\ t2.root = q /\ t2.err = t.err /\ InMem(t2, q)
         /\ Kids(e, t2) = Kids(e, t) /\ Vals(e, t2) = Vals(e, t)
         /\ Path(e, t2, n) = [Path(e, t, n) EXCEPT ![1] = <<e.n, q>>]
         /\ Mem(e, t2, x.head) /\ RoomIn(e, t2) /\ TreeShape(AtIn(e, t2), t2.root)
         /\ Parts(e, t2, x.head, {})
    BY <1>1, <2>1, <2>11 DEF Rooted, Kids, Vals
  <2> HIDE DEF new, a
  <2>13. Pointed(b, e, u, c, 1, new, a)
    <3>1. 1 \in 1 .. 2
      OBVIOUS
    <3> QED BY <1>1, <2>8, <2>9, <3>1, PointIs DEF a
  <2>14. /\ Fits(b, e, a) /\ Along(u, a) /\ T(a) = t2 /\ a.head = x.head /\ a.rc = "OK"
         /\ a.mc[c].leaf = n /\ a.mc[c].pg = [Path(e, t, n) EXCEPT ![1] = new]
         /\ a.mc[c].init = s.mc[c].init
         /\ \A d \in Cursors : d # c => a.mc[d] = s.mc[d]
    BY <1>1, <2>1, <2>6, <2>8, <2>13 DEF Pointed
  <2>15. \A d \in Cursors : ~ a.mc[d].init
    <3>1. \A d \in Cursors : ~ s.mc[d].init
      BY <1>1, <2>10 DEF Good, Curs, Kids
    <3> QED BY <2>14, <3>1
  <2>16. Curs(e, t2, a.mc)
    BY <2>15 DEF Curs
  <2>17. Good(e, t2, a.head, a.mc, {})
    BY <2>12, <2>14, <2>16 DEF Good
  <2>18. Along(s, a)
    <3>1. Along(s, u)
      BY <2>1, <2>8, AlongTrans
    <3> QED BY <2>14, <3>1, AlongTrans
  <2>19. Work(e, t2, a.mc[c])
    BY <1>1, <2>9, <2>12, <2>14 DEF Work
  <2>20. Fine(b, e, s, c, a)
    BY <2>12, <2>14, <2>17, <2>18, <2>19 DEF Fine
  <2>21. Ours(b, e, s, c, a)
    BY <1>1, <2>3, <2>10, <2>12, <2>14, <2>20 DEF Ours
  <2> QED BY <2>7, <2>21
<1> QED BY <1>2, <1>4, <1>5

-----------------------------------------------------------------------------
(***************************************************************************)
(* mdb_cursor_put.                                                         *)
(***************************************************************************)

\* The cursor has a leaf page in memory.
Leafed(b, e, s, c, a) ==
  /\ Fine(b, e, s, c, a) /\ Vals(e, T(a)) = Vals(e, T(s))
  /\ Kids(e, T(a))[s.mc[c].leaf] # NoPg /\ InMem(T(a), Kids(e, T(a))[s.mc[c].leaf])

LEMMA RootPtr ==
  ASSUME NEW b, NEW e, NEW s, NEW c, Ready(b, e, s, c), T(s).root # NoPg, InMem(T(s), T(s).root)
  PROVE  s.mc[c].pg[1] = <<Top(s), T(s).root>>
<1> DEFINE n == s.mc[c].leaf
<1>1. Fits(b, e, s) /\ n \in Leaf /\ s.mc[c].pg = Path(e, T(s), n) /\ TreeShape(AtIn(e, T(s)), T(s).root)
  BY DEF Ready, Work, Good
<1>2. Here(e, s, T(s).root)
  BY <1>1, HereIs
<1>3. T(s) \in TxnRec /\ EnvOK(e)
  BY <1>1, FitsIs
<1>4. Paths(e, T(s), n)
  BY <1>1, <1>3, PathIs
<1> QED BY <1>1, <1>2, <1>4 DEF Paths, Here

\* A leaf page for a key that has none.
LEMMA NewLeafIs ==
  ASSUME NEW b, NEW e, NEW s, NEW c, Ready(b, e, s, c), T(s).root # NoPg, InMem(T(s), T(s).root),
         Kids(e, T(s))[s.mc[c].leaf] = NoPg
  PROVE  LET a == NewLeaf(s, c) IN Bad(b, e, s, a) \/ Leafed(b, e, s, c, a)
<1> DEFINE t == T(s)
           n == s.mc[c].leaf
           x == PageNew(s)
           q == x.np
           r == T(x).root
           page == [PageAt(x, x.mc[c].pg[1]) EXCEPT !.kid[x.mc[c].leaf] = q]
           page2 == [AtIn(e, T(x))[r] EXCEPT !.kid[n] = q]
           u == SetPage(x, x.mc[c].pg[1], page)
           new == <<Top(u), q>>
           a == PointAt(u, c, 2, new)
           z == NewLeaf(s, c)
<1>1. Good(e, t, s.head, s.mc, {}) /\ Fits(b, e, s) /\ s.rc = "OK" /\ c \in Cursors \cup {Local}
      /\ n \in Leaf /\ s.mc[c].pg = Path(e, t, n)
  BY DEF Ready, Work
<1>2. Bad(b, e, s, x) \/ Fresh(b, e, s, x, Blank)
  BY <1>1, PageNewIs
<1>3. /\ x.rc = "OK" => z = [u EXCEPT !.mc[c].pg[2] = <<Top(x), q>>]
      /\ x.rc # "OK" => z = x
  BY DEF NewLeaf, Then
<1> HIDE DEF x, q, z
<1>4. CASE Bad(b, e, s, x)
  <2>1. x.rc # "OK"
    BY <1>4 DEF Bad
  <2> QED BY <1>3, <1>4, <2>1 DEF z
<1>5. CASE Fresh(b, e, s, x, Blank)
  <2>1. /\ Fits(b, e, x) /\ Along(s, x) /\ x.rc = "OK" /\ x.mc = s.mc /\ Top(x) = Top(s)
        /\ Good(e, T(x), x.head, x.mc, {q}) /\ T(x).err = t.err
        /\ InMem(T(x), q) /\ AtIn(e, T(x))[q] = Blank
        /\ r = t.root /\ Kids(e, T(x)) = Kids(e, t) /\ Vals(e, T(x)) = Vals(e, t)
        /\ \A y : InMem(t, y) => InMem(T(x), y)
        /\ \A y \in Leaf : Path(e, T(x), y) = Path(e, t, y)
    BY <1>5 DEF Fresh, q
  <2>2. /\ T(x) \in TxnRec /\ x \in StRec /\ EnvOK(e) /\ e.n = Top(s) /\ Top(s) \in Nat
        /\ x.head \in SUBSET Pg /\ t \in TxnRec
    BY <1>1, <2>1, FitsIs, StIs
  <2>3. q \in Pg /\ q \in PgN /\ q # NoPg /\ q \in Nat
    BY <2>1, <2>2, TxnIs, PgIs DEF InMem
  <2>4. Here(e, x, r)
    <3>1. InMem(T(x), r)
      BY <2>1
    <3> QED BY <2>1, <3>1, HereIs
  <2>5. x.mc[c].pg[1] = <<Top(x), r>> /\ x.mc[c].leaf = n
    BY <2>1, RootPtr
  <2>6. PageAt(x, <<Top(x), r>>) = AtIn(e, T(x))[r] /\ r \in DOMAIN T(x).dirty /\ r \in Pg
    BY <2>4 DEF Here
  <2>7. page = page2
    BY <2>5, <2>6
  <2>8. page2 \in Page
    <3>1. AtIn(e, T(x))[r] \in Page
      BY <2>2, <2>6, AtInIs
    <3> QED BY <1>1, <2>3, <3>1 DEF Page
  <2>9. u = SetPage(x, <<Top(x), r>>, page2)
    BY <2>5, <2>7
  <2> HIDE DEF u, page, page2
  <2>10. /\ Fits(b, e, u) /\ Along(x, u) /\ T(u) = SetT(T(x), r, page2) /\ u.head = x.head
         /\ u.mc = x.mc /\ u.rc = x.rc /\ Top(u) = Top(x)
    BY <2>1, <2>6, <2>8, <2>9, PutPage
  <2> DEFINE t2 == T(u)
  <2>11. Kidded(e, T(x), x.head, q, n, t2)
    <3>1. [T(x) EXCEPT !.free = @ \cup ({NoPg} \ {NoPg})] = T(x)
      BY <2>2 DEF TxnRec
    <3>2. t2 = KidT(T(x), q, n, NoPg, AtIn(e, T(x))[r])
      BY <2>10, <3>1 DEF KidT, page2
    <3>3. KidOf(AtIn(e, T(x)), T(x).root)[n] = NoPg
      BY <2>1 DEF Kids
    <3>4. AtIn(e, T(x))[q].val = ValOf(AtIn(e, T(x)), T(x).root)[n]
      BY <1>1, <2>1, <3>3 DEF ValOf, Blank
    <3>5. InMem(T(x), T(x).root)
      BY <2>1
    <3> HIDE DEF t2
    <3> QED BY <1>1, <2>1, <2>2, <3>2, <3>3, <3>4, <3>5, KidIs
  <2>12. /\ t2 \in TxnRec /\ t2.root = r /\ t2.err = t.err /\ InMem(t2, q) /\ InMem(t2, t2.root)
         /\ Kids(e, t2) = [Kids(e, t) EXCEPT ![n] = q] /\ Vals(e, t2) = Vals(e, t)
         /\ \A y \in Leaf : Path(e, t2, y) = IF y = n THEN [Path(e, t, y) EXCEPT ![2] = <<e.n, q>>]
                                             ELSE Path(e, t, y)
         /\ Mem(e, t2, x.head) /\ RoomIn(e, t2) /\ TreeShape(AtIn(e, t2), t2.root)
         /\ Parts(e, t2, x.head, {})
    BY <2>1, <2>11 DEF Kidded, Kids, Vals
  <2> HIDE DEF t2
  <2>13. new \in Ptrs /\ new = <<e.n, q>>
    BY <2>1, <2>2, <2>3, <2>10 DEF Ptrs
  <2>14. z = a
    BY <1>3, <2>1, <2>10 DEF PointAt
  <2> HIDE DEF new, a
  <2>15. Pointed(b, e, u, c, 2, new, a)
    <3>1. 2 \in 1 .. 2
      OBVIOUS
    <3> QED BY <1>1, <2>10, <2>13, <3>1, PointIs DEF a
  <2>16. /\ Fits(b, e, a) /\ Along(u, a) /\ T(a) = t2 /\ a.head = x.head /\ a.rc = "OK"
         /\ a.mc[c].leaf = n /\ a.mc[c].pg = [Path(e, t, n) EXCEPT ![2] = new]
         /\ a.mc[c].init = s.mc[c].init
         /\ \A d \in Cursors : d # c => a.mc[d] = s.mc[d]
    BY <1>1, <2>1, <2>10, <2>15 DEF Pointed, t2
  <2>17. Kids(e, t) \in [Leaf -> PgN] /\ Curs(e, t, s.mc)
    <3>1. AtIn(e, t) \in [Pg -> Page] /\ TreeShape(AtIn(e, t), t.root)
      BY <1>1, <2>2, AtInIs DEF Good
    <3> QED BY <1>1, <3>1, TreeIs DEF Kids, Good
  <2>18. Kids(e, t2)[n] = q /\ \A y \in Leaf : y # n => Kids(e, t2)[y] = Kids(e, t)[y]
    BY <1>1, <2>12, <2>17
  <2>19. Curs(e, t2, a.mc)
    <3> SUFFICES ASSUME NEW d \in Cursors, a.mc[d].init
                 PROVE  /\ a.mc[d].leaf \in Leaf
                        /\ Kids(e, t2)[a.mc[d].leaf] # NoPg
                        /\ a.mc[d].pg = Path(e, t2, a.mc[d].leaf)
      BY DEF Curs, Kids
    <3>1. s.mc[d].init
      BY <2>16
    <3>2. /\ s.mc[d].leaf \in Leaf /\ Kids(e, t)[s.mc[d].leaf] # NoPg
          /\ s.mc[d].pg = Path(e, t, s.mc[d].leaf)
      BY <2>17, <3>1 DEF Curs, Kids
    <3>3. s.mc[d].leaf # n /\ d # c
      BY <3>2
    <3> QED BY <2>12, <2>16, <2>18, <3>2, <3>3
  <2>20. Good(e, t2, a.head, a.mc, {})
    BY <2>12, <2>16, <2>19 DEF Good
  <2>21. Along(s, a)
    <3>1. Along(s, u)
      BY <2>1, <2>10, AlongTrans
    <3> QED BY <2>16, <3>1, AlongTrans
  <2>22. Work(e, t2, a.mc[c])
    BY <1>1, <2>12, <2>13, <2>16 DEF Work
  <2>23. Fine(b, e, s, c, a)
    BY <2>12, <2>16, <2>20, <2>21, <2>22 DEF Fine
  <2>24. Leafed(b, e, s, c, a)
    BY <2>3, <2>12, <2>16, <2>18, <2>23 DEF Leafed
  <2> QED BY <2>14, <2>24 DEF z
<1> QED BY <1>2, <1>4, <1>5

\* The operation is done, or the transaction is in error.
Did(b, e, e2, s, a, V) ==
  /\ Fits(b, e2, a) /\ Along(s, a) /\ FileKept(s, a) /\ Good(e2, T(a), a.head, a.mc, {})
  /\ \/ a.rc # "OK" /\ T(a).err
     \/ a.rc = "OK" /\ T(a).err = T(s).err /\ Vals(e2, T(a)) = V

\* The value goes into the leaf page.
LEMMA LeafPutIs ==
  ASSUME NEW b, NEW e, NEW s, NEW c, NEW a, Leafed(b, e, s, c, a), NEW v \in Val,
         NEW z, z = SetPage(a, a.mc[c].pg[2], [Blank EXCEPT !.val = v]), FileKept(s, a)
  PROVE  Did(b, e, e, s, z, [Vals(e, T(s)) EXCEPT ![s.mc[c].leaf] = v])
<1> DEFINE t == T(a)
           n == s.mc[c].leaf
           k == Kids(e, t)[n]
           page == [Blank EXCEPT !.val = v]
           t2 == SetT(t, k, page)
           at == AtIn(e, t)
           at2 == AtIn(e, t2)
           r == t.root
           K == Kids(e, t)
<1>1. /\ Fits(b, e, a) /\ Along(s, a) /\ a.rc = "OK" /\ t.err = T(s).err /\ k # NoPg /\ InMem(t, k)
      /\ Mem(e, t, a.head) /\ RoomIn(e, t) /\ TreeShape(at, r) /\ Parts(e, t, a.head, {})
      /\ Curs(e, t, a.mc) /\ n \in Leaf /\ a.mc[c].pg = Path(e, t, n) /\ Vals(e, t) = Vals(e, T(s))
  BY DEF Leafed, Fine, Good, Work
<1>2. t \in TxnRec /\ EnvOK(e) /\ at \in [Pg -> Page]
  BY <1>1, FitsIs, AtInIs
<1>3. Here(e, a, k)
  BY <1>1, HereIs
<1>4. a.mc[c].pg[2] = <<Top(a), k>>
  <2>1. Paths(e, t, n)
    BY <1>1, <1>2, PathIs
  <2> QED BY <1>1, <1>3, <2>1 DEF Paths, Here, Kids
<1>5. page \in Page /\ page.val = v
  BY PgIs DEF Blank, Page
<1>6. k \in DOMAIN t.dirty /\ k \notin t.spill /\ k \in Pg
  BY <1>1, <1>3 DEF InMem, Here
<1>7. z = SetPage(a, <<Top(a), k>>, page)
  BY <1>4
<1> HIDE DEF page, k, t2
<1>8. /\ Fits(b, e, z) /\ Along(a, z) /\ T(z) = t2 /\ z.head = a.head /\ z.mc = a.mc /\ z.rc = a.rc
  BY <1>1, <1>5, <1>6, <1>7, PutPage DEF t2
<1>9. /\ Alike(t, t2) /\ t2.err = t.err
      /\ \A y \in Pg : y # k => at2[y] = at[y]
      /\ at2[k] = page
  BY <1>2, <1>5, <1>6, SetTIs DEF t2
<1>10. /\ \A y : GetIn(e, t2, y) = GetIn(e, t, y)
       /\ Mem(e, t2, a.head) /\ RoomIn(e, t2)
  BY <1>1, <1>9, AlikeIs
<1>11. t2.root = r /\ t2.free = t.free /\ t2.loose = t.loose /\ t2.next = t.next /\ t2 \in TxnRec
  BY <1>9 DEF Alike
<1>12. /\ r \in Pg /\ r # NoPg /\ K \in [Leaf -> PgN]
       /\ \A y \in Leaf : K[y] # NoPg => K[y] # r /\ K[y] \in Pg
       /\ \A x, y \in Leaf : K[x] = K[y] /\ x # y => K[x] = NoPg
  BY <1>1, <1>2, TreeIs DEF Kids, TreeShape, k
<1>13. Kids(e, t2) = K
  <2>1. k # r
    BY <1>1, <1>12 DEF k
  <2>2. at2[r] = at[r]
    BY <1>9, <1>12, <2>1
  <2> QED BY <1>11, <1>12, <2>2 DEF Kids, KidOf
<1>14. Pages(e, t2) = Pages(e, t)
  BY <1>11, <1>13 DEF Pages, PagesOf, Kids
<1>15. Vals(e, t2) = [Vals(e, t) EXCEPT ![n] = v]
  <2>1. \A y \in Leaf : Vals(e, t2)[y] = IF K[y] = NoPg THEN NoVal ELSE at2[K[y]].val
    BY <1>13 DEF Vals, ValOf, Kids
  <2>2. \A y \in Leaf : Vals(e, t)[y] = IF K[y] = NoPg THEN NoVal ELSE at[K[y]].val
    BY DEF Vals, ValOf, Kids
  <2>3. K[n] = k /\ k # NoPg
    BY <1>1 DEF k
  <2>4. DOMAIN Vals(e, t2) = Leaf /\ DOMAIN Vals(e, t) = Leaf
    BY DEF Vals, ValOf
  <2>5. Vals(e, t2) = [y \in Leaf |-> Vals(e, t2)[y]] /\ Vals(e, t) = [y \in Leaf |-> Vals(e, t)[y]]
    BY DEF Vals, ValOf
  <2>6. \A y \in Leaf : y # n => Vals(e, t2)[y] = Vals(e, t)[y]
    <3> SUFFICES ASSUME NEW y \in Leaf, y # n PROVE Vals(e, t2)[y] = Vals(e, t)[y]
      OBVIOUS
    <3>1. K[y] # NoPg => K[y] # k /\ K[y] \in Pg
      BY <1>1, <1>12, <2>3
    <3>2. K[y] # NoPg => at2[K[y]] = at[K[y]]
      BY <1>9, <3>1
    <3> QED BY <2>1, <2>2, <3>2
  <2>7. Vals(e, t2)[n] = v
    BY <1>1, <1>5, <1>9, <2>1, <2>3
  <2> QED BY <1>1, <2>4, <2>5, <2>6, <2>7
<1>16. TreeShape(at2, t2.root)
  BY <1>1, <1>11, <1>13 DEF TreeShape, Kids
<1>17. Parts(e, t2, a.head, {})
  BY <1>1, <1>11, <1>14 DEF Parts, Pages
<1>18. Curs(e, t2, a.mc)
  <2>1. \A y \in Leaf : Path(e, t2, y) = Path(e, t, y)
    BY <1>10, <1>11, <1>13 DEF Path, PtrTo, Kids
  <2> QED BY <1>1, <1>13, <2>1 DEF Curs, Kids
<1>19. Good(e, T(z), z.head, z.mc, {})
  BY <1>8, <1>10, <1>16, <1>17, <1>18 DEF Good
<1>20. Along(s, z)
  BY <1>1, <1>8, AlongTrans
<1>21. z.file = a.file
  BY <1>1, <1>8, FitsIs
<1>22. FileKept(s, z)
  BY <1>21 DEF FileKept
<1> QED BY <1>1, <1>8, <1>9, <1>15, <1>19, <1>20, <1>22 DEF Did

\* mdb_cursor_put fails, or the tree has the new value at the leaf and the others as before.
LEMMA CursorPutIs ==
  ASSUME NEW b, NEW e, NEW s, NEW c, Ready(b, e, s, c), NEW v \in Val
  PROVE  \E e2 : Did(b, e, e2, s, CursorPut(s, c, v), [Vals(e, T(s)) EXCEPT ![s.mc[c].leaf] = v])
<1> DEFINE n == s.mc[c].leaf
           V == [Vals(e, T(s)) EXCEPT ![n] = v]
           a0 == PageSpill(s, c)
           a1 == IF a0.mc[c].pg[1] = NoPtr THEN NewRoot(a0, c) ELSE CursorTouch(a0, c)
           a2 == IF a1.mc[c].pg[2] = NoPtr THEN NewLeaf(a1, c) ELSE a1
           a3 == SetPage(a2, a2.mc[c].pg[2], [Blank EXCEPT !.val = v])
           z == CursorPut(s, c, v)
<1>1. PICK e2 : Spilled(b, e, e2, s, c, a0)
  BY PageSpillIs
<1>2. /\ Fits(b, e2, a0) /\ Along(s, a0) /\ FileKept(s, a0) /\ a0.rc = "OK" /\ a0.mc = s.mc
      /\ T(a0).err = T(s).err /\ Vals(e2, T(a0)) = Vals(e, T(s)) /\ Ready(b, e2, a0, c)
  BY <1>1 DEF Spilled, Ready
<1>3. z = IF a1.rc = "OK" THEN IF a2.rc = "OK" THEN a3 ELSE a2 ELSE a1
  BY <1>2 DEF CursorPut, Then
<1> HIDE DEF a0
<1>n. n \in Leaf /\ a0.mc[c].leaf = n
  BY <1>2 DEF Ready, Work
<1>f. ASSUME NEW a, Bad(b, e2, a0, a) PROVE Did(b, e, e2, s, a, V)
  <2>1. Fits(b, e2, a) /\ Along(a0, a) /\ a.rc # "OK" /\ T(a).err /\ Good(e2, T(a), a.head, a.mc, {})
    BY <1>f DEF Bad
  <2>2. a.file = a0.file
    BY <1>2, <2>1, FitsIs
  <2>3. FileKept(s, a)
    BY <1>2, <2>2 DEF FileKept
  <2>4. Along(s, a)
    BY <1>2, <2>1, AlongTrans
  <2> QED BY <2>1, <2>3, <2>4 DEF Did
<1>4. Ours(b, e2, a0, c, a1)
  <2>1. T(a0) \in TxnRec /\ EnvOK(e2) /\ TreeShape(AtIn(e2, T(a0)), T(a0).root)
        /\ a0.mc[c].pg = Path(e2, T(a0), n)
    BY <1>2, <1>n, FitsIs DEF Ready, Good, Work
  <2>2. Paths(e2, T(a0), n)
    BY <1>n, <2>1, PathIs
  <2>3. T(a0).root \in PgN
    BY <2>1 DEF TreeShape
  <2>4. a0.mc[c].pg[1] = NoPtr <=> T(a0).root = NoPg
    BY <2>1, <2>2, <2>3 DEF Paths
  <2>5. CASE T(a0).root = NoPg
    BY <1>2, <2>4, <2>5, NewRootIs
  <2>6. CASE T(a0).root # NoPg
    BY <1>2, <2>4, <2>6, CursorTouchIs
  <2> QED BY <2>5, <2>6
<1> HIDE DEF a1
<1>5. CASE Bad(b, e2, a0, a1)
  <2>1. a1.rc # "OK"
    BY <1>5 DEF Bad
  <2> QED BY <1>3, <1>5, <1>f, <2>1
<1>6. CASE ~ Bad(b, e2, a0, a1)
  <2> DEFINE k == Kids(e2, T(a1))[n]
  <2>1. /\ Fine(b, e2, a0, c, a1) /\ Vals(e2, T(a1)) = Vals(e2, T(a0))
        /\ T(a1).root # NoPg /\ InMem(T(a1), T(a1).root)
        /\ k # NoPg => InMem(T(a1), k)
    BY <1>4, <1>6, <1>n DEF Ours
  <2>2. /\ Fits(b, e2, a1) /\ Along(a0, a1) /\ a1.rc = "OK" /\ T(a1).err = T(a0).err
        /\ Good(e2, T(a1), a1.head, a1.mc, {})
        /\ Work(e2, T(a1), a1.mc[c]) /\ a1.mc[c].leaf = n /\ Ready(b, e2, a1, c)
    BY <1>2, <1>n, <2>1 DEF Fine, Ready
  <2>3. k = NoPg <=> a1.mc[c].pg[2] = NoPtr
    <3>1. T(a1) \in TxnRec /\ EnvOK(e2) /\ TreeShape(AtIn(e2, T(a1)), T(a1).root)
          /\ a1.mc[c].pg = Path(e2, T(a1), n)
      BY <2>2, FitsIs DEF Good, Work
    <3>2. Paths(e2, T(a1), n)
      BY <1>n, <3>1, PathIs
    <3>3. k \in PgN
      BY <1>n, <3>1 DEF TreeShape, Kids
    <3> QED BY <3>1, <3>2, <3>3 DEF Paths, Kids
  <2>4. Bad(b, e2, a1, a2) \/ Leafed(b, e2, a1, c, a2)
    <3>1. CASE k = NoPg
      <4>1. a2 = NewLeaf(a1, c)
        BY <2>3, <3>1
      <4>2. Kids(e2, T(a1))[a1.mc[c].leaf] = NoPg
        BY <2>2, <3>1
      <4> QED BY <2>1, <2>2, <4>1, <4>2, NewLeafIs
    <3>2. CASE k # NoPg
      <4>1. a2 = a1
        BY <2>3, <3>2
      <4>2. Fine(b, e2, a1, c, a1)
        BY <2>2 DEF Fine, Along
      <4> QED BY <2>1, <2>2, <3>2, <4>1, <4>2 DEF Leafed
    <3> QED BY <3>1, <3>2
  <2> HIDE DEF a2
  <2>5. CASE Bad(b, e2, a1, a2)
    <3>1. a2.rc # "OK"
      BY <2>5 DEF Bad
    <3>2. Bad(b, e2, a0, a2)
      BY <2>2, <2>5, AlongTrans DEF Bad
    <3>3. z = a2
      BY <1>3, <2>2, <3>1
    <3> QED BY <1>f, <3>2, <3>3
  <2>6. CASE Leafed(b, e2, a1, c, a2)
    <3>1. /\ Fine(b, e2, a1, c, a2) /\ Vals(e2, T(a2)) = Vals(e2, T(a1))
          /\ Kids(e2, T(a2))[n] # NoPg /\ InMem(T(a2), Kids(e2, T(a2))[n])
      BY <2>2, <2>6 DEF Leafed
    <3>2. a2.rc = "OK" /\ Fits(b, e2, a2) /\ T(a2).err = T(a1).err /\ Along(a1, a2) /\ a2.mc[c].leaf = n
      BY <2>2, <3>1 DEF Fine
    <3>3. Along(a0, a2)
      BY <2>2, <3>2, AlongTrans
    <3>4. Leafed(b, e2, a0, c, a2)
      <4>1. Fine(b, e2, a0, c, a2)
        BY <1>n, <2>2, <3>1, <3>2, <3>3 DEF Fine
      <4> QED BY <1>n, <2>1, <3>1, <4>1 DEF Leafed
    <3>5. z = a3
      BY <1>3, <2>2, <3>2
    <3> HIDE DEF a3
    <3>6. FileKept(a0, a2)
      <4>1. a2.file = a0.file
        BY <1>2, <3>2, FitsIs
      <4> QED BY <4>1 DEF FileKept
    <3>7. Did(b, e2, e2, a0, a3, [Vals(e2, T(a0)) EXCEPT ![a0.mc[c].leaf] = v])
      BY <3>4, <3>6, LeafPutIs DEF a3
    <3>8. /\ Fits(b, e2, a3) /\ Along(a0, a3) /\ Good(e2, T(a3), a3.head, a3.mc, {})
          /\ \/ a3.rc # "OK" /\ T(a3).err
             \/ a3.rc = "OK" /\ T(a3).err = T(a0).err /\ Vals(e2, T(a3)) = V
      BY <1>2, <1>n, <3>7 DEF Did
    <3>9. FileKept(s, a3)
      <4>1. a3.file = a0.file
        BY <1>2, <3>8, FitsIs
      <4> QED BY <1>2, <4>1 DEF FileKept
    <3>10. Along(s, a3)
      BY <1>2, <3>8, AlongTrans
    <3>11. Did(b, e, e2, s, a3, V)
      BY <1>2, <3>8, <3>9, <3>10 DEF Did
    <3> QED BY <3>5, <3>11
  <2> QED BY <2>4, <2>5, <2>6
<1> QED BY <1>5, <1>6

-----------------------------------------------------------------------------
(***************************************************************************)
(* mdb_drop, and mdb_page_loose.                                           *)
(***************************************************************************)

LEMMA Cursor0Is == Cursor0 \in CurRec /\ Cursor0.init = FALSE
<1>1. NoPtr \in Ptrs
  BY DEF NoPtr, NoPg, Ptrs
<1>2. <<NoPtr, NoPtr>> \in [1 .. 2 -> Ptrs]
  BY <1>1
<1> QED BY <1>2 DEF Cursor0, CurRec

\* The cursors in C lose their place.
Lost(b, e, u, C, a) ==
  /\ Fits(b, e, a) /\ Along(u, a) /\ T(a) = T(u) /\ a.head = u.head /\ a.rc = u.rc
  /\ a.np = u.np /\ Top(a) = Top(u) /\ a.file = u.file /\ a.txns = u.txns
  /\ \A d \in Cursors : a.mc[d].init => d \notin C /\ a.mc[d] = u.mc[d]

LEMMA LoseIs ==
  ASSUME NEW b, NEW e, NEW u, Fits(b, e, u), NEW C, NEW a, a = Lose(u, C)
  PROVE  Lost(b, e, u, C, a)
<1> DEFINE D == Cursors \cup {Local}
           r(d) == [Cursor0 EXCEPT !.of = u.mc[d].of]
           m == [d \in D |-> IF d \in C THEN r(d) ELSE u.mc[d]]
<1>1. u \in StRec /\ u.mc \in [D -> CurRec]
  BY FitsIs, StIs
<1>2. a = [u EXCEPT !.mc = m]
  BY <1>1 DEF Lose
<1>3. \A d \in D : r(d) \in CurRec /\ r(d).init = FALSE
  <2> SUFFICES ASSUME NEW d \in D PROVE r(d) \in CurRec /\ r(d).init = FALSE
    OBVIOUS
  <2>1. u.mc[d].of \in Nat
    BY <1>1, CurIs
  <2> QED BY <2>1, Cursor0Is DEF CurRec
<1> HIDE DEF r
<1>4. m \in [D -> CurRec] /\ \A d \in D : m[d].init => d \notin C /\ m[d] = u.mc[d]
  BY <1>1, <1>3
<1> HIDE DEF m
<1>5. /\ a \in StRec /\ a.txns = u.txns /\ a.file = u.file /\ a.rc = u.rc /\ a.head = u.head
      /\ a.mc = m /\ a.np = u.np
  BY <1>1, <1>2, <1>4 DEF StRec
<1>6. Fits(b, e, a) /\ Along(u, a) /\ T(a) = T(u) /\ Top(a) = Top(u)
  BY <1>5, FitsSame
<1> QED BY <1>4, <1>5, <1>6 DEF Lost

\* The tree goes, its pages to the free list.
LEMMA ClearIs ==
  ASSUME NEW e, EnvOK(e), NEW t \in TxnRec, NEW head, NEW m, Good(e, t, head, m, {}),
         NEW t2, t2 = FreeT(t, t.free \cup Pages(e, t), NoPg),
         NEW m2, \A d \in Cursors : ~ m2[d].init
  PROVE  /\ Refreed(e, t, t2, t.free \cup Pages(e, t), NoPg)
         /\ Good(e, t2, head, m2, {}) /\ Vals(e, t2) = [n \in Leaf |-> NoVal]
<1> DEFINE P == Pages(e, t)
           F == t.free \cup P
<1>1. /\ AtIn(e, t) \in [Pg -> Page] /\ TreeShape(AtIn(e, t), t.root)
      /\ Split(P, head, e.freed, t.free, Range(t.loose), e.recent, {}, t.next)
  BY AtInIs DEF Good, Parts, Pages
<1>2. F \in SUBSET Pg /\ NoPg \in PgN
  BY <1>1, TreeIs, TxnIs, PgIs DEF Pages
<1> HIDE DEF F
<1>3. Refreed(e, t, t2, F, NoPg)
  BY <1>2, FreeIs DEF F
<1>4. /\ t2.root = NoPg /\ t2.next = t.next /\ t2.free = F /\ t2.loose = t.loose /\ AtIn(e, t2) = AtIn(e, t)
      /\ Mem(e, t2, head) /\ RoomIn(e, t2)
  BY <1>3 DEF Refreed, Good
<1>5. \A n \in Leaf : Kids(e, t2)[n] = NoPg
  BY <1>4 DEF Kids, KidOf
<1>6. Pages(e, t2) = {}
  BY <1>4, <1>5 DEF Pages, PagesOf, Kids
<1>7. Vals(e, t2) = [n \in Leaf |-> NoVal]
  BY <1>5 DEF Vals, ValOf, Kids
<1>8. TreeShape(AtIn(e, t2), t2.root)
  BY <1>2, <1>4, <1>5 DEF TreeShape, Kids
<1>9. Parts(e, t2, head, {})
  <2>1. Split({}, head, e.freed, F, Range(t.loose), e.recent, {}, t.next)
    <3> HIDE DEF P
    <3> QED BY <1>1 DEF Split, F
  <2> QED BY <1>4, <1>6, <2>1 DEF Parts, Pages
<1>10. Curs(e, t2, m2)
  BY DEF Curs
<1> QED BY <1>3, <1>4, <1>7, <1>8, <1>9, <1>10 DEF Good, F

\* The pages that mdb_drop frees are those of the tree.
LEMMA TreePagesIs ==
  ASSUME NEW b, NEW e, NEW s, Fits(b, e, s), TreeShape(AtIn(e, T(s)), T(s).root)
  PROVE  TreePages(s.file, s.txns, Top(s), T(s).root) = Pages(e, T(s))
<1> DEFINE t == T(s)
           pages == TreePages(s.file, s.txns, Top(s), t.root)
<1>1. t \in TxnRec /\ AtIn(e, t) \in [Pg -> Page]
  BY FitsIs, AtInIs
<1>2. (t.root # NoPg => t.root \in Pg) /\ Kids(e, t) \in [Leaf -> PgN]
  BY <1>1, TreeIs DEF Kids
<1>3. CASE t.root = NoPg
  <2>1. pages = {}
    BY <1>3 DEF TreePages
  <2>2. Kids(e, t) = [n \in Leaf |-> NoPg]
    BY <1>3 DEF Kids, KidOf
  <2> QED BY <1>3, <2>1, <2>2 DEF Pages, PagesOf, Kids
<1>4. CASE t.root # NoPg
  <2>1. PageAt([file |-> s.file, txns |-> s.txns], Get(s, t.root)) = PageAt(s, Get(s, t.root))
    BY DEF PageAt
  <2>2. PageAt(s, Get(s, t.root)) = AtIn(e, t)[t.root]
    BY <1>2, <1>4, FitsIs
  <2>3. pages = {t.root} \cup (Range(AtIn(e, t)[t.root].kid) \ {NoPg})
    BY <1>4, <2>1, <2>2 DEF TreePages, Get
  <2>4. AtIn(e, t)[t.root].kid = Kids(e, t)
    BY <1>4 DEF Kids, KidOf
  <2>5. Range(Kids(e, t)) = {Kids(e, t)[n] : n \in Leaf}
    BY <1>2 DEF Range
  <2>6. Pages(e, t) = ({t.root} \cup {Kids(e, t)[n] : n \in Leaf}) \ {NoPg}
    BY DEF Pages, PagesOf, Kids
  <2> HIDE DEF pages, t
  <2>7. pages = {t.root} \cup ({Kids(e, t)[n] : n \in Leaf} \ {NoPg})
    BY <2>3, <2>4, <2>5
  <2>8. pages = Pages(e, t)
    BY <1>4, <2>6, <2>7
  <2> QED BY <2>8 DEF pages, t
<1> QED BY <1>3, <1>4

\* mdb_drop leaves an empty tree.
LEMMA DroppedIs ==
  ASSUME NEW b, NEW e, NEW s, Fits(b, e, s), s.rc = "OK", Good(e, T(s), s.head, s.mc, {}),
         T(s).root # NoPg
  PROVE  Did(b, e, e, s, Dropped(s), [n \in Leaf |-> NoVal])
<1> DEFINE t == T(s)
           pages == TreePages(s.file, s.txns, Top(s), t.root)
           t2 == FreeT(t, t.free \cup pages, NoPg)
           w == WithT(s, t2)
           C == Tracked(s)
           a == Lose(w, C)
<1>1. /\ t \in TxnRec /\ EnvOK(e) /\ AtIn(e, t) \in [Pg -> Page] /\ TreeShape(AtIn(e, t), t.root)
  BY FitsIs, AtInIs DEF Good
<1>2. t.root \in Pg /\ Kids(e, t) \in [Leaf -> PgN]
  BY <1>1, TreeIs DEF Kids
<1>3. pages = Pages(e, t)
  BY <1>1, TreePagesIs
<1>4. Dropped(s) = a
  BY DEF Dropped, FreeT
<1> HIDE DEF pages, a, t2, w
<1>5. t2 = FreeT(t, t.free \cup Pages(e, t), NoPg)
  BY <1>3 DEF t2
<1>6. t.free \cup Pages(e, t) \in SUBSET Pg
  BY <1>1, TreeIs, TxnIs DEF Pages
<1>7. Freed(b, e, s, w, t.free \cup Pages(e, t), NoPg) /\ T(w) = t2
  BY <1>5, <1>6, PgIs, FreedIs DEF w
<1>8. /\ Fits(b, e, w) /\ Along(s, w) /\ w.head = s.head /\ w.mc = s.mc /\ w.rc = s.rc
      /\ w.file = s.file /\ t2.err = t.err
  BY <1>7 DEF Freed, Refreed
<1>9. Lost(b, e, w, C, a)
  BY <1>8, LoseIs DEF a
<1>10. /\ Fits(b, e, a) /\ Along(w, a) /\ T(a) = t2 /\ a.head = s.head /\ a.rc = "OK"
       /\ a.file = s.file
       /\ \A d \in Cursors : a.mc[d].init => d \notin C /\ a.mc[d] = s.mc[d]
  BY <1>7, <1>8, <1>9 DEF Lost
<1>11. \A d \in Cursors : ~ a.mc[d].init
  BY <1>10 DEF Tracked
<1>12. Good(e, t2, s.head, a.mc, {}) /\ Vals(e, t2) = [n \in Leaf |-> NoVal]
  BY <1>1, <1>5, <1>11, ClearIs
<1>13. Along(s, a)
  BY <1>8, <1>10, AlongTrans
<1>14. FileKept(s, a)
  BY <1>10 DEF FileKept
<1> QED BY <1>4, <1>8, <1>10, <1>12, <1>13, <1>14 DEF Did

-----------------------------------------------------------------------------
(* A page of the leaf n goes to the loose list.                            *)

LoosenT(t, k)      == [t EXCEPT !.loose = <<k>> \o @]
UnkidT(t, k, page) == SetT(LoosenT(t, k), t.root, page)

Loosened(t, t2, k) ==
  /\ t2 \in TxnRec /\ t2.root = t.root /\ t2.next = t.next /\ t2.dirty = t.dirty /\ t2.spill = t.spill
  /\ t2.free = t.free /\ t2.room = t.room /\ t2.head = t.head /\ t2.bk = t.bk /\ t2.spills = t.spills
  /\ t2.err = t.err /\ Range(t2.loose) = Range(t.loose) \cup {k}
  /\ k \notin Range(t.loose) /\ Once(t.loose) => Once(t2.loose)

LEMMA ConsIs ==
  ASSUME NEW q \in Seq(Pg), NEW k \in Pg
  PROVE  /\ <<k>> \o q \in Seq(Pg) /\ Range(<<k>> \o q) = Range(q) \cup {k}
         /\ k \notin Range(q) /\ Once(q) => Once(<<k>> \o q)
<1> DEFINE z == <<k>> \o q
<1>1. /\ z \in Seq(Pg) /\ Len(q) \in Nat /\ Len(z) = Len(q) + 1 /\ DOMAIN q = 1 .. Len(q)
      /\ DOMAIN z = 1 .. Len(q) + 1
      /\ z[1] = k /\ \A i \in 1 .. Len(q) : z[i + 1] = q[i]
  OBVIOUS
<1>2. Range(q) = {q[i] : i \in 1 .. Len(q)} /\ Range(z) = {z[i] : i \in 1 .. Len(q) + 1}
  BY <1>1, RangeIs
<1> HIDE DEF z
<1>3. \A i \in 1 .. Len(q) + 1 : i = 1 \/ (i - 1 \in 1 .. Len(q) /\ (i - 1) + 1 = i)
  BY <1>1
<1>4. \A i \in 1 .. Len(q) + 1 : i = 1 \/ z[i] = q[i - 1]
  BY <1>1, <1>3
<1>5. Range(z) = Range(q) \cup {k}
  <2>1. ASSUME NEW x \in Range(z) PROVE x \in Range(q) \cup {k}
    <3>1. PICK i \in 1 .. Len(q) + 1 : x = z[i]
      BY <1>2
    <3>2. CASE i = 1
      BY <1>1, <3>1, <3>2
    <3>3. CASE i # 1
      BY <1>2, <1>3, <1>4, <3>1, <3>3
    <3> QED BY <3>2, <3>3
  <2>2. ASSUME NEW x \in Range(q) PROVE x \in Range(z)
    <3>1. PICK i \in 1 .. Len(q) : x = q[i]
      BY <1>2
    <3>2. i + 1 \in 1 .. Len(q) + 1 /\ z[i + 1] = x
      BY <1>1, <3>1
    <3> QED BY <1>2, <3>2
  <2>3. k \in Range(z)
    <3>1. 1 \in 1 .. Len(q) + 1
      BY <1>1
    <3> QED BY <1>1, <1>2, <3>1
  <2> QED BY <2>1, <2>2, <2>3
<1>6. ASSUME k \notin Range(q), Once(q) PROVE Once(z)
  <2> SUFFICES ASSUME NEW i \in 1 .. Len(q) + 1, NEW j \in 1 .. Len(q) + 1, z[i] = z[j]
               PROVE  i = j
    BY <1>1 DEF Once
  <2>1. \A x \in 1 .. Len(q) : q[x] # k
    BY <1>2, <1>6
  <2>2. CASE i # 1 /\ j # 1
    <3>1. q[i - 1] = q[j - 1] /\ i - 1 \in 1 .. Len(q) /\ j - 1 \in 1 .. Len(q)
      BY <1>3, <1>4, <2>2
    <3>2. i - 1 = j - 1
      BY <1>1, <1>6, <3>1 DEF Once
    <3> QED BY <3>2
  <2>3. CASE i = 1 \/ j = 1
    BY <1>1, <1>3, <1>4, <2>1, <2>3
  <2> QED BY <2>2, <2>3
<1> QED BY <1>1, <1>5, <1>6 DEF z

\* mdb_page_loose: the page is loose, and out of the tree.
LEMMA LoosenIs ==
  ASSUME NEW t \in TxnRec, NEW k \in Pg, NEW t2, t2 = LoosenT(t, k)
  PROVE  Loosened(t, t2, k)
<1> DEFINE z == <<k>> \o t.loose
<1>1. t.loose \in Seq(Pg)
  BY TxnIs
<1>2. /\ z \in Seq(Pg) /\ Range(z) = Range(t.loose) \cup {k}
      /\ k \notin Range(t.loose) /\ Once(t.loose) => Once(z)
  BY <1>1, ConsIs
<1>3. t2 = [t EXCEPT !.loose = z]
  BY DEF LoosenT
<1> HIDE DEF z
<1>4. /\ t2 \in TxnRec
      /\ t2.root = t.root /\ t2.next = t.next /\ t2.dirty = t.dirty /\ t2.spill = t.spill
      /\ t2.free = t.free /\ t2.room = t.room /\ t2.head = t.head /\ t2.bk = t.bk
      /\ t2.spills = t.spills /\ t2.err = t.err /\ t2.loose = z
  BY <1>2, <1>3 DEF TxnRec
<1> QED BY <1>2, <1>4 DEF Loosened

-----------------------------------------------------------------------------
(***************************************************************************)
(* A leaf page leaves the tree.                                            *)
(***************************************************************************)

\* The leaf page k of n is loose, and the root page has no pointer to it.
Unkidded(e, t, head, m, n, k, t2) ==
  /\ t2 \in TxnRec /\ t2.root = t.root /\ t2.head = t.head /\ t2.bk = t.bk /\ t2.err = t.err
  /\ Held(t2) = Held(t) /\ Good(e, t2, head, m, {})
  /\ Kids(e, t2) = [Kids(e, t) EXCEPT ![n] = NoPg]
  /\ Vals(e, t2) = [Vals(e, t) EXCEPT ![n] = NoVal]

\* The root has no pointer to the leaf page any more.
LEMMA UnkidIs ==
  ASSUME NEW e, EnvOK(e), NEW t \in TxnRec, NEW head, NEW m, Good(e, t, head, m, {}),
         NEW n \in Leaf, NEW k, k = Kids(e, t)[n], k # NoPg, InMem(t, k), InMem(t, t.root),
         NEW page, page = [AtIn(e, t)[t.root] EXCEPT !.kid[n] = NoPg],
         NEW t2, t2 = UnkidT(t, k, page),
         NEW m2, \A d \in Cursors : m2[d].init => m[d].init /\ m2[d] = m[d] /\ m[d].leaf # n
  PROVE  Unkidded(e, t, head, m2, n, k, t2)
<1> DEFINE r == t.root
           at == AtIn(e, t)
           K == Kids(e, t)
           K2 == [K EXCEPT ![n] = NoPg]
           f == LoosenT(t, k)
           P == Pages(e, t)
           L == Range(t.loose)
<1>1. /\ Mem(e, t, head) /\ RoomIn(e, t) /\ TreeShape(at, r) /\ Parts(e, t, head, {})
      /\ Curs(e, t, m) /\ at \in [Pg -> Page]
  BY AtInIs DEF Good
<1>2. /\ r \in Pg /\ r # NoPg /\ K \in [Leaf -> PgN] /\ r \in P
      /\ \A y \in Leaf : K[y] # NoPg => K[y] # r /\ K[y] \in Pg /\ K[y] \in P
      /\ \A x, y \in Leaf : K[x] = K[y] /\ x # y => K[x] = NoPg
      /\ \A p \in P : p = r \/ \E x \in Leaf : p = K[x]
      /\ P \subseteq Pg
  BY <1>1, TreeIs DEF Kids, TreeShape, Pages
<1>3. k \in Pg /\ k \in P /\ k # r
  BY <1>2
<1>4. Split(P, head, e.freed, t.free, L, e.recent, {}, t.next)
  BY <1>1 DEF Parts, Pages
<1>5. k \notin L
  <2> HIDE DEF P, L
  <2> QED BY <1>3, <1>4 DEF Split
<1>6. Once(t.loose) /\ Loosened(t, f, k)
  BY <1>1, <1>3, LoosenIs DEF Mem
<1>7. /\ f \in TxnRec /\ f.root = r /\ f.next = t.next /\ f.dirty = t.dirty /\ f.spill = t.spill
      /\ f.free = t.free /\ f.room = t.room /\ f.head = t.head /\ f.bk = t.bk /\ f.err = t.err
      /\ Range(f.loose) = L \cup {k} /\ Once(f.loose)
  BY <1>5, <1>6 DEF Loosened
<1>8. K = at[r].kid /\ at[r] \in Page /\ page \in Page /\ page.kid = K2
  <2>1. K = at[r].kid /\ at[r] \in Page
    BY <1>1, <1>2 DEF Kids, KidOf
  <2>2. NoPg \in PgN
    BY PgIs
  <2> QED BY <2>1, <2>2 DEF Page
<1> HIDE DEF f, at, K, K2, P, L, r
<1>9. t2 = SetT(f, r, page)
  BY DEF UnkidT, f, r
<1>10. AtIn(e, f) = at /\ \A p : GetIn(e, f, p) = GetIn(e, t, p)
  BY <1>7 DEF AtIn, GetIn, at
<1>11. r \in DOMAIN f.dirty /\ r \notin f.spill
  BY <1>7 DEF InMem, r
<1>12. /\ Alike(f, t2) /\ t2.err = f.err
       /\ \A q \in Pg : q # r => AtIn(e, t2)[q] = at[q]
       /\ AtIn(e, t2)[r] = page
  BY <1>7, <1>8, <1>9, <1>10, <1>11, SetTIs
<1>13. /\ \A p : GetIn(e, t2, p) = GetIn(e, f, p)
       /\ \A h : Mem(e, f, h) => Mem(e, t2, h)
       /\ RoomIn(e, f) => RoomIn(e, t2)
       /\ Held(t2) = Held(f)
  <2>1. Alike(f, t2)
    BY <1>12
  <2> QED BY ONLY <2>1, AlikeIs
<1>14. /\ t2 \in TxnRec /\ t2.root = r /\ t2.next = t.next /\ t2.free = t.free /\ t2.head = t.head
       /\ t2.bk = t.bk /\ t2.err = t.err /\ Range(t2.loose) = L \cup {k}
  BY <1>7, <1>12 DEF Alike
<1>15. Held(f) = Held(t)
  BY <1>7 DEF Held
<1>16. Mem(e, f, head)
  <2>1. k \in DOMAIN t.dirty
    BY DEF InMem
  <2>2. Range(f.loose) \subseteq DOMAIN f.dirty
    BY <1>1, <1>7, <2>1 DEF Mem, L
  <2> QED BY <1>1, <1>7, <1>15, <2>2 DEF Mem
<1>17. RoomIn(e, f)
  <2>1. ListIn(e, f) = ListIn(e, t)
    BY <1>7 DEF ListIn
  <2> QED BY <1>1, <1>7, <2>1 DEF RoomIn
<1>18. Kids(e, t2) = K2
  BY <1>2, <1>8, <1>12, <1>14 DEF Kids, KidOf
<1>19. K2[n] = NoPg /\ \A y \in Leaf : y # n => K2[y] = K[y]
  BY <1>2 DEF K2
<1>20. Pages(e, t2) = P \ {k}
  <2>1. Pages(e, t2) = ({r} \cup {K2[y] : y \in Leaf}) \ {NoPg}
    BY <1>14, <1>18 DEF Pages, PagesOf, Kids
  <2>2. \A y \in Leaf : y # n => K[y] # k
    BY <1>2, <1>3 DEF K
  <2>3. K[n] = k
    BY DEF K
  <2>4. ASSUME NEW p \in Pages(e, t2) PROVE p \in P \ {k}
    <3>1. CASE p = r
      BY <1>2, <1>3, <3>1
    <3>2. ASSUME NEW y \in Leaf, p = K2[y], p # NoPg PROVE p \in P \ {k}
      BY <1>2, <1>19, <2>2, <3>2
    <3> QED BY <2>1, <3>1, <3>2
  <2>5. ASSUME NEW p \in P \ {k} PROVE p \in Pages(e, t2)
    <3>1. p \in Pg /\ p # NoPg
      BY <1>2, PgIs
    <3>2. CASE p = r
      BY <2>1, <3>1, <3>2
    <3>3. ASSUME NEW y \in Leaf, p = K[y] PROVE p \in Pages(e, t2)
      <4>1. p = K2[y]
        BY <1>19, <2>3, <3>3
      <4> QED BY <2>1, <3>1, <4>1
    <3> QED BY <1>2, <3>2, <3>3
  <2> QED BY <2>4, <2>5
<1>21. TreeShape(AtIn(e, t2), t2.root)
  <2>1. \A y \in Leaf : K2[y] \in PgN /\ (K2[y] # NoPg => K2[y] # r)
    BY <1>2, <1>19, PgIs
  <2>2. \A x, y \in Leaf : K2[x] = K2[y] /\ x # y => K2[x] = NoPg
    BY <1>2, <1>19
  <2>3. r \in PgN
    BY <1>2, PgIs
  <2> QED BY <1>14, <1>18, <2>1, <2>2, <2>3 DEF TreeShape, Kids
<1>22. Parts(e, t2, head, {})
  <2>1. Split(P \ {k}, head, e.freed, t.free, L \cup {k}, e.recent, {}, t.next)
    BY <1>3, <1>4 DEF Split
  <2> QED BY <1>14, <1>20, <2>1 DEF Parts, Pages
<1>23. Vals(e, t2) = [Vals(e, t) EXCEPT ![n] = NoVal]
  <2>1. \A y \in Leaf : Vals(e, t2)[y] = IF K2[y] = NoPg THEN NoVal ELSE AtIn(e, t2)[K2[y]].val
    BY <1>18 DEF Vals, ValOf, Kids
  <2>2. \A y \in Leaf : Vals(e, t)[y] = IF K[y] = NoPg THEN NoVal ELSE at[K[y]].val
    BY DEF Vals, ValOf, Kids, K, at
  <2>3. \A y \in Leaf : y # n => Vals(e, t2)[y] = Vals(e, t)[y]
    <3> SUFFICES ASSUME NEW y \in Leaf, y # n PROVE Vals(e, t2)[y] = Vals(e, t)[y]
      OBVIOUS
    <3>1. K[y] # NoPg => AtIn(e, t2)[K[y]] = at[K[y]]
      BY <1>2, <1>12
    <3> QED BY <1>19, <2>1, <2>2, <3>1
  <2>4. Vals(e, t2)[n] = NoVal
    BY <1>19, <2>1
  <2>5. Vals(e, t2) = [y \in Leaf |-> Vals(e, t2)[y]] /\ Vals(e, t) = [y \in Leaf |-> Vals(e, t)[y]]
    BY DEF Vals, ValOf
  <2> QED BY <2>3, <2>4, <2>5
<1>24. Curs(e, t2, m2)
  <2> SUFFICES ASSUME NEW d \in Cursors, m2[d].init
               PROVE  /\ m2[d].leaf \in Leaf
                      /\ Kids(e, t2)[m2[d].leaf] # NoPg
                      /\ m2[d].pg = Path(e, t2, m2[d].leaf)
    BY DEF Curs, Kids
  <2>1. m[d].init /\ m2[d] = m[d] /\ m[d].leaf # n
    OBVIOUS
  <2>2. m[d].leaf \in Leaf /\ K[m[d].leaf] # NoPg /\ m[d].pg = Path(e, t, m[d].leaf)
    BY <1>1, <2>1 DEF Curs, Kids, K
  <2>3. \A y \in Leaf : y # n => Path(e, t2, y) = Path(e, t, y)
    BY <1>10, <1>13, <1>14, <1>18, <1>19 DEF Path, PtrTo, Kids, K, r
  <2> QED BY <1>18, <1>19, <2>1, <2>2, <2>3
<1>25. Good(e, t2, head, m2, {})
  BY <1>13, <1>16, <1>17, <1>21, <1>22, <1>24 DEF Good
<1> QED BY <1>13, <1>14, <1>15, <1>18, <1>23, <1>25 DEF Unkidded, K2, K, r

-----------------------------------------------------------------------------
(***************************************************************************)
(* mdb_cursor_del.                                                         *)
(***************************************************************************)

\* The root page is empty: the tree goes.
LEMMA EmptyIs ==
  ASSUME NEW b, NEW e, NEW w, Fits(b, e, w), Good(e, T(w), w.head, w.mc, {}), T(w).root # NoPg,
         \A n \in Leaf : Kids(e, T(w))[n] = NoPg,
         NEW z, z = WithT(w, FreeT(T(w), T(w).free \cup {T(w).root}, NoPg))
  PROVE  /\ Fits(b, e, z) /\ Along(w, z) /\ z.rc = w.rc /\ z.file = w.file /\ T(z).err = T(w).err
         /\ Good(e, T(z), z.head, z.mc, {}) /\ Vals(e, T(z)) = Vals(e, T(w))
<1> DEFINE t == T(w)
           F == t.free \cup {t.root}
           t2 == FreeT(t, F, NoPg)
<1>1. /\ t \in TxnRec /\ EnvOK(e) /\ AtIn(e, t) \in [Pg -> Page] /\ TreeShape(AtIn(e, t), t.root)
      /\ Curs(e, t, w.mc)
  BY FitsIs, AtInIs DEF Good
<1>2. t.root \in Pg
  BY <1>1, TreeIs
<1>3. Pages(e, t) = {t.root}
  <2>1. Pages(e, t) = ({t.root} \cup {Kids(e, t)[n] : n \in Leaf}) \ {NoPg}
    BY DEF Pages, PagesOf, Kids
  <2>2. \A x \in {Kids(e, t)[n] : n \in Leaf} : x = NoPg
    OBVIOUS
  <2> QED BY <2>1, <2>2
<1>4. F \in SUBSET Pg /\ F = t.free \cup Pages(e, t) /\ NoPg \in PgN
  BY <1>1, <1>2, <1>3, TxnIs, PgIs
<1> HIDE DEF F, t2
<1>5. Freed(b, e, w, z, F, NoPg) /\ T(z) = t2
  BY <1>4, FreedIs DEF F, t2
<1>6. /\ Fits(b, e, z) /\ Along(w, z) /\ z.head = w.head /\ z.mc = w.mc /\ z.rc = w.rc
      /\ z.file = w.file /\ t2.err = t.err
  BY <1>5 DEF Freed, Refreed
<1>7. \A d \in Cursors : ~ w.mc[d].init
  BY <1>1 DEF Curs, Kids
<1>8. /\ Good(e, t2, w.head, w.mc, {}) /\ Vals(e, t2) = [n \in Leaf |-> NoVal]
  BY <1>1, <1>4, <1>7, ClearIs DEF t2
<1>9. Vals(e, t) = [n \in Leaf |-> NoVal]
  BY DEF Vals, ValOf, Kids
<1> QED BY <1>5, <1>6, <1>8, <1>9

\* What CursorDel does once the path is in memory.
Delete(a, c) ==
  LET n    == a.mc[c].leaf
      root == [PageAt(a, a.mc[c].pg[1]) EXCEPT !.kid[n] = NoPg]
      b    == SetPage(PageLoose(a, a.mc[c].pg[2]), a.mc[c].pg[1], root)
      d    == Lose(b, {e \in Tracked(b) : b.mc[e].leaf = n})
  IN  IF root # Blank THEN d
      ELSE WithT(d, [T(d) EXCEPT !.free = @ \cup {T(d).root}, !.root = NoPg])

LEMMA DeleteIs ==
  ASSUME NEW b, NEW e, NEW a, NEW c, Ready(b, e, a, c), T(a).root # NoPg, InMem(T(a), T(a).root),
         NEW n, n = a.mc[c].leaf, Kids(e, T(a))[n] # NoPg, InMem(T(a), Kids(e, T(a))[n]),
         NEW z, z = Delete(a, c)
  PROVE  Did(b, e, e, a, z, [Vals(e, T(a)) EXCEPT ![n] = NoVal])
<1> DEFINE t == T(a)
           r == t.root
           k == Kids(e, t)[n]
           page == [AtIn(e, t)[r] EXCEPT !.kid[n] = NoPg]
           w == WithT(a, LoosenT(t, k))
           u == SetPage(w, <<Top(w), r>>, page)
           C == {d \in Tracked(u) : u.mc[d].leaf = n}
           x == Lose(u, C)
           t2 == UnkidT(t, k, page)
           V == [Vals(e, t) EXCEPT ![n] = NoVal]
<1>1. /\ Fits(b, e, a) /\ a.rc = "OK" /\ Good(e, t, a.head, a.mc, {}) /\ c \in Cursors \cup {Local}
      /\ n \in Leaf /\ a.mc[c].pg = Path(e, t, n)
  BY DEF Ready, Work
<1>2. /\ t \in TxnRec /\ EnvOK(e) /\ e.n = Top(a) /\ Top(a) \in Nat \ {0} /\ AtIn(e, t) \in [Pg -> Page]
      /\ TreeShape(AtIn(e, t), r)
  BY <1>1, FitsIs, AtInIs DEF Good
<1>3. Here(e, a, k) /\ Here(e, a, r)
  BY <1>1, HereIs
<1>4. a.mc[c].pg[1] = <<Top(a), r>> /\ a.mc[c].pg[2] = <<Top(a), k>>
  <2>1. Paths(e, t, n)
    BY <1>1, <1>2, PathIs
  <2> QED BY <1>1, <1>3, <2>1 DEF Paths, Here, Kids
<1>5. PageAt(a, <<Top(a), r>>) = AtIn(e, t)[r] /\ r \in Pg /\ k \in Pg /\ r \in DOMAIN t.dirty /\ k \in DOMAIN t.dirty
  BY <1>3 DEF Here
<1>6. /\ AtIn(e, t)[r] \in Page /\ Kids(e, t) = AtIn(e, t)[r].kid /\ page \in Page
      /\ page.kid = [Kids(e, t) EXCEPT ![n] = NoPg]
  <2>1. AtIn(e, t)[r] \in Page /\ Kids(e, t) = AtIn(e, t)[r].kid
    BY <1>2, <1>5 DEF Kids, KidOf
  <2>2. NoPg \in PgN
    BY PgIs
  <2> QED BY <1>1, <2>1, <2>2 DEF Page
<1>7. PageLoose(a, <<Top(a), k>>) = w
  BY <1>2, <1>5 DEF PageLoose, LoosenT
<1>8. Top(w) = Top(a)
  <2>1. Loosened(t, LoosenT(t, k), k)
    BY <1>2, <1>5, LoosenIs
  <2>2. LoosenT(t, k) \in TxnRec /\ LoosenT(t, k).head = t.head
    BY <2>1 DEF Loosened
  <2> QED BY <1>1, <2>2, FitsWithT
<1>9. Delete(a, c) = IF page # Blank THEN x
                     ELSE WithT(x, FreeT(T(x), T(x).free \cup {T(x).root}, NoPg))
  <2>1. [PageAt(a, a.mc[c].pg[1]) EXCEPT !.kid[a.mc[c].leaf] = NoPg] = page
    BY <1>4, <1>5
  <2>2. SetPage(PageLoose(a, a.mc[c].pg[2]), a.mc[c].pg[1], page) = u
    BY <1>4, <1>7, <1>8
  <2> HIDE DEF page, u
  <2>3. Delete(a, c) = IF page # Blank THEN x
                       ELSE WithT(x, [T(x) EXCEPT !.free = @ \cup {T(x).root}, !.root = NoPg])
    BY <2>1, <2>2 DEF Delete
  <2> HIDE DEF x
  <2> QED BY <2>3 DEF FreeT
<1> HIDE DEF page, w, u, x, C, k, r, t2
<1>10. Loosened(t, LoosenT(t, k), k)
  BY <1>2, <1>5, LoosenIs
<1>11. /\ LoosenT(t, k) \in TxnRec /\ LoosenT(t, k).head = t.head /\ LoosenT(t, k).bk = t.bk
       /\ DOMAIN LoosenT(t, k).dirty = DOMAIN t.dirty /\ Held(LoosenT(t, k)) = Held(t)
  BY <1>10 DEF Loosened, Held
<1>12. /\ Fits(b, e, w) /\ T(w) = LoosenT(t, k) /\ w.head = a.head /\ w.mc = a.mc /\ w.rc = a.rc
       /\ w.file = a.file /\ Along(a, w)
  BY <1>1, <1>11, FitsWithT DEF w
<1>13. /\ Fits(b, e, u) /\ Along(w, u) /\ T(u) = t2 /\ u.head = w.head
       /\ u.mc = w.mc /\ u.rc = w.rc
  <2>1. r \in DOMAIN T(w).dirty
    BY <1>5, <1>11, <1>12
  <2>2. T(u) = SetT(T(w), r, page)
    BY <1>6, <1>12, <2>1, PutPage DEF u
  <2>3. T(u) = t2
    BY <1>12, <2>2 DEF t2, UnkidT, r
  <2> QED BY <1>6, <1>12, <2>1, <2>3, PutPage DEF u
<1>14. Lost(b, e, u, C, x)
  BY <1>13, LoseIs DEF x
<1>15. /\ Fits(b, e, x) /\ Along(u, x) /\ T(x) = t2 /\ x.head = a.head /\ x.rc = "OK" /\ x.file = u.file
       /\ \A d \in Cursors : x.mc[d].init => d \notin C /\ x.mc[d] = a.mc[d]
  BY <1>1, <1>12, <1>13, <1>14 DEF Lost
<1>16. \A d \in Cursors : x.mc[d].init => a.mc[d].init /\ x.mc[d] = a.mc[d] /\ a.mc[d].leaf # n
  BY <1>12, <1>13, <1>15 DEF C, Tracked
<1>17. Unkidded(e, t, a.head, x.mc, n, k, t2)
  <2>1. k # NoPg /\ InMem(t, k) /\ InMem(t, t.root) /\ k = Kids(e, t)[n]
    BY DEF k
  <2>2. page = [AtIn(e, t)[t.root] EXCEPT !.kid[n] = NoPg]
    BY DEF page, r
  <2>3. t2 = UnkidT(t, k, page)
    BY DEF t2
  <2> QED BY <1>1, <1>2, <1>16, <2>1, <2>2, <2>3, UnkidIs
<1>18. /\ t2.root = r /\ t2.err = t.err /\ Good(e, t2, a.head, x.mc, {})
       /\ Kids(e, t2) = page.kid /\ Vals(e, t2) = V
  BY <1>6, <1>17 DEF Unkidded, r
<1>19. x.file = a.file
  BY <1>1, <1>15, FitsIs
<1>20. Along(a, x)
  <2>1. Along(a, u)
    BY <1>12, <1>13, AlongTrans
  <2> QED BY <1>15, <2>1, AlongTrans
<1>21. CASE page # Blank
  <2>1. z = x
    BY <1>9, <1>21
  <2>2. FileKept(a, x)
    BY <1>19 DEF FileKept
  <2> QED BY <1>15, <1>18, <1>20, <2>1, <2>2 DEF Did
<1>22. CASE page = Blank
  <2>1. z = WithT(x, FreeT(T(x), T(x).free \cup {T(x).root}, NoPg))
    BY <1>9, <1>22
  <2>2. page.kid = [y \in Leaf |-> NoPg]
    BY <1>22 DEF Blank
  <2>3. \A y \in Leaf : Kids(e, T(x))[y] = NoPg
    BY <1>15, <1>18, <2>2
  <2>4. T(x).root # NoPg /\ Good(e, T(x), x.head, x.mc, {})
    BY <1>15, <1>18 DEF r
  <2>5. /\ Fits(b, e, z) /\ Along(x, z) /\ z.rc = x.rc /\ z.file = x.file /\ T(z).err = T(x).err
        /\ Good(e, T(z), z.head, z.mc, {}) /\ Vals(e, T(z)) = Vals(e, T(x))
    <3>1. Fits(b, e, x)
      BY <1>15
    <3> QED BY ONLY <3>1, <2>1, <2>3, <2>4, EmptyIs
  <2>6. Along(a, z)
    BY <1>20, <2>5, AlongTrans
  <2>7. FileKept(a, z)
    BY <1>19, <2>5 DEF FileKept
  <2> QED BY <1>15, <1>18, <2>5, <2>6, <2>7 DEF Did
<1> QED BY <1>21, <1>22

\* mdb_cursor_del fails, or the tree has no value at the leaf.
LEMMA CursorDelIs ==
  ASSUME NEW b, NEW e, NEW s, NEW c, Ready(b, e, s, c), Kids(e, T(s))[s.mc[c].leaf] # NoPg
  PROVE  \E e2 : Did(b, e, e2, s, CursorDel(s, c), [Vals(e, T(s)) EXCEPT ![s.mc[c].leaf] = NoVal])
<1> DEFINE n == s.mc[c].leaf
           V == [Vals(e, T(s)) EXCEPT ![n] = NoVal]
           a0 == PageSpill(s, c)
           a1 == CursorTouch(a0, c)
           z == CursorDel(s, c)
<1>1. PICK e2 : Spilled(b, e, e2, s, c, a0)
  BY PageSpillIs
<1>2. /\ Fits(b, e2, a0) /\ Along(s, a0) /\ FileKept(s, a0) /\ a0.rc = "OK" /\ a0.mc = s.mc
      /\ T(a0).err = T(s).err /\ Vals(e2, T(a0)) = Vals(e, T(s)) /\ Ready(b, e2, a0, c)
      /\ Kids(e2, T(a0)) = Kids(e, T(s)) /\ T(a0).root = T(s).root
  BY <1>1 DEF Spilled, Ready
<1>3. z = IF a1.rc = "OK" THEN Delete(a1, c) ELSE a1
  BY <1>2 DEF CursorDel, Then, Delete
<1> HIDE DEF a0
<1>n. n \in Leaf /\ a0.mc[c].leaf = n
  BY <1>2 DEF Ready, Work
<1>4. T(a0).root # NoPg
  <2>1. T(a0) \in TxnRec /\ EnvOK(e2) /\ TreeShape(AtIn(e2, T(a0)), T(a0).root)
    BY <1>2, FitsIs DEF Ready, Good
  <2>2. AtIn(e2, T(a0)) \in [Pg -> Page]
    BY <2>1, AtInIs
  <2>3. Kids(e2, T(a0))[n] # NoPg
    BY <1>2
  <2> QED BY <1>n, <2>1, <2>2, <2>3, TreeIs DEF Kids
<1>5. Ours(b, e2, a0, c, a1)
  BY <1>2, <1>4, CursorTouchIs
<1> HIDE DEF a1
<1>6. CASE Bad(b, e2, a0, a1)
  <2>1. Fits(b, e2, a1) /\ Along(a0, a1) /\ a1.rc # "OK" /\ T(a1).err /\ Good(e2, T(a1), a1.head, a1.mc, {})
    BY <1>6 DEF Bad
  <2>2. a1.file = a0.file
    BY <1>2, <2>1, FitsIs
  <2>3. FileKept(s, a1)
    BY <1>2, <2>2 DEF FileKept
  <2>4. Along(s, a1)
    BY <1>2, <2>1, AlongTrans
  <2>5. Did(b, e, e2, s, a1, V)
    BY <2>1, <2>3, <2>4 DEF Did
  <2> QED BY <1>3, <2>1, <2>5
<1>7. CASE ~ Bad(b, e2, a0, a1)
  <2> DEFINE k == Kids(e2, T(a1))[n]
  <2>1. /\ Fine(b, e2, a0, c, a1) /\ Vals(e2, T(a1)) = Vals(e2, T(a0))
        /\ T(a1).root # NoPg /\ InMem(T(a1), T(a1).root)
        /\ k # NoPg => InMem(T(a1), k)
        /\ k # NoPg
    BY <1>2, <1>5, <1>7, <1>n DEF Ours
  <2>2. /\ Fits(b, e2, a1) /\ Along(a0, a1) /\ a1.rc = "OK" /\ T(a1).err = T(a0).err
        /\ a1.mc[c].leaf = n /\ Ready(b, e2, a1, c)
    BY <1>2, <1>n, <2>1 DEF Fine, Ready
  <2> DEFINE y == Delete(a1, c)
  <2>3. z = y
    BY <1>3, <2>2
  <2>4. Did(b, e2, e2, a1, y, [Vals(e2, T(a1)) EXCEPT ![n] = NoVal])
    BY <2>1, <2>2, DeleteIs
  <2> HIDE DEF y
  <2>5. /\ Fits(b, e2, y) /\ Along(a1, y) /\ Good(e2, T(y), y.head, y.mc, {})
        /\ \/ y.rc # "OK" /\ T(y).err
           \/ y.rc = "OK" /\ T(y).err = T(a1).err /\ Vals(e2, T(y)) = V
    BY <1>2, <2>1, <2>4 DEF Did
  <2>6. FileKept(s, y)
    <3>1. y.file = a0.file
      BY <1>2, <2>5, FitsIs
    <3> QED BY <1>2, <3>1 DEF FileKept
  <2>7. Along(s, y)
    <3>1. Along(s, a1)
      BY <1>2, <2>2, AlongTrans
    <3> QED BY <2>5, <3>1, AlongTrans
  <2>8. Did(b, e, e2, s, y, V)
    BY <1>2, <2>2, <2>5, <2>6, <2>7 DEF Did
  <2> QED BY <2>3, <2>8
<1> QED BY <1>6, <1>7

=============================================================================
