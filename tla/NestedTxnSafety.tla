-------------------------- MODULE NestedTxnSafety ---------------------------
(***************************************************************************)
(* Proofs about NestedTxn, for every value of the constants: the           *)
(* invariant of the stack of transactions, kept by their operations,       *)
(* begins, commits and aborts; the properties that it implies; and that    *)
(* the stack implements NestedStore.                                       *)
(***************************************************************************)
EXTENDS NestedTxnProof

-----------------------------------------------------------------------------
(***************************************************************************)
(* The whole stack: each transaction is good, in its environment.          *)
(***************************************************************************)

\* Changes of the file that transaction t does not see.
LEMMA GoodFile ==
  ASSUME NEW e, EnvOK(e), NEW e2, EnvOK(e2), SameEnv(e, e2), NEW t \in TxnRec, NEW head, NEW m,
         Good(e, t, head, m, {}), \A p \in Pages(e, t) : AtIn(e2, t)[p] = AtIn(e, t)[p]
  PROVE  Good(e2, t, head, m, {}) /\ Vals(e2, t) = Vals(e, t)
<1> DEFINE at == AtIn(e, t)
           at2 == AtIn(e2, t)
           r == t.root
<1>1. /\ at \in [Pg -> Page] /\ at2 \in [Pg -> Page] /\ TreeShape(at, r) /\ Mem(e, t, head)
      /\ RoomIn(e, t) /\ Parts(e, t, head, {}) /\ Curs(e, t, m)
  BY AtInIs DEF Good
<1>2. /\ e2.n = e.n /\ e2.get = e.get /\ e2.list = e.list /\ e2.spill = e.spill /\ e2.freed = e.freed
      /\ e2.recent = e.recent /\ e2.loose = e.loose /\ e2.cap = e.cap /\ e2.min = e.min
      /\ e2.reg = e.reg
  BY DEF SameEnv
<1>3. \A p \in PagesOf(at, r) : at2[p] = at[p]
  BY DEF Pages
<1>4. /\ KidOf(at2, r) = KidOf(at, r) /\ PagesOf(at2, r) = PagesOf(at, r)
      /\ ValOf(at2, r) = ValOf(at, r) /\ TreeShape(at2, r)
  BY <1>1, <1>3, Agree
<1> HIDE DEF at, at2
<1>5. \A p : GetIn(e2, t, p) = GetIn(e, t, p)
  BY <1>2 DEF GetIn
<1>6. \A n : Path(e2, t, n) = Path(e, t, n)
  BY <1>4, <1>5 DEF Path, PtrTo, at, at2, r
<1>7. Curs(e2, t, m)
  BY <1>1, <1>4, <1>6 DEF Curs, at, at2, r
<1>8. Mem(e2, t, head)
  BY <1>1, <1>2 DEF Mem
<1>9. RoomIn(e2, t)
  <2>1. ListIn(e2, t) = ListIn(e, t)
    BY <1>2 DEF ListIn
  <2> QED BY <1>1, <2>1 DEF RoomIn
<1>10. Parts(e2, t, head, {})
  BY <1>1, <1>2, <1>4 DEF Parts, at, at2, r
<1> QED BY <1>4, <1>7, <1>8, <1>9, <1>10 DEF Good, Vals, at, at2, r

EnvAt(b, s, l)  == EnvOf(b, s.file, s.txns, l)
ValsAt(b, s, l) == Vals(EnvAt(b, s, l), s.txns[l])

\* What All says of one transaction.
Level(b, s, l) ==
  /\ EnvOK(EnvAt(b, s, l)) /\ s.txns[l] \in TxnRec
  /\ Good(EnvAt(b, s, l), s.txns[l], HeadAt(s, l), McAt(s, l), {})

LEMMA AllIs ==
  ASSUME NEW b, NEW s \in StRec, All(b, s)
  PROVE  /\ \A l \in 1 .. Top(s) : Level(b, s, l)
         /\ Top(s) # 0 => /\ Fits(b, EnvAt(b, s, Top(s)), s)
                          /\ Good(EnvAt(b, s, Top(s)), T(s), s.head, s.mc, {})
         /\ Base(b, s.file) /\ b.next \in Nat
<1>1. /\ Base(b, s.file)
      /\ \A l \in 1 .. Top(s) :
           Good(EnvOf(b, s.file, s.txns, l), s.txns[l], HeadAt(s, l), McAt(s, l), {})
  BY DEF All
<1>2. b.next \in Nat
  BY <1>1, NestedAssumption DEF Base
<1>3. s.file \in [Pg -> Page] /\ s.txns \in Seq(TxnRec) /\ Top(s) = Len(s.txns) /\ Top(s) \in Nat
  BY StIs DEF Top
<1>4. \A l \in 1 .. Top(s) : Level(b, s, l)
  <2> SUFFICES ASSUME NEW l \in 1 .. Top(s) PROVE Level(b, s, l)
    OBVIOUS
  <2>1. ASSUME NEW i \in 1 .. l - 1
        PROVE  Mem(EnvOf(b, s.file, s.txns, i), s.txns[i], s.txns[i + 1].head)
    <3>1. i \in 1 .. Top(s) /\ i # Top(s)
      BY <1>3
    <3>2. Good(EnvOf(b, s.file, s.txns, i), s.txns[i], HeadAt(s, i), McAt(s, i), {})
      BY <1>1, <3>1
    <3> QED BY <3>1, <3>2 DEF Good, HeadAt
  <2>2. l \in 1 .. Len(s.txns)
    BY <1>3
  <2>3. EnvOK(EnvOf(b, s.file, s.txns, l))
    BY <1>2, <1>3, <2>1, <2>2, EnvIsOK
  <2>4. s.txns[l] \in TxnRec
    BY <1>3, <2>2
  <2> QED BY <1>1, <2>3, <2>4 DEF Level, EnvAt
<1>5. ASSUME Top(s) # 0
      PROVE  /\ Fits(b, EnvAt(b, s, Top(s)), s)
             /\ Good(EnvAt(b, s, Top(s)), T(s), s.head, s.mc, {})
  <2>1. Top(s) \in 1 .. Top(s) /\ Top(s) \in Nat \ {0}
    BY <1>3, <1>5
  <2>2. Level(b, s, Top(s))
    BY <1>4, <2>1
  <2> QED BY <2>1, <2>2 DEF Level, Fits, EnvAt, HeadAt, McAt, T
<1> QED BY <1>1, <1>2, <1>4, <1>5

\* A page that transaction l sees is in no later one's hands, but for copies of
\* what is in memory.
LEMMA SeenApart ==
  ASSUME NEW b, NEW s \in StRec, All(b, s), NEW l \in 1 .. Top(s) - 1,
         NEW p \in Pages(EnvAt(b, s, l), s.txns[l]), p \in Held(T(s)),
         p \notin SpillTo(s.txns, Top(s) - 1)
  PROVE  GetIn(EnvAt(b, s, l), s.txns[l], p) # <<0, p>>
<1> DEFINE N == Top(s)
           ts == s.txns
           e == EnvAt(b, s, l)
           t == ts[l]
<1>1. N \in Nat /\ N # 0 /\ l \in 1 .. N /\ l # N /\ N \in 1 .. N /\ N = Len(ts) /\ ts \in Seq(TxnRec)
      /\ s.file \in [Pg -> Page]
  BY StIs DEF Top
<1>2. Level(b, s, l) /\ Level(b, s, N) /\ \A i \in 1 .. N : Level(b, s, i)
  BY <1>1, AllIs
<1>3. Good(e, t, ts[l + 1].head, McAt(s, l), {}) /\ t \in TxnRec /\ EnvOK(e)
  BY <1>1, <1>2 DEF Level, HeadAt
<1>4. Split(Pages(e, t), ts[l + 1].head, e.freed, t.free, Range(t.loose), e.recent, {}, t.next)
  BY <1>3 DEF Good, Parts, Pages
<1>5. p \notin ts[l + 1].head /\ p \in 2 .. t.next - 1
  BY <1>4 DEF Split
<1>6. p \in EnvAt(b, s, N).reg
  BY <1>2 DEF Level, Good, Mem, T
<1>7. p \in Pg /\ \A j \in 0 .. N - 1 : \/ p \in HeadUnder(b, ts, j) \cup HeldTo(ts, j)
                                        \/ p >= NextAt(b, ts, j)
  BY <1>6 DEF EnvAt, EnvOf
<1>8. p \in HeadUnder(b, ts, l) \cup HeldTo(ts, l) \/ p >= NextAt(b, ts, l)
  <2>1. l \in 0 .. N - 1
    BY <1>1
  <2> QED BY <1>7, <2>1
<1>9. HeadUnder(b, ts, l) = ts[l + 1].head /\ NextAt(b, ts, l) = t.next
  BY <1>1 DEF HeadUnder, NextAt
<1>10. p \in HeldTo(ts, l)
  <2>1. t.next \in Nat /\ p \in Nat
    BY <1>3, <1>7, TxnIs, PgIs
  <2>2. ~ (p >= t.next)
    BY <1>5, <2>1
  <2> QED BY <1>5, <1>8, <1>9, <2>2
<1>11. PICK i \in 1 .. l : p \in Held(ts[i])
  BY <1>10 DEF HeldTo
<1>12. \A j \in 1 .. N - 1 : p \notin ts[j].spill
  BY DEF SpillTo
<1>13. \A j \in 1 .. l : p \notin ts[j].spill
  BY <1>1, <1>12
<1>14. p \in DOMAIN ts[i].dirty
  BY <1>11, <1>13 DEF Held
<1>15. p \in ListAt(ts, l)
  <2>1. \A j \in i + 1 .. l : j \in 1 .. l
    OBVIOUS
  <2> QED BY <1>7, <1>13, <1>14, <2>1 DEF ListAt
<1>16. PageGet(ts, l, p) # <<0, p>>
  <2>1. \A j \in 1 .. l : DOMAIN ts[j].dirty \cap ts[j].spill = {}
    <3> SUFFICES ASSUME NEW j \in 1 .. l PROVE DOMAIN ts[j].dirty \cap ts[j].spill = {}
      OBVIOUS
    <3>1. j \in 1 .. N
      BY <1>1
    <3>2. Level(b, s, j)
      BY <1>2, <3>1
    <3> QED BY <3>2 DEF Level, Good, Mem
  <2>2. l \in Nat
    OBVIOUS
  <2> QED BY <1>7, <1>15, <2>1, <2>2, GetList
<1>17. PageGet(ts, l, p) = GetIn(e, t, p)
  <2>1. l \in 1 .. Len(ts)
    BY <1>1
  <2> QED BY <1>1, <1>7, <2>1, InEnv DEF EnvAt
<1> QED BY <1>16, <1>17

-----------------------------------------------------------------------------
(***************************************************************************)
(* An operation of the last transaction, in the stack.                     *)
(***************************************************************************)

\* Nothing but the last transaction's data changed.
Lifted(b, s, a) ==
  /\ All(b, a) /\ Top(a) = Top(s) /\ ValOf(a.file, b.root) = ValOf(s.file, b.root)
  /\ \A l \in 1 .. Top(s) - 1 : a.txns[l] = s.txns[l] /\ ValsAt(b, a, l) = ValsAt(b, s, l)

\* The pages of the last snapshot are not in the hands of a transaction.
LEMMA BaseKept ==
  ASSUME NEW b, NEW s \in StRec, All(b, s), Top(s) # 0, NEW p \in PagesOf(s.file, b.root)
  PROVE  p \notin Held(T(s))
<1> SUFFICES ASSUME p \in Held(T(s)) PROVE FALSE
  OBVIOUS
<1> DEFINE N == Top(s)
<1>1. N \in 1 .. N /\ N \in Nat /\ T(s) = s.txns[N] /\ 0 \in 0 .. N - 1
  BY StIs DEF T
<1>2. Level(b, s, N) /\ Base(b, s.file)
  BY <1>1, AllIs
<1>3. p \in EnvAt(b, s, N).reg
  BY <1>1, <1>2 DEF Level, Good, Mem
<1>4. p \in Pg /\ \A j \in 0 .. N - 1 : \/ p \in HeadUnder(b, s.txns, j) \cup HeldTo(s.txns, j)
                                        \/ p >= NextAt(b, s.txns, j)
  BY <1>3 DEF EnvAt, EnvOf
<1>5. HeldTo(s.txns, 0) = {} /\ HeadUnder(b, s.txns, 0) = b.old /\ NextAt(b, s.txns, 0) = b.next
  BY DEF HeldTo, HeadUnder, NextAt
<1>6. p \in b.old \/ p >= b.next
  BY <1>1, <1>4, <1>5
<1>7. Split(PagesOf(s.file, b.root), b.old, {}, {}, {}, b.recent, {}, b.next)
  BY <1>2 DEF Base
<1>8. p \notin b.old /\ p \in 2 .. b.next - 1
  BY <1>7 DEF Split
<1>9. b.next \in Nat
  BY AllIs
<1> QED BY <1>6, <1>8, <1>9

\* What an operation keeps of its own transaction holds of the whole stack.
LEMMA LiftIs ==
  ASSUME NEW b, NEW s \in StRec, All(b, s), Top(s) # 0, NEW e2, NEW a, Fits(b, e2, a),
         Along(s, a), FileKept(s, a), Good(e2, T(a), a.head, a.mc, {})
  PROVE  Lifted(b, s, a)
<1> DEFINE N == Top(s)
<1>1. /\ a \in StRec /\ Top(a) = N /\ e2 = EnvOf(b, a.file, a.txns, N) /\ EnvOK(e2)
      /\ \A i \in 1 .. N - 1 : a.txns[i] = s.txns[i]
      /\ T(a).head = T(s).head /\ T(a).bk = T(s).bk
  BY DEF Fits, Along
<1>2. /\ a.file \in [Pg -> Page] /\ s.file \in [Pg -> Page] /\ N \in Nat /\ N > 0
      /\ s.txns \in Seq(TxnRec) /\ a.txns \in Seq(TxnRec) /\ Len(s.txns) = N /\ Len(a.txns) = N
      /\ T(s) = s.txns[N] /\ T(a) = a.txns[N]
  BY <1>1, StIs DEF Top, T
<1>3. /\ \A l \in 1 .. N : Level(b, s, l)
      /\ Base(b, s.file) /\ b.next \in Nat
  BY AllIs
<1>4. Base(b, a.file) /\ ValOf(a.file, b.root) = ValOf(s.file, b.root)
  <2> DEFINE P == PagesOf(s.file, b.root)
  <2>1. /\ TreeShape(s.file, b.root) /\ b.next \in 2 .. MaxPg
        /\ Split(P, b.old, {}, {}, {}, b.recent, {}, b.next)
    BY <1>3 DEF Base
  <2>2. ASSUME NEW p \in P PROVE a.file[p] = s.file[p]
    <3>1. p \in Pg
      BY <1>2, <2>1, TreeIs
    <3>2. p \notin Held(T(s))
      BY BaseKept
    <3> QED BY <3>1, <3>2 DEF FileKept
  <2>3. /\ PagesOf(a.file, b.root) = P /\ TreeShape(a.file, b.root)
        /\ ValOf(a.file, b.root) = ValOf(s.file, b.root)
    BY <1>2, <2>1, <2>2, Agree
  <2> HIDE DEF P
  <2> QED BY <2>1, <2>3 DEF Base
<1>5. ASSUME NEW l \in 1 .. N - 1
      PROVE  /\ Good(EnvAt(b, a, l), a.txns[l], HeadAt(a, l), McAt(a, l), {})
             /\ ValsAt(b, a, l) = ValsAt(b, s, l)
  <2> DEFINE t == s.txns[l]
             e == EnvAt(b, s, l)
             f == EnvAt(b, a, l)
             h == EnvOf(b, s.file, a.txns, l)
  <2>1. l \in 1 .. N /\ l # N /\ l \in Nat /\ l > 0 /\ a.txns[l] = t /\ l + 1 \in 1 .. N
    BY <1>1, <1>2
  <2>2. a.txns[l + 1].head = s.txns[l + 1].head /\ a.txns[l + 1].bk = s.txns[l + 1].bk
    <3>1. CASE l + 1 = N
      BY <1>1, <1>2, <3>1
    <3>2. CASE l + 1 # N
      <4>1. l + 1 \in 1 .. N - 1
        BY <1>2, <3>2
      <4> QED BY <1>1, <4>1
    <3> QED BY <3>1, <3>2
  <2>3. HeadAt(a, l) = HeadAt(s, l) /\ McAt(a, l) = McAt(s, l)
    BY <1>1, <2>1, <2>2 DEF HeadAt, McAt
  <2>4. h = e
    <3>1. \A i \in 1 .. l - 1 : a.txns[i] = s.txns[i]
      <4>1. \A i \in 1 .. l - 1 : i \in 1 .. N - 1
        BY <1>2
      <4> QED BY <1>1, <4>1
    <3> QED BY <2>1, <3>1, EnvSame DEF EnvAt
  <2>5. SameEnv(e, f) /\ f.file = a.file
    BY <2>1, <2>4, EnvFile DEF EnvAt
  <2>6. EnvOK(e) /\ t \in TxnRec /\ Good(e, t, HeadAt(s, l), McAt(s, l), {})
    BY <1>3, <2>1 DEF Level
  <2>7. EnvOK(f)
    <3>1. f.at = [p \in Pg |-> f.at[p]]
      BY DEF EnvAt, EnvOf, AtOf
    <3> HIDE DEF e, f
    <3> QED BY <1>2, <2>5, <2>6, <3>1, EnvFileOK
  <2>8. e.file = s.file
    BY DEF EnvAt, EnvOf
  <2>9. Pages(e, t) \subseteq Pg
    <3>1. AtIn(e, t) \in [Pg -> Page] /\ TreeShape(AtIn(e, t), t.root)
      BY <2>6, AtInIs DEF Good
    <3> HIDE DEF e, t
    <3> QED BY <3>1, TreeIs DEF Pages
  <2>10. ASSUME NEW p \in Pages(e, t) PROVE AtIn(f, t)[p] = AtIn(e, t)[p]
    <3>1. p \in Pg
      BY <2>9
    <3>2. f.get = e.get /\ f.at[p] = IF e.get[p] = <<0, p>> THEN f.file[p] ELSE e.at[p]
      BY <2>5, <3>1 DEF SameEnv
    <3>3. e.get[p] = <<0, p>> => e.at[p] = e.file[p]
      BY <2>6, <3>1 DEF EnvOK
    <3>4. CASE a.file[p] = s.file[p]
      <4>1. f.file[p] = e.file[p]
        BY <2>5, <2>8, <3>4
      <4> HIDE DEF e, f, t
      <4>2. f.at[p] = e.at[p]
        BY <3>2, <3>3, <4>1
      <4> QED BY <3>1, <4>1, <4>2 DEF AtIn
    <3>5. CASE a.file[p] # s.file[p]
      <4>1. p \in Held(T(s)) /\ p \notin SpillTo(s.txns, N - 1)
        BY <3>1, <3>5 DEF FileKept
      <4>2. GetIn(e, t, p) # <<0, p>>
        BY <4>1, SeenApart
      <4> HIDE DEF e, f, t
      <4>3. p \notin t.spill /\ (p \in DOMAIN t.dirty \/ e.get[p] # <<0, p>>)
        BY <4>2 DEF GetIn
      <4>4. p \notin DOMAIN t.dirty => f.at[p] = e.at[p]
        BY <3>2, <4>3
      <4> QED BY <3>1, <4>3, <4>4 DEF AtIn
    <3> QED BY <3>4, <3>5
  <2> HIDE DEF e, f, t
  <2>11. Good(f, t, HeadAt(s, l), McAt(s, l), {}) /\ Vals(f, t) = Vals(e, t)
    BY <2>5, <2>6, <2>7, <2>10, GoodFile
  <2> QED BY <2>1, <2>3, <2>11 DEF ValsAt, e, f, t
<1>6. Good(EnvAt(b, a, N), a.txns[N], HeadAt(a, N), McAt(a, N), {})
  BY <1>1, <1>2 DEF EnvAt, HeadAt, McAt
<1>7. All(b, a)
  <2>1. \A l \in 1 .. N : l = N \/ l \in 1 .. N - 1
    BY <1>2
  <2>2. \A l \in 1 .. N : Good(EnvAt(b, a, l), a.txns[l], HeadAt(a, l), McAt(a, l), {})
    BY <1>5, <1>6, <2>1
  <2>3. a.txns # <<>>
    BY <1>2
  <2> QED BY <1>1, <1>4, <2>2, <2>3 DEF All, EnvAt
<1> QED BY <1>1, <1>4, <1>5, <1>7 DEF Lifted

-----------------------------------------------------------------------------
(***************************************************************************)
(* The states of the specification, and the operations as its actions.     *)
(***************************************************************************)

DbRec == [file : [Pg -> Page], root : PgN, next : Nat, head : SUBSET Pg, old : SUBSET Pg,
          recent : SUBSET Pg, begun : Nat]
TypeOK == db \in DbRec /\ txns \in Seq(TxnRec) /\ mc \in [Cursors -> CurRec]

\* What All says depends on.
SameBase(b, b2) == b2.next = b.next /\ b2.root = b.root /\ b2.old = b.old /\ b2.recent = b.recent
\* Cursors of m may be lost in m2, or be another transaction's.
Fewer(m, m2) == \A c \in Cursors : m2[c].init => /\ m[c].init /\ m2[c].leaf = m[c].leaf
                                                  /\ m2[c].pg = m[c].pg
Close(s, s2) == /\ s2.file = s.file /\ s2.txns = s.txns /\ s2.head = s.head
                /\ Fewer(s.mc, s2.mc)

LEMMA EnvBase ==
  ASSUME NEW b, NEW b2, SameBase(b, b2), NEW file, NEW ts, NEW l
  PROVE  EnvOf(b2, file, ts, l) = EnvOf(b, file, ts, l)
<1>1. /\ \A j : HeadUnder(b2, ts, j) = HeadUnder(b, ts, j) /\ NextAt(b2, ts, j) = NextAt(b, ts, j)
      /\ b2.recent = b.recent
  BY DEF HeadUnder, NextAt, SameBase
<1>2. /\ {p \in Pg : \A j \in 0 .. l - 1 : p \in HeadUnder(b2, ts, j)}
         = {p \in Pg : \A j \in 0 .. l - 1 : p \in HeadUnder(b, ts, j)}
      /\ {p \in Nat : \A j \in 0 .. l - 1 : NextAt(b2, ts, j) <= p}
         = {p \in Nat : \A j \in 0 .. l - 1 : NextAt(b, ts, j) <= p}
  BY <1>1
<1>3. {p \in Pg : \A j \in 0 .. l - 1 : \/ p \in HeadUnder(b2, ts, j) \cup HeldTo(ts, j)
                                        \/ p >= NextAt(b2, ts, j)}
    = {p \in Pg : \A j \in 0 .. l - 1 : \/ p \in HeadUnder(b, ts, j) \cup HeldTo(ts, j)
                                        \/ p >= NextAt(b, ts, j)}
  BY <1>1
<1> QED BY <1>1, <1>2, <1>3 DEF EnvOf

LEMMA GoodFewer ==
  ASSUME NEW e, NEW t, NEW head, NEW m, Good(e, t, head, m, {}),
         NEW m2, Fewer(m, m2)
  PROVE  Good(e, t, head, m2, {})
<1>1. Curs(e, t, m)
  BY DEF Good
<1>2. Curs(e, t, m2)
  BY <1>1 DEF Curs, Fewer
<1> QED BY <1>2 DEF Good

LEMMA AllClose ==
  ASSUME NEW b, NEW s, All(b, s), NEW b2, SameBase(b, b2), NEW s2, Close(s, s2)
  PROVE  /\ All(b2, s2) /\ Top(s2) = Top(s) /\ ValOf(s2.file, b2.root) = ValOf(s.file, b.root)
         /\ \A l : ValsAt(b2, s2, l) = ValsAt(b, s, l)
<1>1. /\ s2.file = s.file /\ s2.txns = s.txns /\ s2.head = s.head /\ Top(s2) = Top(s)
      /\ Fewer(s.mc, s2.mc)
  BY DEF Close, Top
<1>2. \A l : EnvAt(b2, s2, l) = EnvAt(b, s, l)
  BY <1>1, EnvBase DEF EnvAt
<1>3. ASSUME NEW l \in 1 .. Top(s)
      PROVE  Good(EnvOf(b2, s2.file, s2.txns, l), s2.txns[l], HeadAt(s2, l), McAt(s2, l), {})
  <2>1. Good(EnvAt(b, s, l), s.txns[l], HeadAt(s, l), McAt(s, l), {})
    BY DEF All, EnvAt
  <2>2. HeadAt(s2, l) = HeadAt(s, l)
    BY <1>1 DEF HeadAt
  <2>3. Fewer(McAt(s, l), McAt(s2, l))
    BY <1>1 DEF McAt, Fewer
  <2>4. Good(EnvAt(b, s, l), s.txns[l], HeadAt(s, l), McAt(s2, l), {})
    BY <2>1, <2>3, GoodFewer
  <2> QED BY <1>1, <1>2, <2>2, <2>4 DEF EnvAt
<1>4. Base(b2, s2.file)
  BY <1>1 DEF All, Base, SameBase
<1>5. All(b2, s2)
  BY <1>1, <1>3, <1>4 DEF All
<1>6. \A l : ValsAt(b2, s2, l) = ValsAt(b, s, l)
  BY <1>1, <1>2 DEF ValsAt
<1>7. ValOf(s2.file, b2.root) = ValOf(s.file, b.root)
  BY <1>1 DEF SameBase
<1> QED BY <1>1, <1>5, <1>6, <1>7

LEMMA NowIs ==
  ASSUME TypeOK
  PROVE  /\ Now \in StRec /\ Now.file = db.file /\ Now.head = db.head /\ Now.txns = txns
         /\ Now.rc = "OK" /\ Now.np = NoPg /\ Top(Now) = Len(txns)
         /\ \A c \in Cursors : Now.mc[c] = mc[c]
<1> DEFINE D == Cursors \cup {Local}
           m == [c \in D |-> IF c = Local THEN Cursor0 ELSE mc[c]]
<1>1. Local \notin Cursors
  BY NestedAssumption DEF Local
<1>2. m \in [D -> CurRec] /\ \A c \in Cursors : m[c] = mc[c]
  BY <1>1, Cursor0Is DEF TypeOK
<1>3. Now = [file |-> db.file, head |-> db.head, txns |-> txns, rc |-> "OK", np |-> NoPg, mc |-> m]
  BY DEF Now
<1> HIDE DEF m
<1>4. /\ Now.file = db.file /\ Now.head = db.head /\ Now.txns = txns
      /\ Now.rc = "OK" /\ Now.np = NoPg /\ Now.mc = m
  BY <1>3
<1>5. db.file \in [Pg -> Page] /\ db.head \in SUBSET Pg /\ txns \in Seq(TxnRec)
  BY DEF TypeOK, DbRec
<1>6. "OK" \in Rcs /\ NoPg \in Nat
  BY DEF Rcs, NoPg
<1>7. Now \in StRec
  BY <1>2, <1>3, <1>5, <1>6 DEF StRec
<1> QED BY <1>2, <1>4, <1>7 DEF Top

LEMMA BecomesIs ==
  ASSUME TypeOK, NEW a \in StRec, Becomes(a)
  PROVE  /\ TypeOK' /\ SameBase(db, db') /\ Close(a, Now') /\ txns' = a.txns
         /\ db'.begun = db.begun /\ db'.file = a.file
         /\ \A c \in Cursors : mc'[c] = a.mc[c]
<1>1. /\ db' = [db EXCEPT !.file = a.file, !.head = a.head] /\ txns' = a.txns
      /\ mc' = [c \in Cursors |-> a.mc[c]]
  BY DEF Becomes
<1>2. /\ a.file \in [Pg -> Page] /\ a.head \in SUBSET Pg /\ a.txns \in Seq(TxnRec)
      /\ a.mc \in [Cursors \cup {Local} -> CurRec]
  BY StIs
<1>3. mc' \in [Cursors -> CurRec] /\ \A c \in Cursors : mc'[c] = a.mc[c]
  BY <1>1, <1>2
<1>4. /\ db' \in DbRec /\ db'.file = a.file /\ db'.head = a.head /\ db'.root = db.root
      /\ db'.next = db.next /\ db'.old = db.old /\ db'.recent = db.recent /\ db'.begun = db.begun
  BY <1>1, <1>2 DEF TypeOK, DbRec
<1>5. TypeOK'
  BY <1>1, <1>2, <1>3, <1>4 DEF TypeOK
<1>6. /\ Now'.file = db'.file /\ Now'.head = db'.head /\ Now'.txns = txns'
      /\ \A c \in Cursors : Now'.mc[c] = mc'[c]
  <2>1. Local \notin Cursors
    BY NestedAssumption DEF Local
  <2> QED BY <2>1 DEF Now
<1>7. Fewer(a.mc, Now'.mc)
  BY <1>3, <1>6 DEF Fewer
<1> QED BY <1>1, <1>3, <1>4, <1>5, <1>6, <1>7 DEF SameBase, Close

\* After an operation that leaves a.
LEMMA AllBecomes ==
  ASSUME TypeOK, NEW a \in StRec, Becomes(a), All(db, a)
  PROVE  /\ TypeOK' /\ IInv' /\ txns' = a.txns /\ Top(a) = Len(txns')
         /\ ValOf(db'.file, db'.root) = ValOf(a.file, db.root)
         /\ \A l : ValsAt(db', Now', l) = ValsAt(db, a, l)
<1>1. /\ TypeOK' /\ SameBase(db, db') /\ Close(a, Now') /\ txns' = a.txns /\ db'.file = a.file
  BY BecomesIs
<1>2. /\ All(db', Now') /\ Top(Now') = Top(a) /\ \A l : ValsAt(db', Now', l) = ValsAt(db, a, l)
  BY <1>1, AllClose
<1>3. IInv'
  BY <1>2 DEF IInv
<1>4. ValOf(db'.file, db'.root) = ValOf(a.file, db.root)
  BY <1>1 DEF SameBase
<1> QED BY <1>1, <1>2, <1>3, <1>4 DEF Top

-----------------------------------------------------------------------------
(***************************************************************************)
(* mdb_txn_abort: the parent and its cursors are as they were.             *)
(***************************************************************************)

LEMMA FrontIs ==
  ASSUME NEW S, NEW q \in Seq(S), Len(q) # 0
  PROVE  /\ Front(q) \in Seq(S) /\ Len(Front(q)) = Len(q) - 1
         /\ \A i \in 1 .. Len(q) - 1 : Front(q)[i] = q[i]
<1> DEFINE n == Len(q) - 1
<1>1. n \in Nat /\ n <= Len(q) /\ Front(q) = SubSeq(q, 1, n)
  BY DEF Front
<1>2. \A i \in 1 .. n : q[i] \in S
  OBVIOUS
<1>3. /\ Front(q) \in Seq(S) /\ Len(Front(q)) = IF 1 <= n THEN n - 1 + 1 ELSE 0
      /\ \A i \in 1 .. n - 1 + 1 : Front(q)[i] = q[1 + i - 1]
  BY <1>1, <1>2, SubSeqProperties
<1>4. n - 1 + 1 = n /\ \A i \in 1 .. n : 1 + i - 1 = i
  BY <1>1
<1> HIDE DEF n
<1>5. Len(Front(q)) = n /\ \A i \in 1 .. n : Front(q)[i] = q[i]
  BY <1>1, <1>3, <1>4
<1> QED BY <1>3, <1>5 DEF n

LEMMA ClosedIs ==
  ASSUME NEW s \in StRec, NEW f, \A c \in Cursors \cup {Local} : f[c] \in CurRec,
         NEW a, a = CursorsClosed(s, f)
  PROVE  /\ a \in StRec /\ a.file = s.file /\ a.head = s.head /\ a.txns = s.txns /\ a.rc = s.rc
         /\ a.np = s.np
         /\ \A c \in Cursors \cup {Local} :
              a.mc[c] = IF s.mc[c].of = Top(s) THEN Cursor0 ELSE f[c]
<1> DEFINE D == Cursors \cup {Local}
           m == [c \in D |-> IF s.mc[c].of = Top(s) THEN Cursor0 ELSE f[c]]
<1>1. s.mc \in [D -> CurRec]
  BY StIs
<1>2. a = [s EXCEPT !.mc = m]
  BY <1>1 DEF CursorsClosed
<1>3. m \in [D -> CurRec] /\ \A c \in D : m[c] = IF s.mc[c].of = Top(s) THEN Cursor0 ELSE f[c]
  BY Cursor0Is
<1> HIDE DEF m
<1>4. /\ a \in StRec /\ a.file = s.file /\ a.head = s.head /\ a.txns = s.txns /\ a.rc = s.rc
      /\ a.np = s.np /\ a.mc = m
  BY <1>2, <1>3 DEF StRec
<1> QED BY <1>3, <1>4

\* The transactions of ts but the last one, in us.
LEMMA PopEnv ==
  ASSUME NEW b, NEW s, NEW a, a.file = s.file, NEW n \in Nat,
         \A i \in 1 .. n : a.txns[i] = s.txns[i], NEW l \in 1 .. n
  PROVE  EnvAt(b, a, l) = EnvAt(b, s, l) /\ ValsAt(b, a, l) = ValsAt(b, s, l)
<1>1. l \in Nat /\ l > 0 /\ a.txns[l] = s.txns[l] /\ \A i \in 1 .. l - 1 : a.txns[i] = s.txns[i]
  OBVIOUS
<1>2. EnvOf(b, s.file, a.txns, l) = EnvOf(b, s.file, s.txns, l)
  BY <1>1, EnvSame
<1> QED BY <1>1, <1>2 DEF EnvAt, ValsAt

\* The last transaction is gone; its parent is as it was.
Popped(b, s, a) ==
  /\ a \in StRec /\ All(b, a) /\ Top(a) = Top(s) - 1 /\ a.file = s.file /\ a.rc = s.rc
  /\ Top(s) = 1 => \A c \in Cursors : ~a.mc[c].init
  /\ \A l \in 1 .. Top(s) - 1 : a.txns[l] = s.txns[l] /\ ValsAt(b, a, l) = ValsAt(b, s, l)

LEMMA AbortTopIs ==
  ASSUME NEW b, NEW s \in StRec, All(b, s), Top(s) = 1, NEW a, a = AbortOne(s)
  PROVE  Popped(b, s, a)
<1> DEFINE f == [c \in DOMAIN s.mc |-> Cursor0]
           h == [s EXCEPT !.head = {}]
           x == CursorsClosed(h, f)
<1>1. a = [x EXCEPT !.txns = <<>>]
  BY DEF AbortOne
<1>2. DOMAIN s.mc = Cursors \cup {Local}
  BY StIs
<1>3. \A c \in Cursors \cup {Local} : f[c] \in CurRec
  BY <1>2, Cursor0Is
<1>4. h \in StRec /\ h.file = s.file /\ h.rc = s.rc /\ h.head = {}
  BY DEF StRec
<1>f. \A c \in Cursors \cup {Local} : f[c] = Cursor0
  BY <1>2
<1> HIDE DEF h, f
<1>5. /\ x \in StRec /\ x.file = s.file /\ x.rc = s.rc /\ x.head = {}
      /\ \A c \in Cursors \cup {Local} : x.mc[c] = IF h.mc[c].of = Top(h) THEN Cursor0 ELSE f[c]
  BY <1>3, <1>4, ClosedIs
<1>x. \A c \in Cursors : ~x.mc[c].init
  BY <1>5, <1>f, Cursor0Is
<1> HIDE DEF x
<1>6. <<>> \in Seq(TxnRec) /\ Len(<<>>) = 0
  OBVIOUS
<1>7. a \in StRec /\ a.file = s.file /\ a.rc = s.rc /\ a.head = {} /\ a.txns = <<>>
      /\ a.mc = x.mc
  BY <1>1, <1>5, <1>6 DEF StRec
<1>8. Top(a) = 0
  BY <1>7 DEF Top
<1>9. All(b, a)
  BY <1>7, <1>8 DEF All
<1> QED BY <1>7, <1>8, <1>9, <1>x DEF Popped

LEMMA AbortKidIs ==
  ASSUME NEW b, NEW s \in StRec, All(b, s), Top(s) > 1, NEW a, a = AbortOne(s)
  PROVE  Popped(b, s, a)
<1> DEFINE N == Top(s)
           t == T(s)
           f == [c \in DOMAIN s.mc |-> IF c = Local THEN Cursor0 ELSE t.bk[c]]
           h == [s EXCEPT !.head = t.head]
           x == CursorsClosed(h, f)
           us == Front(x.txns)
<1>1. /\ N \in Nat /\ N # 0 /\ N # 1 /\ t \in TxnRec /\ t = s.txns[N] /\ Len(s.txns) = N
      /\ s.txns \in Seq(TxnRec) /\ DOMAIN s.mc = Cursors \cup {Local}
  BY StIs DEF Top, T
<1>2. a = [x EXCEPT !.txns = us]
  BY <1>1 DEF AbortOne, Restored
<1>3. t.head \in SUBSET Pg /\ t.bk \in [Cursors -> CurRec]
  BY <1>1, TxnIs
<1>4. Local \notin Cursors
  BY NestedAssumption DEF Local
<1>5. /\ \A c \in Cursors \cup {Local} : f[c] \in CurRec
      /\ \A c \in Cursors : f[c] = t.bk[c]
  BY <1>1, <1>3, <1>4, Cursor0Is
<1>6. /\ h \in StRec /\ h.file = s.file /\ h.rc = s.rc /\ h.head = t.head /\ h.txns = s.txns
      /\ h.mc = s.mc
  BY <1>3 DEF StRec
<1> HIDE DEF h, f, t
<1>7. /\ x \in StRec /\ x.file = s.file /\ x.rc = s.rc /\ x.head = t.head /\ x.txns = s.txns
      /\ \A c \in Cursors \cup {Local} : x.mc[c] = IF h.mc[c].of = Top(h) THEN Cursor0 ELSE f[c]
  BY <1>5, <1>6, ClosedIs
<1>8. Fewer(t.bk, x.mc)
  BY <1>5, <1>7, Cursor0Is DEF Fewer
<1> HIDE DEF x
<1>9. us \in Seq(TxnRec) /\ Len(us) = N - 1 /\ \A i \in 1 .. N - 1 : us[i] = s.txns[i]
  BY <1>1, <1>7, FrontIs
<1> HIDE DEF us
<1>10. /\ a \in StRec /\ a.file = s.file /\ a.rc = s.rc /\ a.head = t.head /\ a.txns = us /\ a.mc = x.mc
  BY <1>2, <1>7, <1>9 DEF StRec
<1>11. Top(a) = N - 1 /\ \A i \in 1 .. N - 1 : a.txns[i] = s.txns[i]
  BY <1>9, <1>10 DEF Top
<1>12. \A l \in 1 .. N - 1 : EnvAt(b, a, l) = EnvAt(b, s, l) /\ ValsAt(b, a, l) = ValsAt(b, s, l)
  <2>1. N - 1 \in Nat
    BY <1>1
  <2> QED BY <1>10, <1>11, <2>1, PopEnv
<1>13. ASSUME NEW l \in 1 .. N - 1
       PROVE  Good(EnvOf(b, a.file, a.txns, l), a.txns[l], HeadAt(a, l), McAt(a, l), {})
  <2>1. l \in 1 .. N /\ l # N
    BY <1>1
  <2>2. Good(EnvAt(b, s, l), s.txns[l], s.txns[l + 1].head, s.txns[l + 1].bk, {})
    BY <2>1 DEF All, EnvAt, HeadAt, McAt
  <2>3. CASE l = N - 1
    <3>1. l + 1 = N
      BY <1>1, <2>3
    <3>2. Good(EnvAt(b, s, l), s.txns[l], t.head, t.bk, {})
      BY <1>1, <2>2, <3>1
    <3>3. Good(EnvAt(b, s, l), s.txns[l], t.head, a.mc, {})
      BY <1>8, <1>10, <3>2, GoodFewer
    <3>4. HeadAt(a, l) = t.head /\ McAt(a, l) = a.mc
      BY <1>10, <1>11, <2>3 DEF HeadAt, McAt
    <3> QED BY <1>11, <1>12, <3>3, <3>4 DEF EnvAt
  <2>4. CASE l # N - 1
    <3>1. l + 1 \in 1 .. N - 1 /\ l # Top(a)
      BY <1>1, <1>11, <2>4
    <3>2. HeadAt(a, l) = s.txns[l + 1].head /\ McAt(a, l) = s.txns[l + 1].bk
      BY <1>11, <3>1 DEF HeadAt, McAt
    <3> QED BY <1>11, <1>12, <2>2, <3>2 DEF EnvAt
  <2> QED BY <2>3, <2>4
<1>14. a.txns # <<>>
  BY <1>1, <1>9, <1>10
<1>15. Base(b, a.file)
  BY <1>10 DEF All
<1>16. All(b, a)
  BY <1>11, <1>13, <1>14, <1>15 DEF All
<1> QED BY <1>10, <1>11, <1>12, <1>16 DEF Popped

\* The parent continues with its backup of the cursors and its own dirty list.
LEMMA AbortOneIs ==
  ASSUME NEW b, NEW s \in StRec, All(b, s), Top(s) # 0
  PROVE  Popped(b, s, AbortOne(s))
<1>1. Top(s) \in Nat
  BY StIs
<1>2. Top(s) = 1 \/ Top(s) > 1
  BY <1>1
<1> QED BY <1>2, AbortTopIs, AbortKidIs

-----------------------------------------------------------------------------
(***************************************************************************)
(* _mdb_txn_commit of a child: the lists of the two transactions become    *)
(* one.                                                                    *)
(***************************************************************************)

\* e2 is the environment of the transaction above p, which began with the free pages head.
Above(e, p, head, e2) ==
  /\ e2.n = e.n + 1 /\ e2.file = e.file /\ e2.recent = e.recent
  /\ \A q \in Pg : e2.get[q] = GetIn(e, p, q) /\ e2.at[q] = AtIn(e, p)[q]
  /\ e2.list = ListIn(e, p)
  /\ e2.freed = e.freed \cup p.free \cup Range(p.loose)
  /\ e2.loose = e.loose \cup Range(p.loose)
  /\ e2.cap = e.cap \cap head
  /\ \A m : m \in e2.min <=> m \in e.min /\ p.next <= m
  /\ e2.reg \subseteq e.reg

LEMMA AboveIs ==
  ASSUME NEW b, NEW file, NEW ts \in Seq(TxnRec), NEW l \in 1 .. Len(ts) - 1,
         NEW e, e = EnvOf(b, file, ts, l), NEW e2, e2 = EnvOf(b, file, ts, l + 1),
         DOMAIN ts[l].dirty \cap ts[l].spill = {}
  PROVE  Above(e, ts[l], ts[l + 1].head, e2)
<1> DEFINE p == ts[l]
           h == ts[l + 1].head
<1>1. l \in Nat /\ l \in 1 .. Len(ts) /\ l + 1 - 1 = l /\ l # 0
  OBVIOUS
<1>2. /\ e2.n = l + 1 /\ e2.file = file /\ e2.recent = b.recent
      /\ \A q \in Pg : e2.get[q] = PageGet(ts, l, q)
      /\ e2.at = AtOf(file, ts, l) /\ e2.list = ListAt(ts, l)
      /\ e2.freed = FreedTo(ts, l) /\ e2.loose = LooseTo(ts, l)
      /\ e2.cap = {q \in Pg : \A j \in 0 .. l : q \in HeadUnder(b, ts, j)}
      /\ e2.min = {q \in Nat : \A j \in 0 .. l : NextAt(b, ts, j) <= q}
      /\ e2.reg = {q \in Pg : \A j \in 0 .. l : \/ q \in HeadUnder(b, ts, j) \cup HeldTo(ts, j)
                                                \/ q >= NextAt(b, ts, j)}
  BY <1>1 DEF EnvOf
<1>3. /\ e.n = l /\ e.file = file /\ e.recent = b.recent
      /\ e.freed = FreedTo(ts, l - 1) /\ e.loose = LooseTo(ts, l - 1)
      /\ e.cap = {q \in Pg : \A j \in 0 .. l - 1 : q \in HeadUnder(b, ts, j)}
      /\ e.min = {q \in Nat : \A j \in 0 .. l - 1 : NextAt(b, ts, j) <= q}
      /\ e.reg = {q \in Pg : \A j \in 0 .. l - 1 : \/ q \in HeadUnder(b, ts, j) \cup HeldTo(ts, j)
                                                   \/ q >= NextAt(b, ts, j)}
  BY DEF EnvOf
<1>4. /\ \A q \in Pg : e2.get[q] = GetIn(e, p, q) /\ e2.at[q] = AtIn(e, p)[q]
      /\ e2.list = ListIn(e, p)
  <2>1. /\ \A q \in Pg : PageGet(ts, l, q) = GetIn(e, p, q)
        /\ AtOf(file, ts, l) = AtIn(e, p) /\ ListAt(ts, l) = ListIn(e, p)
    <3>1. /\ \A q \in Pg : PageGet(ts, l, q) = GetIn(e, ts[l], q)
          /\ AtOf(file, ts, l) = AtIn(e, ts[l])
          /\ DOMAIN ts[l].dirty \cap ts[l].spill = {} => ListAt(ts, l) = ListIn(e, ts[l])
      <4>1. ts \in Seq(TxnRec) /\ l \in 1 .. Len(ts) /\ e = EnvOf(b, file, ts, l)
        BY <1>1
      <4> QED BY ONLY <4>1, InEnv
    <3> QED BY <3>1
  <2> QED BY <1>2, <2>1
<1>5. HeadUnder(b, ts, l) = h /\ NextAt(b, ts, l) = p.next
  BY <1>1 DEF HeadUnder, NextAt
<1>6. \A j \in 0 .. l : j = l \/ j \in 0 .. l - 1
  BY <1>1
<1>7. \A j \in 0 .. l - 1 : j \in 0 .. l
  BY <1>1
<1>8. l \in 0 .. l
  BY <1>1
<1> HIDE DEF h, p
<1>9. e2.cap = e.cap \cap h
  BY <1>2, <1>3, <1>5, <1>6, <1>7, <1>8
<1>10. \A m : m \in e2.min <=> m \in e.min /\ p.next <= m
  BY <1>2, <1>3, <1>5, <1>6, <1>7, <1>8
<1>11. e2.reg \subseteq e.reg
  BY <1>2, <1>3, <1>7
<1>12. \A i \in 1 .. l : i = l \/ i \in 1 .. l - 1
  BY <1>1
<1>13. (\A i \in 1 .. l - 1 : i \in 1 .. l) /\ l \in 1 .. l
  BY <1>1
<1>14. FreedTo(ts, l) = FreedTo(ts, l - 1) \cup p.free \cup Range(p.loose)
  BY <1>12, <1>13 DEF FreedTo, p
<1>15. LooseTo(ts, l) = LooseTo(ts, l - 1) \cup Range(p.loose)
  BY <1>12, <1>13 DEF LooseTo, p
<1> QED BY <1>2, <1>3, <1>4, <1>9, <1>10, <1>11, <1>14, <1>15 DEF Above, h, p

MergedRec(p, t, w) ==
  /\ w \in TxnRec /\ w.root = t.root /\ w.next = t.next /\ w.free = p.free \cup t.free
  /\ DOMAIN w.dirty = DOMAIN t.dirty \cup (DOMAIN p.dirty \ t.spill)
  /\ \A q \in DOMAIN t.dirty : w.dirty[q] = t.dirty[q]
  /\ \A q \in DOMAIN p.dirty \ t.spill : q \notin DOMAIN t.dirty => w.dirty[q] = p.dirty[q]
  /\ w.spill = (p.spill \ DOMAIN t.dirty) \cup t.spill /\ w.room = t.room
  /\ Range(w.loose) = Range(p.loose) \cup Range(t.loose)
  /\ (Once(p.loose) /\ Once(t.loose) /\ Range(p.loose) \cap Range(t.loose) = {} => Once(w.loose))
  /\ w.head = p.head /\ w.bk = p.bk /\ w.err = p.err

LEMMA ConcatIs ==
  ASSUME NEW q \in Seq(Pg), NEW r \in Seq(Pg)
  PROVE  /\ q \o r \in Seq(Pg) /\ Range(q \o r) = Range(q) \cup Range(r)
         /\ Once(q) /\ Once(r) /\ Range(q) \cap Range(r) = {} => Once(q \o r)
<1> DEFINE z == q \o r
           m == Len(q)
           n == Len(r)
<1>1. /\ z \in Seq(Pg) /\ m \in Nat /\ n \in Nat /\ Len(z) = m + n /\ DOMAIN q = 1 .. m
      /\ DOMAIN r = 1 .. n /\ DOMAIN z = 1 .. m + n
      /\ \A i \in 1 .. m + n : z[i] = IF i <= m THEN q[i] ELSE r[i - m]
  OBVIOUS
<1>2. Range(q) = {q[i] : i \in 1 .. m} /\ Range(r) = {r[i] : i \in 1 .. n}
      /\ Range(z) = {z[i] : i \in 1 .. m + n}
  BY <1>1, RangeIs
<1> HIDE DEF z, m, n
<1>3. \A i \in 1 .. m + n : \/ i \in 1 .. m /\ z[i] = q[i]
                            \/ i \notin 1 .. m /\ i - m \in 1 .. n /\ z[i] = r[i - m]
  BY <1>1
<1>4. \A i \in 1 .. m : i \in 1 .. m + n /\ z[i] = q[i]
  BY <1>1
<1>5. \A i \in 1 .. n : i + m \in 1 .. m + n /\ z[i + m] = r[i]
  <2> SUFFICES ASSUME NEW i \in 1 .. n PROVE i + m \in 1 .. m + n /\ z[i + m] = r[i]
    OBVIOUS
  <2>1. i + m \in 1 .. m + n /\ ~ (i + m <= m) /\ (i + m) - m = i
    BY <1>1
  <2> QED BY <1>1, <2>1
<1>6. Range(z) = Range(q) \cup Range(r)
  <2>1. ASSUME NEW x \in Range(z) PROVE x \in Range(q) \cup Range(r)
    <3>1. PICK i \in 1 .. m + n : x = z[i]
      BY <1>2
    <3> QED BY <1>2, <1>3, <3>1
  <2>2. ASSUME NEW x \in Range(q) PROVE x \in Range(z)
    BY <1>2, <1>4
  <2>3. ASSUME NEW x \in Range(r) PROVE x \in Range(z)
    <3>1. PICK i \in 1 .. n : x = r[i]
      BY <1>2
    <3> QED BY <1>2, <1>5, <3>1
  <2> QED BY <2>1, <2>2, <2>3
<1>7. ASSUME Once(q), Once(r), Range(q) \cap Range(r) = {} PROVE Once(z)
  <2> SUFFICES ASSUME NEW i \in 1 .. m + n, NEW j \in 1 .. m + n, z[i] = z[j]
               PROVE  i = j
    BY <1>1 DEF Once
  <2>1. CASE i \in 1 .. m /\ j \in 1 .. m
    BY <1>1, <1>3, <1>7, <2>1 DEF Once
  <2>2. CASE i \notin 1 .. m /\ j \notin 1 .. m
    <3>1. i - m \in 1 .. n /\ j - m \in 1 .. n /\ r[i - m] = r[j - m]
      BY <1>3, <2>2
    <3>2. i - m = j - m
      BY <1>1, <1>7, <3>1 DEF Once
    <3> QED BY <1>1, <3>2
  <2>3. CASE i \in 1 .. m /\ j \notin 1 .. m
    <3>1. z[i] \in Range(q) /\ z[j] \in Range(r)
      BY <1>2, <1>3, <2>3
    <3> QED BY <1>7, <3>1
  <2>4. CASE i \notin 1 .. m /\ j \in 1 .. m
    <3>1. z[j] \in Range(q) /\ z[i] \in Range(r)
      BY <1>2, <1>3, <2>4
    <3> QED BY <1>7, <3>1
  <2> QED BY <2>1, <2>2, <2>3, <2>4
<1> QED BY <1>1, <1>6, <1>7 DEF z

Overlaid(f, g, S, d) ==
  /\ d \in Dirties /\ DOMAIN d = DOMAIN f \cup (DOMAIN g \ S)
  /\ \A q \in DOMAIN f : d[q] = f[q]
  /\ \A q \in DOMAIN g \ S : q \notin DOMAIN f => d[q] = g[q]

LEMMA OverIs ==
  ASSUME NEW f \in Dirties, NEW g \in Dirties, NEW S,
         NEW d, d = Over(f, Restrict(g, DOMAIN g \ S))
  PROVE  Overlaid(f, g, S, d)
<1> DEFINE G == DOMAIN g \ S
           h == Restrict(g, G)
<1>1. DOMAIN h = G /\ \A q \in G : h[q] = g[q]
  BY DEF Restrict
<1>2. /\ DOMAIN f \in SUBSET Pg /\ \A p \in DOMAIN f : f[p] \in Page
      /\ DOMAIN g \in SUBSET Pg /\ \A p \in DOMAIN g : g[p] \in Page
  BY DirtiesOf
<1> HIDE DEF h
<1>3. d = [p \in DOMAIN f \cup G |-> IF p \in DOMAIN f THEN f[p] ELSE h[p]]
  BY <1>1 DEF Over, h
<1>4. d \in [DOMAIN f \cup G -> Page] /\ DOMAIN f \cup G \in SUBSET Pg
  BY <1>1, <1>2, <1>3
<1>5. d \in Dirties
  BY <1>4, DirtiesBy
<1> QED BY <1>1, <1>3, <1>5 DEF Overlaid

LEMMA MergedRecIs ==
  ASSUME NEW p \in TxnRec, NEW t \in TxnRec
  PROVE  MergedRec(p, t, Merged(p, t))
<1> DEFINE d == Over(t.dirty, Restrict(p.dirty, DOMAIN p.dirty \ t.spill))
           S == (p.spill \ DOMAIN t.dirty) \cup t.spill
           z == p.loose \o t.loose
           F == p.free \cup t.free
           w == Merged(p, t)
<1>1. /\ p.dirty \in Dirties /\ t.dirty \in Dirties /\ p.loose \in Seq(Pg) /\ t.loose \in Seq(Pg)
      /\ p.free \in SUBSET Pg /\ t.free \in SUBSET Pg /\ p.spill \in SUBSET Pg /\ t.spill \in SUBSET Pg
      /\ t.root \in PgN /\ t.next \in Nat /\ t.spills \in BOOLEAN /\ t.room \in Int
  BY TxnIs
<1>2. w = [p EXCEPT !.root = t.root, !.next = t.next, !.spills = t.spills, !.free = F,
                    !.dirty = d, !.spill = S, !.room = t.room, !.loose = z]
  BY DEF Merged, ParentDirty
<1>3. F \in SUBSET Pg /\ S \in SUBSET Pg
  BY <1>1
<1>4. /\ d \in Dirties /\ DOMAIN d = DOMAIN t.dirty \cup (DOMAIN p.dirty \ t.spill)
      /\ \A q \in DOMAIN t.dirty : d[q] = t.dirty[q]
      /\ \A q \in DOMAIN p.dirty \ t.spill : q \notin DOMAIN t.dirty => d[q] = p.dirty[q]
  <2>1. Overlaid(t.dirty, p.dirty, t.spill, d)
    BY <1>1, OverIs
  <2> HIDE DEF d
  <2> QED BY <2>1 DEF Overlaid
<1>5. /\ z \in Seq(Pg) /\ Range(z) = Range(p.loose) \cup Range(t.loose)
      /\ (Once(p.loose) /\ Once(t.loose) /\ Range(p.loose) \cap Range(t.loose) = {} => Once(z))
  BY <1>1, ConcatIs
<1> HIDE DEF d, z, S, F
<1>6. \E x \in BOOLEAN : t.spills = x
  BY <1>1
<1>7. w \in TxnRec
  <2>1. PICK x \in BOOLEAN : t.spills = x
    BY <1>6
  <2> DEFINE v == [p EXCEPT !.spills = x]
             u == [v EXCEPT !.dirty = d, !.spill = S, !.loose = z]
  <2>2. v \in TxnRec
    BY DEF TxnRec
  <2>3. w = [u EXCEPT !.root = t.root, !.free = F, !.next = t.next, !.room = t.room]
    BY ONLY <1>2, <2>1
  <2> HIDE DEF v, w
  <2>4. u \in TxnRec
    BY <1>3, <1>4, <1>5, <2>2 DEF TxnRec
  <2> HIDE DEF u
  <2>5. \A r \in PgN, f \in SUBSET Pg, n \in Nat, o \in Int :
           [u EXCEPT !.root = r, !.free = f, !.next = n, !.room = o] \in TxnRec
    BY <2>4 DEF TxnRec
  <2> QED BY ONLY <1>1, <1>3, <2>3, <2>5
<1>8. /\ w.root = t.root /\ w.next = t.next /\ w.free = F
      /\ w.dirty = d /\ w.spill = S /\ w.room = t.room /\ w.loose = z
      /\ w.head = p.head /\ w.bk = p.bk /\ w.err = p.err
  BY <1>2 DEF TxnRec
<1> HIDE DEF w
<1>9. MergedRec(p, t, w)
  BY <1>4, <1>5, <1>7, <1>8 DEF MergedRec, S, F
<1> QED BY <1>9 DEF w

-----------------------------------------------------------------------------
(***************************************************************************)
(* _mdb_txn_commit of a child: the tree, and what the parent reads.        *)
(***************************************************************************)

\* Where a pointer of the child leads after the merge.
Shift(n, t, ptr) == IF ptr[1] = n THEN <<n - 1, ptr[2]>>
                    ELSE IF ptr[1] = n - 1 /\ ptr[2] \in DOMAIN t.dirty \cup t.spill THEN NoPtr
                    ELSE ptr

Shifted(n, t, m, m2) ==
  \A c \in Cursors : m2[c].init => /\ m[c].init /\ m2[c].leaf = m[c].leaf
                                   /\ m2[c].pg = <<Shift(n, t, m[c].pg[1]), Shift(n, t, m[c].pg[2])>>

\* The child's transaction t, the parent's p, and what becomes of p: w.
Merging(e, p, m0, e2, t, head, m, w) ==
  /\ EnvOK(e) /\ EnvOK(e2) /\ p \in TxnRec /\ t \in TxnRec /\ Above(e, p, t.head, e2)
  /\ Good(e, p, t.head, m0, {}) /\ Good(e2, t, head, m, {}) /\ MergedRec(p, t, w)

LEMMA MergeSees ==
  ASSUME NEW e, NEW p, NEW m0, NEW e2, NEW t, NEW head, NEW m, NEW w,
         Merging(e, p, m0, e2, t, head, m, w)
  PROVE  AtIn(e, w) = AtIn(e2, t)
<1>1. /\ DOMAIN w.dirty = DOMAIN t.dirty \cup (DOMAIN p.dirty \ t.spill)
      /\ \A q \in DOMAIN t.dirty : w.dirty[q] = t.dirty[q]
      /\ \A q \in DOMAIN p.dirty \ t.spill : q \notin DOMAIN t.dirty => w.dirty[q] = p.dirty[q]
      /\ w.spill = (p.spill \ DOMAIN t.dirty) \cup t.spill
  BY DEF Merging, MergedRec
<1>2. e2.file = e.file /\ \A q \in Pg : e2.at[q] = AtIn(e, p)[q]
  BY DEF Merging, Above
<1>3. DOMAIN p.dirty \cap p.spill = {} /\ DOMAIN t.dirty \cap t.spill = {}
  BY DEF Merging, Good, Mem
<1>4. ASSUME NEW q \in Pg
      PROVE  (IF q \in w.spill THEN e.file[q] ELSE IF q \in DOMAIN w.dirty THEN w.dirty[q] ELSE e.at[q])
           = (IF q \in t.spill THEN e2.file[q] ELSE IF q \in DOMAIN t.dirty THEN t.dirty[q] ELSE e2.at[q])
  <2>1. e2.at[q] = IF q \in p.spill THEN e.file[q] ELSE IF q \in DOMAIN p.dirty THEN p.dirty[q] ELSE e.at[q]
    BY <1>2 DEF AtIn
  <2>2. CASE q \in t.spill
    BY <1>1, <1>2, <2>2
  <2>3. CASE q \in DOMAIN t.dirty
    BY <1>1, <1>3, <2>3
  <2>4. CASE q \notin t.spill /\ q \notin DOMAIN t.dirty
    BY <1>1, <1>3, <2>1, <2>4
  <2> QED BY <2>2, <2>3, <2>4
<1> QED BY <1>4 DEF AtIn

LEMMA MergeGets ==
  ASSUME NEW e, NEW p, NEW m0, NEW e2, NEW t, NEW head, NEW m, NEW w,
         Merging(e, p, m0, e2, t, head, m, w), NEW q \in Pg
  PROVE  Shift(e2.n, t, GetIn(e2, t, q)) = GetIn(e, w, q)
<1>1. /\ DOMAIN w.dirty = DOMAIN t.dirty \cup (DOMAIN p.dirty \ t.spill)
      /\ w.spill = (p.spill \ DOMAIN t.dirty) \cup t.spill
  BY DEF Merging, MergedRec
<1>2. e2.n = e.n + 1 /\ e2.get[q] = GetIn(e, p, q)
  BY DEF Merging, Above
<1>3. DOMAIN p.dirty \cap p.spill = {} /\ DOMAIN t.dirty \cap t.spill = {}
  BY DEF Merging, Good, Mem
<1>4. /\ e.n \in Nat \ {0} /\ (e.get[q] = <<0, q>> \/ \E i \in 1 .. e.n - 1 : e.get[q] = <<i, q>>)
  BY DEF Merging, EnvOK
<1>5. e2.n - 1 = e.n /\ e2.n # 0 /\ e.n # 0 /\ e.n # e2.n
  BY <1>2, <1>4
<1>6. CASE q \in t.spill
  <2>1. GetIn(e2, t, q) = <<0, q>> /\ GetIn(e, w, q) = <<0, q>>
    BY <1>1, <1>6 DEF GetIn
  <2> QED BY <1>5, <2>1 DEF Shift
<1>7. CASE q \in DOMAIN t.dirty
  <2>1. GetIn(e2, t, q) = <<e2.n, q>> /\ GetIn(e, w, q) = <<e.n, q>>
    BY <1>1, <1>3, <1>7 DEF GetIn
  <2> QED BY <1>5, <2>1 DEF Shift
<1>8. CASE q \notin t.spill /\ q \notin DOMAIN t.dirty
  <2>1. GetIn(e2, t, q) = GetIn(e, p, q) /\ GetIn(e, w, q) = GetIn(e, p, q)
    BY <1>1, <1>2, <1>3, <1>8 DEF GetIn
  <2>2. \E i \in 0 .. e.n : GetIn(e, p, q) = <<i, q>>
    BY <1>4 DEF GetIn
  <2>3. PICK i \in 0 .. e.n : GetIn(e, p, q) = <<i, q>>
    BY <2>2
  <2>4. i # e2.n
    BY <1>2, <1>4
  <2> QED BY <1>8, <2>1, <2>3, <2>4 DEF Shift
<1> QED BY <1>6, <1>7, <1>8

LEMMA MergeMem ==
  ASSUME NEW e, NEW p, NEW m0, NEW e2, NEW t, NEW head, NEW m, NEW w,
         Merging(e, p, m0, e2, t, head, m, w)
  PROVE  Mem(e, w, head) /\ RoomIn(e, w)
<1>1. /\ w.next = t.next /\ w.room = t.room
      /\ DOMAIN w.dirty = DOMAIN t.dirty \cup (DOMAIN p.dirty \ t.spill)
      /\ w.spill = (p.spill \ DOMAIN t.dirty) \cup t.spill
      /\ Range(w.loose) = Range(p.loose) \cup Range(t.loose)
      /\ (Once(p.loose) /\ Once(t.loose) /\ Range(p.loose) \cap Range(t.loose) = {} => Once(w.loose))
  BY DEF Merging, MergedRec
<1>2. /\ e2.list = ListIn(e, p) /\ e2.loose = e.loose \cup Range(p.loose)
      /\ e2.cap = e.cap \cap t.head /\ e2.reg \subseteq e.reg
      /\ \A x : x \in e2.min <=> x \in e.min /\ p.next <= x
  BY DEF Merging, Above
<1>3. /\ t.next \in 2 .. MaxPg /\ t.next \in e2.min
      /\ Held(t) \subseteq 2 .. t.next - 1 /\ head \subseteq 2 .. t.next - 1
      /\ DOMAIN t.dirty \cap t.spill = {} /\ Held(t) \cap head = {}
      /\ Range(t.loose) \subseteq DOMAIN t.dirty
      /\ Once(t.loose)
      /\ Held(t) \subseteq e2.reg /\ head \subseteq e2.cap /\ Held(t) \cap e2.loose = {}
  BY DEF Merging, Good, Mem
<1>4. /\ p.next \in 2 .. MaxPg /\ Held(p) \subseteq 2 .. p.next - 1
      /\ DOMAIN p.dirty \cap p.spill = {} /\ Held(p) \cap t.head = {}
      /\ Range(p.loose) \subseteq DOMAIN p.dirty /\ Once(p.loose)
      /\ Held(p) \subseteq e.reg /\ Held(p) \cap e.loose = {}
  BY DEF Merging, Good, Mem
<1>5. Held(w) \subseteq Held(p) \cup Held(t)
  BY <1>1 DEF Held
<1>6. Held(p) \subseteq 2 .. t.next - 1
  <2>1. p.next <= t.next /\ p.next \in Nat /\ t.next \in Nat
    BY <1>2, <1>3, <1>4, NestedAssumption
  <2>2. 2 .. p.next - 1 \subseteq 2 .. t.next - 1
    BY <2>1
  <2> QED BY <1>4, <2>2
<1>7. Held(w) \subseteq 2 .. t.next - 1
  BY <1>3, <1>5, <1>6
<1>8. DOMAIN w.dirty \cap w.spill = {}
  BY <1>1, <1>3, <1>4
<1>9. Held(w) \cap head = {}
  BY <1>2, <1>3, <1>4, <1>5
<1>10. Range(p.loose) \cap Held(t) = {}
  BY <1>2, <1>3
<1>11. Range(w.loose) \subseteq DOMAIN w.dirty
  BY <1>1, <1>3, <1>4, <1>10 DEF Held
<1>12. Once(w.loose)
  BY <1>1, <1>3, <1>4, <1>10 DEF Held
<1>13. Held(w) \subseteq e.reg /\ head \subseteq e.cap /\ Held(w) \cap e.loose = {}
  BY <1>2, <1>3, <1>4, <1>5
<1>14. t.next \in e.min
  BY <1>2, <1>3
<1>15. Mem(e, w, head)
  BY <1>1, <1>3, <1>7, <1>8, <1>9, <1>11, <1>12, <1>13, <1>14 DEF Mem
<1>16. ListIn(e, w) = ListIn(e2, t)
  <2>1. e2.list = (DOMAIN p.dirty \cup e.list) \ p.spill
    BY <1>2 DEF ListIn
  <2>2. (DOMAIN w.dirty \cup e.list) \ w.spill = (DOMAIN t.dirty \cup e2.list) \ t.spill
    BY <1>1, <1>3, <1>4, <2>1
  <2> QED BY <2>2 DEF ListIn
<1>17. RoomIn(e2, t)
  BY DEF Merging, Good
<1>18. RoomIn(e, w)
  BY <1>1, <1>16, <1>17 DEF RoomIn
<1> QED BY <1>15, <1>18

\* The parent, with the child's pages, is good and reads what the child read.
LEMMA MergeIs ==
  ASSUME NEW e, NEW p, NEW m0, NEW e2, NEW t, NEW head, NEW m, NEW w,
         Merging(e, p, m0, e2, t, head, m, w), NEW m2, Shifted(e2.n, t, m, m2)
  PROVE  Good(e, w, head, m2, {}) /\ Vals(e, w) = Vals(e2, t)
<1> DEFINE at == AtIn(e2, t)
           r == t.root
<1>1. Mem(e, w, head) /\ RoomIn(e, w) /\ AtIn(e, w) = at
  BY MergeMem, MergeSees
<1>2. /\ w.root = r /\ w.next = t.next /\ w.free = p.free \cup t.free
      /\ Range(w.loose) = Range(p.loose) \cup Range(t.loose)
  BY DEF Merging, MergedRec
<1>3. /\ EnvOK(e2) /\ t \in TxnRec /\ EnvOK(e) /\ w \in TxnRec
      /\ TreeShape(at, r) /\ Parts(e2, t, head, {}) /\ Curs(e2, t, m)
      /\ Parts(e, p, t.head, {})
  BY DEF Merging, MergedRec, Good
<1>4. TreeShape(AtIn(e, w), w.root)
  BY <1>1, <1>2, <1>3
<1>5. e2.recent = e.recent /\ e2.freed = e.freed \cup p.free \cup Range(p.loose)
  BY DEF Merging, Above
<1>6. Parts(e, w, head, {})
  <2> DEFINE P == PagesOf(at, r)
             L == Range(p.loose)
             K == Range(t.loose)
  <2>1. Split(P, head, e2.freed, t.free, K, e2.recent, {}, t.next)
    BY <1>3 DEF Parts
  <2>2. e.freed \cap (p.free \cup L) = {} /\ p.free \cap L = {}
    BY <1>3 DEF Parts, Split
  <2> HIDE DEF P, L, K
  <2>3. Split(P, head, e.freed, p.free \cup t.free, L \cup K, e.recent, {}, t.next)
    BY <1>5, <2>1, <2>2 DEF Split, L
  <2> QED BY <1>1, <1>2, <2>3 DEF Parts, P, L, K
<1>7. Curs(e, w, m2)
  <2> SUFFICES ASSUME NEW c \in Cursors, m2[c].init
               PROVE  /\ m2[c].leaf \in Leaf
                      /\ KidOf(AtIn(e, w), w.root)[m2[c].leaf] # NoPg
                      /\ m2[c].pg = Path(e, w, m2[c].leaf)
    BY DEF Curs
  <2> DEFINE n == m[c].leaf
             k == KidOf(at, r)[n]
  <2>1. /\ m[c].init /\ m2[c].leaf = n
        /\ m2[c].pg = <<Shift(e2.n, t, m[c].pg[1]), Shift(e2.n, t, m[c].pg[2])>>
    BY DEF Shifted
  <2>2. n \in Leaf /\ k # NoPg /\ m[c].pg = Path(e2, t, n)
    BY <1>3, <2>1 DEF Curs
  <2>3. r \in Pg /\ r # NoPg /\ k \in Pg
    <3>1. at \in [Pg -> Page]
      BY <1>3, AtInIs
    <3> QED BY <1>3, <2>2, <3>1, TreeIs
  <2>4. m[c].pg[1] = GetIn(e2, t, r) /\ m[c].pg[2] = GetIn(e2, t, k)
    BY <2>2, <2>3 DEF Path, PtrTo
  <2>5. Shift(e2.n, t, GetIn(e2, t, r)) = GetIn(e, w, r) /\ Shift(e2.n, t, GetIn(e2, t, k)) = GetIn(e, w, k)
    BY <2>3, MergeGets
  <2>6. Path(e, w, n) = <<GetIn(e, w, r), GetIn(e, w, k)>>
    BY <1>1, <1>2, <2>2, <2>3 DEF Path, PtrTo
  <2> QED BY <1>1, <1>2, <2>1, <2>2, <2>4, <2>5, <2>6
<1>8. Vals(e, w) = Vals(e2, t)
  BY <1>1, <1>2 DEF Vals
<1> QED BY <1>1, <1>4, <1>6, <1>7, <1>8 DEF Good

-----------------------------------------------------------------------------
(***************************************************************************)
(* _mdb_txn_commit of a child: the cursors.                                *)
(***************************************************************************)

\* The cursor of the child after the merge.
MovedCur(s, r) == [r EXCEPT !.pg = <<MovedPtr(s, @[1]), MovedPtr(s, @[2])>>]

LEMMA MovedIs ==
  ASSUME NEW s \in StRec, Top(s) > 1, NEW r \in CurRec
  PROVE  /\ MovedCur(s, r) \in CurRec
         /\ MovedCur(s, r).init = r.init /\ MovedCur(s, r).leaf = r.leaf
         /\ MovedCur(s, r).pg = <<Shift(Top(s), T(s), r.pg[1]), Shift(Top(s), T(s), r.pg[2])>>
<1> DEFINE n == Top(s)
           x == MovedPtr(s, r.pg[1])
           y == MovedPtr(s, r.pg[2])
           z == MovedCur(s, r)
<1>1. n \in Nat /\ n - 1 \in Int /\ NoPtr \in Ptrs /\ r.pg[1] \in Ptrs /\ r.pg[2] \in Ptrs
  BY StIs, CurIs DEF NoPtr, NoPg, Ptrs
<1>2. x = Shift(n, T(s), r.pg[1]) /\ y = Shift(n, T(s), r.pg[2])
  BY DEF MovedPtr, Shift
<1>3. \A ptr \in Ptrs : Shift(n, T(s), ptr) \in Ptrs
  <2> SUFFICES ASSUME NEW ptr \in Ptrs PROVE Shift(n, T(s), ptr) \in Ptrs
    OBVIOUS
  <2>1. ptr[1] \in Int /\ ptr[2] \in Nat
    BY DEF Ptrs
  <2>2. <<n - 1, ptr[2]>> \in Ptrs
    BY <1>1, <2>1 DEF Ptrs
  <2> QED BY <1>1, <2>2 DEF Shift
<1>4. x \in Ptrs /\ y \in Ptrs
  BY <1>1, <1>2, <1>3
<1>5. z = [r EXCEPT !.pg = <<x, y>>]
  BY DEF MovedCur
<1> HIDE DEF x, y, z
<1>6. <<x, y>> \in [1 .. 2 -> Ptrs]
  BY <1>4
<1>7. z \in CurRec /\ z.init = r.init /\ z.leaf = r.leaf /\ z.pg = <<x, y>>
  BY <1>5, <1>6 DEF CurRec
<1> QED BY <1>2, <1>7 DEF z

\* The last transaction's pages are its parent's.
Joining(s) ==
  LET a == CursorsClosed(s, [c \in DOMAIN s.mc |-> MovedCur(s, s.mc[c])])
  IN  [a EXCEPT !.txns = Append(Front(Front(@)), Merged(@[Top(s) - 1], T(s)))]

Joined(b, s, a) ==
  /\ a \in StRec /\ All(b, a) /\ Top(a) = Top(s) - 1 /\ a.file = s.file /\ a.rc = s.rc
  /\ \A l \in 1 .. Top(s) - 2 : a.txns[l] = s.txns[l] /\ ValsAt(b, a, l) = ValsAt(b, s, l)
  /\ ValsAt(b, a, Top(s) - 1) = ValsAt(b, s, Top(s))
  /\ a.txns[Top(s) - 1].err = s.txns[Top(s) - 1].err

\* What Joining leaves, piece by piece.
Pieces(s, a) ==
  /\ a \in StRec /\ a.file = s.file /\ a.rc = s.rc /\ a.head = s.head /\ Top(a) = Top(s) - 1
  /\ \A i \in 1 .. Top(s) - 2 : a.txns[i] = s.txns[i]
  /\ a.txns[Top(s) - 1] = Merged(s.txns[Top(s) - 1], T(s))
  /\ Shifted(Top(s), T(s), s.mc, a.mc)

LEMMA JoiningIs ==
  ASSUME NEW s \in StRec, Top(s) > 1
  PROVE  Pieces(s, Joining(s))
<1> DEFINE N == Top(s)
           f == [c \in DOMAIN s.mc |-> MovedCur(s, s.mc[c])]
           x == CursorsClosed(s, f)
           w == Merged(s.txns[N - 1], T(s))
           us == Append(Front(Front(s.txns)), w)
           a == Joining(s)
<1>0. /\ N \in Nat /\ T(s) \in TxnRec /\ s.txns \in Seq(TxnRec)
      /\ s.mc \in [Cursors \cup {Local} -> CurRec]
  <2>1. Top(s) # 0 /\ Top(s) \in Nat
    BY StIs
  <2> QED BY <2>1, StIs
<1>1. /\ N \in Nat /\ N # 0 /\ N # 1 /\ N - 1 \in 1 .. N /\ T(s) \in TxnRec /\ Len(s.txns) = N
      /\ s.txns \in Seq(TxnRec) /\ s.mc \in [Cursors \cup {Local} -> CurRec]
  <2>1. N # 0 /\ N # 1 /\ N - 1 \in 1 .. N
    BY <1>0
  <2>2. Len(s.txns) = N
    BY DEF Top
  <2> QED BY <1>0, <2>1, <2>2
<1>2. s.txns[N - 1] \in TxnRec
  BY <1>1
<1>3. w \in TxnRec
  BY <1>1, <1>2, MergedRecIs DEF MergedRec
<1> HIDE DEF w
<1>4. /\ \A c \in Cursors \cup {Local} : f[c] = MovedCur(s, s.mc[c]) /\ s.mc[c] \in CurRec
  BY <1>1
<1> HIDE DEF f
<1>5. \A c \in Cursors \cup {Local} : f[c] \in CurRec
  BY <1>4, MovedIs
<1>6. /\ x \in StRec /\ x.file = s.file /\ x.head = s.head /\ x.txns = s.txns /\ x.rc = s.rc
      /\ \A c \in Cursors \cup {Local} :
              x.mc[c] = IF s.mc[c].of = Top(s) THEN Cursor0 ELSE f[c]
  BY <1>5, ClosedIs
<1>7. a = [x EXCEPT !.txns = us]
  <2>1. a = [x EXCEPT !.txns = Append(Front(Front(x.txns)), Merged(x.txns[N - 1], T(s)))]
    BY DEF Joining, f
  <2> HIDE DEF x
  <2> QED BY <1>6, <2>1 DEF w
<1> HIDE DEF x
<1>8. /\ Front(Front(s.txns)) \in Seq(TxnRec) /\ Len(Front(Front(s.txns))) = N - 2
      /\ \A i \in 1 .. N - 2 : Front(Front(s.txns))[i] = s.txns[i]
  <2>1. /\ Front(s.txns) \in Seq(TxnRec) /\ Len(Front(s.txns)) = N - 1
        /\ \A i \in 1 .. N - 1 : Front(s.txns)[i] = s.txns[i]
    BY <1>1, FrontIs
  <2>2. Len(Front(s.txns)) # 0 /\ (N - 1) - 1 = N - 2
    BY <1>1, <2>1
  <2>3. /\ Front(Front(s.txns)) \in Seq(TxnRec) /\ Len(Front(Front(s.txns))) = N - 2
        /\ \A i \in 1 .. N - 2 : Front(Front(s.txns))[i] = Front(s.txns)[i]
    <3> DEFINE q == Front(s.txns)
    <3>1. q \in Seq(TxnRec) /\ Len(q) # 0 /\ Len(q) - 1 = N - 2
      BY <2>1, <2>2
    <3> HIDE DEF q
    <3>2. /\ Front(q) \in Seq(TxnRec) /\ Len(Front(q)) = Len(q) - 1
          /\ \A i \in 1 .. Len(q) - 1 : Front(q)[i] = q[i]
      BY <3>1, FrontIs
    <3> QED BY <3>1, <3>2 DEF q
  <2>4. \A i \in 1 .. N - 2 : i \in 1 .. N - 1
    BY <1>1
  <2> QED BY <2>1, <2>3, <2>4
<1>9. /\ us \in Seq(TxnRec) /\ Len(us) = N - 1 /\ us[N - 1] = w
      /\ \A i \in 1 .. N - 2 : us[i] = s.txns[i]
  <2> DEFINE q == Front(Front(s.txns))
  <2> HIDE DEF q
  <2>1. q \in Seq(TxnRec) /\ Len(q) = N - 2 /\ \A i \in 1 .. N - 2 : q[i] = s.txns[i]
    BY <1>8 DEF q
  <2>2. /\ Append(q, w) \in Seq(TxnRec) /\ Len(Append(q, w)) = Len(q) + 1
        /\ \A i \in 1 .. Len(q) : Append(q, w)[i] = q[i]
        /\ Append(q, w)[Len(q) + 1] = w
    BY <1>3, <2>1, AppendProperties
  <2>3. N - 2 + 1 = N - 1
    BY <1>1
  <2>4. us = Append(q, w)
    BY DEF q
  <2> HIDE DEF us
  <2> QED BY <2>1, <2>2, <2>3, <2>4
<1> HIDE DEF us
<1>10. /\ a \in StRec /\ a.file = s.file /\ a.rc = s.rc /\ a.head = s.head /\ a.txns = us /\ a.mc = x.mc
  BY <1>6, <1>7, <1>9 DEF StRec
<1>11. Shifted(N, T(s), s.mc, a.mc)
  <2> SUFFICES ASSUME NEW c \in Cursors, a.mc[c].init
               PROVE  /\ s.mc[c].init /\ a.mc[c].leaf = s.mc[c].leaf
                      /\ a.mc[c].pg = <<Shift(N, T(s), s.mc[c].pg[1]), Shift(N, T(s), s.mc[c].pg[2])>>
    BY DEF Shifted
  <2>1. a.mc[c] = f[c]
    BY <1>6, <1>10, Cursor0Is
  <2>2. a.mc[c] = MovedCur(s, s.mc[c]) /\ s.mc[c] \in CurRec
    BY <1>4, <2>1
  <2> QED BY <2>2, MovedIs
<1> HIDE DEF a
<1> QED BY <1>9, <1>10, <1>11 DEF Pieces, Top, w, a

\* The same for the stack, when the child is its last transaction.
LEMMA JoinedIs ==
  ASSUME NEW b, NEW s \in StRec, All(b, s), Top(s) > 1
  PROVE  Joined(b, s, Joining(s))
<1> DEFINE N == Top(s)
           M == N - 1
           a == Joining(s)
           p == s.txns[M]
           t == T(s)
           w == a.txns[M]
           e == EnvAt(b, s, M)
           e2 == EnvAt(b, s, N)
<1>1. /\ a \in StRec /\ a.file = s.file /\ a.rc = s.rc /\ a.head = s.head /\ Top(a) = M
      /\ \A i \in 1 .. N - 2 : a.txns[i] = s.txns[i]
      /\ w = Merged(p, t) /\ Shifted(N, t, s.mc, a.mc)
  BY JoiningIs DEF Pieces
<1>2. /\ N \in Nat /\ N # 0 /\ N # 1 /\ M \in 1 .. N /\ N \in 1 .. N /\ M # N /\ M + 1 = N /\ M > 0
      /\ M \in Nat /\ s.txns \in Seq(TxnRec) /\ Len(s.txns) = N /\ s.file \in [Pg -> Page]
      /\ N - 2 = M - 1 /\ t = s.txns[N] /\ M \in 1 .. Len(s.txns) - 1 /\ N - 2 \in Nat
  BY StIs DEF Top, T
<1>3. /\ EnvOK(e) /\ EnvOK(e2) /\ p \in TxnRec /\ t \in TxnRec
      /\ Good(e, p, t.head, t.bk, {}) /\ Good(e2, t, s.head, s.mc, {})
  <2>1. Level(b, s, M) /\ Level(b, s, N)
    BY <1>2, AllIs
  <2>2. HeadAt(s, M) = t.head /\ McAt(s, M) = t.bk /\ HeadAt(s, N) = s.head /\ McAt(s, N) = s.mc
    BY <1>2 DEF HeadAt, McAt
  <2> QED BY <1>2, <2>1, <2>2 DEF Level
<1>4. MergedRec(p, t, w)
  BY <1>1, <1>3, MergedRecIs
<1>5. Above(e, p, t.head, e2)
  <2>1. DOMAIN p.dirty \cap p.spill = {}
    BY <1>3 DEF Good, Mem
  <2>2. Above(EnvOf(b, s.file, s.txns, M), s.txns[M], s.txns[M + 1].head, EnvOf(b, s.file, s.txns, M + 1))
    BY <1>2, <2>1, AboveIs
  <2> QED BY <1>2, <2>2 DEF EnvAt
<1>6. e2.n = N
  BY DEF EnvAt, EnvOf
<1> HIDE DEF a, p, t, w, e, e2, N
<1>7. Merging(e, p, t.bk, e2, t, s.head, s.mc, w)
  BY <1>3, <1>4, <1>5 DEF Merging
<1>8. Good(e, w, s.head, a.mc, {}) /\ Vals(e, w) = Vals(e2, t)
  BY <1>1, <1>6, <1>7, MergeIs
<1>9. EnvAt(b, a, M) = e
  <2>1. a.txns[M].head = s.txns[M].head /\ \A i \in 1 .. M - 1 : a.txns[i] = s.txns[i]
    BY <1>1, <1>2, <1>4 DEF MergedRec, w, p
  <2>2. EnvOf(b, s.file, a.txns, M) = EnvOf(b, s.file, s.txns, M)
    <3> DEFINE us == a.txns
               ts == s.txns
    <3>1. us[M].head = ts[M].head /\ \A i \in 1 .. M - 1 : us[i] = ts[i]
      BY <2>1
    <3> HIDE DEF us, ts, M
    <3>2. ts[M].head = us[M].head /\ (\A i \in 1 .. M - 1 : ts[i] = us[i]) /\ M \in Nat /\ M > 0
      BY <1>2, <3>1
    <3>3. EnvOf(b, s.file, ts, M) = EnvOf(b, s.file, us, M)
      BY <3>2, EnvSame
    <3> QED BY <3>3 DEF us, ts
  <2> QED BY <1>1, <2>2 DEF EnvAt, e
<1>10. \A l \in 1 .. N - 2 : EnvAt(b, a, l) = EnvAt(b, s, l) /\ ValsAt(b, a, l) = ValsAt(b, s, l)
  BY <1>1, <1>2, PopEnv
<1>11. ASSUME NEW l \in 1 .. M
       PROVE  Good(EnvOf(b, a.file, a.txns, l), a.txns[l], HeadAt(a, l), McAt(a, l), {})
  <2>1. CASE l = M
    <3>1. HeadAt(a, l) = s.head /\ McAt(a, l) = a.mc
      BY <1>1, <2>1 DEF HeadAt, McAt
    <3> QED BY <1>8, <1>9, <2>1, <3>1 DEF EnvAt, w
  <2>2. CASE l # M
    <3>1. l \in 1 .. N - 2 /\ l # Top(a) /\ l \in 1 .. N /\ l # N
      BY <1>1, <1>2, <2>2
    <3>2. Good(EnvAt(b, s, l), s.txns[l], s.txns[l + 1].head, s.txns[l + 1].bk, {})
      BY <3>1 DEF All, EnvAt, HeadAt, McAt, N
    <3>3. HeadAt(a, l) = a.txns[l + 1].head /\ McAt(a, l) = a.txns[l + 1].bk
      BY <3>1 DEF HeadAt, McAt
    <3>4. a.txns[l + 1].head = s.txns[l + 1].head /\ a.txns[l + 1].bk = s.txns[l + 1].bk
      <4>1. CASE l + 1 = M
        BY <1>4, <4>1 DEF MergedRec, w, p
      <4>2. CASE l + 1 # M
        <5>1. l + 1 \in 1 .. N - 2
          BY <1>2, <2>2, <4>2
        <5> QED BY <1>1, <5>1
      <4> QED BY <4>1, <4>2
    <3> QED BY <1>1, <1>10, <3>1, <3>2, <3>3, <3>4 DEF EnvAt
  <2> QED BY <2>1, <2>2
<1>12. a.txns # <<>>
  BY <1>1, <1>2 DEF Top
<1>13. Base(b, a.file)
  BY <1>1 DEF All
<1>14. All(b, a)
  BY <1>1, <1>11, <1>12, <1>13 DEF All
<1>15. ValsAt(b, a, M) = ValsAt(b, s, N)
  BY <1>2, <1>8, <1>9 DEF ValsAt, w, e2, t, T, N
<1>16. w.err = p.err
  BY <1>4 DEF MergedRec
<1> QED BY <1>1, <1>10, <1>14, <1>15, <1>16 DEF Joined, a, w, p, N

-----------------------------------------------------------------------------
(***************************************************************************)
(* _mdb_txn_commit and mdb_txn_abort of the last transaction.              *)
(***************************************************************************)

LEMMA PoisonedIs ==
  ASSUME NEW b, NEW s \in StRec, All(b, s), Top(s) # 0, NEW a, a = Poisoned(s)
  PROVE  Lifted(b, s, a) /\ a \in StRec /\ a.file = s.file /\ a.rc # "OK" /\ T(a).err
<1> DEFINE e == EnvAt(b, s, Top(s))
<1>1. Fits(b, e, s) /\ Good(e, T(s), s.head, s.mc, {})
  BY AllIs
<1> HIDE DEF e
<1>2. "BAD_TXN" \in Rcs /\ "BAD_TXN" # "OK"
  BY DEF Rcs
<1>3. Failed(b, e, s, a) /\ a.file = s.file
  BY <1>1, <1>2, FailIs DEF Poisoned
<1>4. Good(e, T(a), a.head, a.mc, {})
  BY <1>1, <1>3, FailedGood
<1>5. Fits(b, e, a) /\ Along(s, a) /\ a.rc # "OK" /\ T(a).err
  BY <1>3 DEF Failed
<1>6. FileKept(s, a)
  BY <1>3 DEF FileKept
<1>7. Lifted(b, s, a)
  BY <1>1, <1>4, <1>5, <1>6, LiftIs
<1> QED BY <1>3, <1>5, <1>7, FitsIs

LEMMA WithRc ==
  ASSUME NEW b, NEW s \in StRec, All(b, s), NEW rc \in Rcs, NEW a, a = [s EXCEPT !.rc = rc]
  PROVE  /\ a \in StRec /\ All(b, a) /\ a.rc = rc /\ a.file = s.file /\ a.txns = s.txns
         /\ a.mc = s.mc /\ Top(a) = Top(s) /\ \A l : ValsAt(b, a, l) = ValsAt(b, s, l)
<1>1. a \in StRec /\ a.rc = rc /\ a.file = s.file /\ a.txns = s.txns /\ a.head = s.head /\ a.mc = s.mc
  BY DEF StRec
<1>2. Close(s, a) /\ SameBase(b, b)
  BY <1>1 DEF Close, SameBase, Fewer
<1>3. All(b, a) /\ Top(a) = Top(s) /\ \A l : ValsAt(b, a, l) = ValsAt(b, s, l)
  BY <1>2, AllClose
<1> QED BY <1>1, <1>3

\* The last transaction has ended, in its parent's favour, or without a trace,
\* or to the parent's end.
Ends(b, s, a) ==
  /\ a \in StRec /\ All(b, a) /\ Top(a) = Top(s) - 1 /\ a.file = s.file
  /\ \A l \in 1 .. Top(s) - 2 : a.txns[l] = s.txns[l] /\ ValsAt(b, a, l) = ValsAt(b, s, l)
Hands(b, s, a) == /\ a.rc = "OK" /\ s.rc = "OK" /\ ~T(s).err
                  /\ ValsAt(b, a, Top(s) - 1) = ValsAt(b, s, Top(s))
                  /\ a.txns[Top(s) - 1].err = s.txns[Top(s) - 1].err
Drops(b, s, a) == /\ a.txns[Top(s) - 1] = s.txns[Top(s) - 1]
                  /\ ValsAt(b, a, Top(s) - 1) = ValsAt(b, s, Top(s) - 1)
Breaks(s, a) == a.rc # "OK" /\ a.txns[Top(s) - 1].err

LEMMA PoppedEnds ==
  ASSUME NEW b, NEW s \in StRec, Top(s) > 1, NEW a, Popped(b, s, a)
  PROVE  Ends(b, s, a) /\ Drops(b, s, a) /\ a.rc = s.rc
<1>1. Top(s) \in Nat
  BY StIs
<1>2. Top(s) - 1 \in 1 .. Top(s) - 1 /\ \A l \in 1 .. Top(s) - 2 : l \in 1 .. Top(s) - 1
  BY <1>1
<1> QED BY <1>2 DEF Popped, Ends, Drops

LEMMA LiftedEnds ==
  ASSUME NEW b, NEW s \in StRec, Top(s) > 1, NEW a, Ends(b, s, a), NEW z \in StRec, Lifted(b, a, z),
         z.file = a.file, z.rc # "OK", T(z).err
  PROVE  Ends(b, s, z) /\ Breaks(s, z)
<1>1. Top(a) = Top(s) - 1 /\ Top(z) = Top(a) /\ a.file = s.file /\ All(b, z) /\ T(z) = z.txns[Top(z)]
  BY DEF Ends, Lifted, T
<1>2. /\ \A l \in 1 .. Top(a) - 1 : z.txns[l] = a.txns[l] /\ ValsAt(b, z, l) = ValsAt(b, a, l)
      /\ \A l \in 1 .. Top(s) - 2 : a.txns[l] = s.txns[l] /\ ValsAt(b, a, l) = ValsAt(b, s, l)
  BY DEF Ends, Lifted
<1>3. Top(a) - 1 = Top(s) - 2
  BY <1>1, StIs
<1>4. \A l \in 1 .. Top(s) - 2 : z.txns[l] = s.txns[l] /\ ValsAt(b, z, l) = ValsAt(b, s, l)
  BY <1>2, <1>3
<1>5. z.txns[Top(s) - 1].err
  BY <1>1
<1> QED BY <1>1, <1>4, <1>5 DEF Ends, Breaks

\* The commit of a child: its values are the parent's, or it failed and broke the parent.
LEMMA CommitChildIs ==
  ASSUME NEW b, NEW s \in StRec, All(b, s), Top(s) > 1, s.rc = "OK", NEW how, NEW a,
         a = CommitChild(s, how)
  PROVE  /\ Ends(b, s, a)
         /\ Hands(b, s, a) \/ (Drops(b, s, a) /\ a.rc # "OK") \/ Breaks(s, a)
         /\ (how = "none" /\ ~T(s).err) => Hands(b, s, a)
<1> DEFINE x == AbortOne(s)
           z == Joining(s)
<1>0. Top(s) # 0 /\ Top(s) \in Nat
  BY StIs
<1>1. Popped(b, s, x)
  BY <1>0, AbortOneIs
<1>2. Ends(b, s, x) /\ Drops(b, s, x)
  BY <1>1, PoppedEnds
<1>3. Joined(b, s, z)
  BY JoinedIs
<1>4. Ends(b, s, z)
  BY <1>3 DEF Joined, Ends
<1>5. CASE T(s).err
  <2>1. a = Poisoned(x)
    BY <1>5 DEF CommitChild
  <2> HIDE DEF x, z
  <2>2. x \in StRec /\ All(b, x) /\ Top(x) # 0
    BY <1>0, <1>2 DEF Ends
  <2>3. Lifted(b, x, a) /\ a \in StRec /\ a.file = x.file /\ a.rc # "OK" /\ T(a).err
    BY <2>1, <2>2, PoisonedIs
  <2> QED BY <1>2, <1>5, <2>3, LiftedEnds
<1>6. CASE ~T(s).err /\ how = "free"
  <2>1. a = [x EXCEPT !.rc = "ENOMEM"]
    BY <1>6 DEF CommitChild
  <2> HIDE DEF x, z
  <2>2. "ENOMEM" \in Rcs
    BY DEF Rcs
  <2>3. x \in StRec /\ All(b, x)
    BY <1>2 DEF Ends
  <2>4. /\ a \in StRec /\ All(b, a) /\ a.rc = "ENOMEM" /\ a.file = x.file /\ a.txns = x.txns
        /\ Top(a) = Top(x) /\ \A l : ValsAt(b, a, l) = ValsAt(b, x, l)
    BY <2>1, <2>2, <2>3, WithRc
  <2>5. Ends(b, s, a) /\ Drops(b, s, a)
    BY <1>2, <2>4 DEF Ends, Drops
  <2>6. how # "none"
    BY <1>6
  <2> QED BY <2>4, <2>5, <2>6
<1>7. CASE ~T(s).err /\ how # "free"
  <2>0. a = z \/ (a = Poisoned(z) /\ how # "none")
    BY <1>7 DEF CommitChild, Joining, MovedCur
  <2> HIDE DEF x, z
  <2>1. CASE a = z
    <3>1. Hands(b, s, a)
      BY <1>3, <1>7, <2>1 DEF Joined, Hands
    <3> QED BY <1>4, <2>1, <3>1
  <2>2. CASE a = Poisoned(z) /\ how # "none"
    <3>1. z \in StRec /\ All(b, z) /\ Top(z) # 0
      BY <1>0, <1>4 DEF Ends
    <3>2. Lifted(b, z, a) /\ a \in StRec /\ a.file = z.file /\ a.rc # "OK" /\ T(a).err
      BY <2>2, <3>1, PoisonedIs
    <3> QED BY <1>4, <2>2, <3>2, LiftedEnds
  <2> QED BY <2>0, <2>1, <2>2
<1> QED BY <1>5, <1>6, <1>7

\* The end of a transaction that has a parent.
Ended1(b, s, how, a) ==
  /\ Ends(b, s, a)
  /\ (how = "abort" \/ s.rc # "OK") => Drops(b, s, a) /\ a.rc = s.rc
  /\ (how # "abort" /\ s.rc = "OK") =>
        Hands(b, s, a) \/ (Drops(b, s, a) /\ a.rc # "OK") \/ Breaks(s, a)
  /\ (how = "none" /\ s.rc = "OK" /\ ~T(s).err) => Hands(b, s, a)

LEMMA EndOneIs ==
  ASSUME NEW b, NEW s \in StRec, All(b, s), Top(s) > 1, NEW how
  PROVE  Ended1(b, s, how, EndOne(s, how))
<1> DEFINE a == EndOne(s, how)
<1>0. Top(s) # 0 /\ Top(s) # 1 /\ Top(s) \in Nat
  BY StIs
<1>1. CASE how = "abort" \/ s.rc # "OK"
  <2>1. a = AbortOne(s)
    BY <1>1 DEF EndOne
  <2> HIDE DEF a
  <2>2. Popped(b, s, a)
    BY <1>0, <2>1, AbortOneIs
  <2>3. Ends(b, s, a) /\ Drops(b, s, a) /\ a.rc = s.rc
    BY <2>2, PoppedEnds
  <2> QED BY <1>1, <2>3 DEF Ended1, a
<1>2. CASE how # "abort" /\ s.rc = "OK"
  <2>1. a = CommitChild(s, how)
    BY <1>0, <1>2 DEF EndOne
  <2> HIDE DEF a
  <2>2. /\ Ends(b, s, a)
        /\ Hands(b, s, a) \/ (Drops(b, s, a) /\ a.rc # "OK") \/ Breaks(s, a)
        /\ (how = "none" /\ ~T(s).err) => Hands(b, s, a)
    BY <1>2, <2>1, CommitChildIs
  <2> QED BY <1>2, <2>2 DEF Ended1, a
<1> QED BY <1>1, <1>2

-----------------------------------------------------------------------------
(***************************************************************************)
(* _mdb_txn_commit of the top-level transaction.                           *)
(***************************************************************************)

\* The file after the commit of t, which writes its dirty pages but the loose ones.
Flushed(file, t) == [p \in Pg |-> IF p \in DOMAIN t.dirty \ Range(t.loose) THEN t.dirty[p] ELSE file[p]]

\* The last snapshot becomes what the top-level transaction read.
LEMMA CommitTopIs ==
  ASSUME NEW b, NEW s \in StRec, All(b, s), Top(s) = 1, ~T(s).err
  PROVE  CommitTop(s).file = Flushed(s.file, T(s)) /\ CommitTop(s).rc = s.rc
<1> DEFINE x == AbortOne(s)
           t == T(s)
           out == DOMAIN t.dirty \ Range(t.loose)
<1>1. Popped(b, s, x)
  BY AbortOneIs
<1>2. x.file = s.file /\ x.rc = s.rc /\ x \in StRec /\ DOMAIN x.file = Pg
  <2>1. x.file = s.file /\ x.rc = s.rc /\ x \in StRec
    BY <1>1 DEF Popped
  <2> QED BY <2>1, StIs
<1>3. CommitTop(s) = [x EXCEPT !.file = [p \in DOMAIN x.file |-> IF p \in out THEN t.dirty[p] ELSE x.file[p]]]
  BY DEF CommitTop
<1> HIDE DEF x, t, out
<1>4. [p \in DOMAIN x.file |-> IF p \in out THEN t.dirty[p] ELSE x.file[p]] = Flushed(s.file, T(s))
  BY <1>2 DEF Flushed, t, out
<1>5. CommitTop(s) = [x EXCEPT !.file = Flushed(s.file, T(s))]
  BY <1>3, <1>4
<1> QED BY <1>2, <1>5 DEF StRec

LEMMA CommitTopFails ==
  ASSUME NEW s \in StRec, Top(s) = 1, T(s).err
  PROVE  CommitTop(s).rc # "OK"
<1> DEFINE x == AbortOne(s)
<1>1. CommitTop(s) = [x EXCEPT !.rc = "BAD_TXN"]
  BY DEF CommitTop
<1>2. x \in StRec
  <2> DEFINE f == [c \in DOMAIN s.mc |-> Cursor0]
             h == [s EXCEPT !.head = {}]
             y == CursorsClosed(h, f)
  <2>1. x = [y EXCEPT !.txns = <<>>]
    BY DEF AbortOne
  <2>2. DOMAIN s.mc = Cursors \cup {Local}
    BY StIs
  <2>3. \A c \in Cursors \cup {Local} : f[c] \in CurRec
    BY <2>2, Cursor0Is
  <2>4. h \in StRec
    BY DEF StRec
  <2> HIDE DEF h, f
  <2>5. y \in StRec
    BY <2>3, <2>4, ClosedIs
  <2> HIDE DEF y
  <2>6. <<>> \in Seq(TxnRec)
    OBVIOUS
  <2> QED BY <2>1, <2>5, <2>6 DEF StRec
<1> HIDE DEF x
<1> QED BY <1>1, <1>2 DEF StRec

\* The snapshot that the commit of the top-level transaction leaves.
LEMMA CommittedIs ==
  ASSUME NEW b, NEW s \in StRec, All(b, s), Top(s) = 1, NEW t, t = T(s),
         NEW b2, b2.root = t.root, b2.next = t.next, b2.old = s.head \cup b.recent,
         b2.recent = t.free \cup Range(t.loose)
  PROVE  /\ Base(b2, Flushed(s.file, t)) /\ ValOf(Flushed(s.file, t), b2.root) = ValsAt(b, s, 1)
         /\ Flushed(s.file, t) \in [Pg -> Page] /\ b2.old \in SUBSET Pg /\ b2.recent \in SUBSET Pg
         /\ b2.root \in PgN /\ b2.next \in Nat
<1> DEFINE e == EnvAt(b, s, 1)
           f == Flushed(s.file, t)
           at == AtIn(e, t)
           P == PagesOf(at, t.root)
<1>1. EnvOK(e) /\ t \in TxnRec /\ Good(e, t, s.head, s.mc, {}) /\ t = s.txns[1]
  BY AllIs DEF Fits, T, Level, HeadAt, McAt
<1>2. /\ s.file \in [Pg -> Page] /\ s.head \in SUBSET Pg /\ t.free \in SUBSET Pg
      /\ t.root \in PgN /\ t.next \in Nat /\ at \in [Pg -> Page]
      /\ \A p \in DOMAIN t.dirty : t.dirty[p] \in Page
      /\ DOMAIN t.dirty \in SUBSET Pg
  BY <1>1, StIs, TxnIs, AtInIs
<1>3. Range(t.loose) \subseteq DOMAIN t.dirty /\ DOMAIN t.dirty \cap t.spill = {} /\ t.next \in 2 .. MaxPg
  BY <1>1 DEF Good, Mem
<1>4. e.file = s.file /\ e.recent = b.recent /\ e.freed = {} /\ \A p \in Pg : e.at[p] = s.file[p]
  <2>1. e.file = s.file /\ e.recent = b.recent /\ e.freed = FreedTo(s.txns, 0) /\ e.at = AtOf(s.file, s.txns, 0)
    BY DEF EnvAt, EnvOf
  <2>2. FreedTo(s.txns, 0) = {}
    BY DEF FreedTo
  <2>3. \A p \in Pg : AtOf(s.file, s.txns, 0)[p] = s.file[p]
    BY GetZero DEF AtOf, PageAt
  <2> QED BY <2>1, <2>2, <2>3
<1>5. f \in [Pg -> Page]
  BY <1>2 DEF Flushed
<1>6. Split(P, s.head, {}, t.free, Range(t.loose), b.recent, {}, t.next) /\ TreeShape(at, t.root)
  BY <1>1, <1>4 DEF Good, Parts
<1>7. P \subseteq Pg
  BY <1>2, <1>6, TreeIs
<1>8. ASSUME NEW p \in P PROVE f[p] = at[p]
  <2>1. p \in Pg /\ p \notin Range(t.loose)
    BY <1>6, <1>7 DEF Split
  <2>2. at[p] = IF p \in t.spill THEN e.file[p] ELSE IF p \in DOMAIN t.dirty THEN t.dirty[p] ELSE e.at[p]
    BY <2>1 DEF AtIn
  <2>3. f[p] = IF p \in DOMAIN t.dirty THEN t.dirty[p] ELSE s.file[p]
    BY <2>1 DEF Flushed
  <2> HIDE DEF e, f, at, P
  <2> QED BY <1>3, <1>4, <2>1, <2>2, <2>3
<1> HIDE DEF f, at, e
<1>9. PagesOf(f, t.root) = P /\ TreeShape(f, t.root) /\ ValOf(f, t.root) = ValOf(at, t.root)
  BY <1>2, <1>5, <1>6, <1>8, Agree
<1> HIDE DEF P
<1>10. Split(P, b2.old, {}, {}, {}, b2.recent, {}, b2.next)
  BY <1>6 DEF Split
<1>11. Base(b2, f)
  BY <1>3, <1>9, <1>10 DEF Base
<1>12. ValOf(at, t.root) = ValsAt(b, s, 1)
  BY <1>1 DEF ValsAt, Vals, at, e
<1>13. b.recent \in SUBSET Pg
  <2>1. b.recent \subseteq 2 .. t.next - 1
    BY <1>6 DEF Split
  <2>2. 2 .. t.next - 1 \subseteq Pg
    BY <1>3, NestedAssumption DEF Pg
  <2> QED BY <2>1, <2>2
<1> QED BY <1>2, <1>3, <1>5, <1>9, <1>11, <1>12, <1>13 DEF f

-----------------------------------------------------------------------------
(***************************************************************************)
(* The end of several transactions, the last one first.                    *)
(***************************************************************************)

\* g is the function of Ended on the numbers up to n.
UpTo(how, n, g) == g = [i \in 0 .. n |-> IF i = 0 THEN Now ELSE EndOne(g[i - 1], how)]

LEMMA UpToIs ==
  ASSUME NEW how, NEW n \in Nat, NEW g, UpTo(how, n, g)
  PROVE  /\ g[0] = Now
         /\ \A i \in 1 .. n : g[i] = EndOne(g[i - 1], how)
<1>1. g = [i \in 0 .. n |-> IF i = 0 THEN Now ELSE EndOne(g[i - 1], how)]
  BY DEF UpTo
<1>2. \A i \in 0 .. n : g[i] = IF i = 0 THEN Now ELSE EndOne(g[i - 1], how)
  BY <1>1
<1>3. 0 \in 0 .. n /\ \A i \in 1 .. n : i \in 0 .. n /\ i # 0
  OBVIOUS
<1> QED BY <1>2, <1>3

LEMMA UpToExists ==
  ASSUME NEW how
  PROVE  \A n \in Nat : \E g : UpTo(how, n, g)
<1> DEFINE S == {n \in Nat : ~\E g : UpTo(how, n, g)}
<1> SUFFICES ASSUME S # {} PROVE FALSE
  OBVIOUS
<1>1. PICK n \in S : \A x \in S : n <= x
  <2>1. S \subseteq Nat
    OBVIOUS
  <2> QED BY <2>1, NatHasMin
<1>2. n \in Nat /\ ~\E g : UpTo(how, n, g)
  OBVIOUS
<1>3. n # 0
  <2> SUFFICES ASSUME n = 0 PROVE FALSE
    OBVIOUS
  <2> DEFINE g == [i \in 0 .. 0 |-> Now]
  <2>1. g = [i \in 0 .. 0 |-> IF i = 0 THEN Now ELSE EndOne(g[i - 1], how)]
    <3>1. \A i \in 0 .. 0 : i = 0
      OBVIOUS
    <3> QED BY <3>1
  <2>2. UpTo(how, n, g)
    BY <2>1 DEF UpTo
  <2> QED BY <1>2, <2>2
<1> DEFINE m == n - 1
<1>4. m \in Nat /\ ~ (n <= m) /\ m + 1 = n
  BY <1>2, <1>3
<1>5. PICK g : UpTo(how, m, g)
  <2>1. m \notin S
    BY <1>1, <1>4
  <2> QED BY <1>4, <2>1
<1>6. g[0] = Now /\ \A i \in 1 .. m : g[i] = EndOne(g[i - 1], how)
  BY <1>4, <1>5, UpToIs
<1> DEFINE h == [i \in 0 .. n |-> IF i = n THEN EndOne(g[m], how) ELSE g[i]]
<1>7. ASSUME NEW i \in 0 .. n PROVE h[i] = IF i = 0 THEN Now ELSE EndOne(h[i - 1], how)
  <2>1. CASE i = 0
    BY <1>3, <1>6, <2>1
  <2>2. CASE i = n
    <3>1. i - 1 = m /\ m \in 0 .. n /\ m # n
      BY <1>4, <2>2
    <3>2. h[i - 1] = g[m] /\ h[i] = EndOne(g[m], how)
      BY <2>2, <3>1
    <3> QED BY <1>3, <2>2, <3>2
  <2>3. CASE i # 0 /\ i # n
    <3>1. i \in 1 .. m /\ i - 1 \in 0 .. n /\ i - 1 # n
      BY <1>4, <2>3
    <3>2. h[i] = g[i] /\ h[i - 1] = g[i - 1]
      BY <2>3, <3>1
    <3>3. g[i] = EndOne(g[i - 1], how)
      BY <1>6, <3>1
    <3> HIDE DEF h, m
    <3> QED BY <2>3, <3>2, <3>3
  <2> QED BY <2>1, <2>2, <2>3
<1>8. h = [i \in 0 .. n |-> h[i]]
  OBVIOUS
<1> HIDE DEF h
<1>9. h = [i \in 0 .. n |-> IF i = 0 THEN Now ELSE EndOne(h[i - 1], how)]
  BY <1>7, <1>8
<1>10. UpTo(how, n, h)
  BY <1>9 DEF UpTo
<1> QED BY <1>2, <1>10

LEMMA UpToSame ==
  ASSUME NEW how, NEW n \in Nat, NEW g, UpTo(how, n, g), NEW m \in Nat, NEW h, UpTo(how, m, h),
         n <= m
  PROVE  \A i \in 0 .. n : g[i] = h[i]
<1> DEFINE S == {i \in 0 .. n : g[i] # h[i]}
<1> SUFFICES ASSUME S # {} PROVE FALSE
  OBVIOUS
<1>1. PICK i \in S : \A x \in S : i <= x
  <2>1. S \subseteq Nat
    OBVIOUS
  <2> QED BY <2>1, NatHasMin
<1>2. i \in 0 .. n /\ g[i] # h[i]
  OBVIOUS
<1>3. /\ g[0] = Now /\ \A j \in 1 .. n : g[j] = EndOne(g[j - 1], how)
      /\ h[0] = Now /\ \A j \in 1 .. m : h[j] = EndOne(h[j - 1], how)
  BY UpToIs
<1>4. i # 0
  BY <1>2, <1>3
<1>5. i \in 1 .. n /\ i \in 1 .. m /\ i - 1 \in 0 .. n /\ ~ (i <= i - 1)
  BY <1>2, <1>4
<1>6. g[i - 1] = h[i - 1]
  BY <1>1, <1>5
<1> QED BY <1>2, <1>3, <1>5, <1>6

LEMMA EndedIs ==
  ASSUME NEW how
  PROVE  /\ Ended(how, 0) = Now
         /\ \A n \in Nat : Ended(how, n + 1) = EndOne(Ended(how, n), how)
<1> DEFINE C(n) == CHOOSE g : UpTo(how, n, g)
           G == [i \in Nat |-> C(i)[i]]
           F == CHOOSE f : f = [i \in Nat |-> IF i = 0 THEN Now ELSE EndOne(f[i - 1], how)]
<1>1. \A n \in Nat : UpTo(how, n, C(n))
  BY UpToExists
<1> HIDE DEF C
<1>2. ASSUME NEW i \in Nat PROVE G[i] = IF i = 0 THEN Now ELSE EndOne(G[i - 1], how)
  <2>1. UpTo(how, i, C(i))
    BY <1>1
  <2>2. CASE i = 0
    <3>1. C(i)[0] = Now
      BY <2>1, UpToIs
    <3> QED BY <2>2, <3>1
  <2>3. CASE i # 0
    <3>1. i - 1 \in Nat /\ i \in 1 .. i /\ i - 1 <= i /\ i - 1 \in 0 .. i - 1
      BY <2>3
    <3>2. C(i)[i] = EndOne(C(i)[i - 1], how)
      BY <2>1, <3>1, UpToIs
    <3>3. UpTo(how, i - 1, C(i - 1))
      BY <1>1, <3>1
    <3>4. C(i - 1)[i - 1] = C(i)[i - 1]
      BY <2>1, <3>1, <3>3, UpToSame
    <3>5. G[i] = C(i)[i] /\ G[i - 1] = C(i - 1)[i - 1]
      BY <3>1
    <3> HIDE DEF G
    <3> QED BY <2>3, <3>2, <3>4, <3>5
  <2> QED BY <2>2, <2>3
<1>3. G = [i \in Nat |-> G[i]]
  OBVIOUS
<1> HIDE DEF G
<1>4. G = [i \in Nat |-> IF i = 0 THEN Now ELSE EndOne(G[i - 1], how)]
  BY <1>2, <1>3
<1>5. F = [i \in Nat |-> IF i = 0 THEN Now ELSE EndOne(F[i - 1], how)]
  BY <1>4
<1>6. \A n : Ended(how, n) = F[n]
  BY DEF Ended
<1> HIDE DEF F
<1>7. \A i \in Nat : F[i] = IF i = 0 THEN Now ELSE EndOne(F[i - 1], how)
  BY <1>5
<1>8. F[0] = Now
  BY <1>7
<1>9. ASSUME NEW n \in Nat PROVE F[n + 1] = EndOne(F[n], how)
  <2>1. n + 1 \in Nat /\ n + 1 # 0 /\ (n + 1) - 1 = n
    OBVIOUS
  <2>2. F[n + 1] = EndOne(F[(n + 1) - 1], how)
    BY <1>7, <2>1
  <2> QED BY <2>1, <2>2
<1> QED BY <1>6, <1>8, <1>9

-----------------------------------------------------------------------------
(***************************************************************************)
(* mdb_txn_abort and _mdb_txn_commit of a transaction with children.       *)
(***************************************************************************)

\* Only the last transaction can have failed.
OneErr(ts) == \A l \in 1 .. Len(ts) - 1 : ~ts[l].err

\* Transactions 1 .. n are in a as they are now.
SameTo(a, n) == \A l \in 1 .. n : a.txns[l] = txns[l] /\ ValsAt(db, a, l) = ValsAt(db, Now, l)

\* After the ends of the last i transactions.
Left(how, i, a) ==
  /\ a \in StRec /\ All(db, a) /\ Top(a) = Len(txns) - i /\ a.file = db.file
  /\ SameTo(a, Len(txns) - i - 1)
  /\ how = "abort" => a.rc = "OK" /\ SameTo(a, Len(txns) - i)
  /\ (how # "abort" /\ a.rc = "OK") => /\ txns[Len(txns)].err => a.txns[Len(txns) - i].err
                                       /\ ValsAt(db, a, Len(txns) - i) = ValsAt(db, Now, Len(txns))
  /\ (how = "none" /\ ~txns[Len(txns)].err) => a.rc = "OK" /\ ~a.txns[Len(txns) - i].err

LEMMA LeftStep ==
  ASSUME TypeOK, OneErr(txns), NEW how, NEW i \in Nat, i + 1 < Len(txns), NEW s, Left(how, i, s),
         NEW a, a = EndOne(s, how)
  PROVE  Left(how, i + 1, a)
<1> DEFINE N == Len(txns)
           n == N - i
<1>0. N \in Nat /\ n \in Nat /\ n > 1 /\ N - (i + 1) = n - 1 /\ N - (i + 1) - 1 = n - 2
  <2>1. N \in Nat
    BY DEF TypeOK
  <2> QED BY <2>1
<1>1. /\ s \in StRec /\ All(db, s) /\ Top(s) = n /\ s.file = db.file /\ SameTo(s, n - 1)
      /\ how = "abort" => s.rc = "OK" /\ SameTo(s, n)
      /\ (how # "abort" /\ s.rc = "OK") => /\ txns[N].err => s.txns[n].err
                                           /\ ValsAt(db, s, n) = ValsAt(db, Now, N)
      /\ (how = "none" /\ ~txns[N].err) => s.rc = "OK" /\ ~s.txns[n].err
  BY DEF Left
<1>2. Ended1(db, s, how, a)
  BY <1>0, <1>1, EndOneIs
<1>p. ~txns[n - 1].err
  <2>1. n - 1 \in 1 .. N - 1
    BY <1>0
  <2> QED BY <2>1 DEF OneErr
<1> HIDE DEF n, N
<1>3. /\ a \in StRec /\ All(db, a) /\ Top(a) = n - 1 /\ a.file = db.file
      /\ \A l \in 1 .. n - 2 : a.txns[l] = s.txns[l] /\ ValsAt(db, a, l) = ValsAt(db, s, l)
  BY <1>1, <1>2 DEF Ended1, Ends
<1>4. n - 1 \in 1 .. n - 1 /\ \A l \in 1 .. n - 2 : l \in 1 .. n - 1
  BY <1>0
<1>5. \A l \in 1 .. n - 1 : l = n - 1 \/ l \in 1 .. n - 2
  BY <1>0
<1>6. SameTo(a, n - 2)
  BY <1>1, <1>3, <1>4 DEF SameTo
<1>7. Drops(db, s, a) => SameTo(a, n - 1)
  <2> SUFFICES ASSUME Drops(db, s, a) PROVE SameTo(a, n - 1)
    OBVIOUS
  <2>1. a.txns[n - 1] = s.txns[n - 1] /\ ValsAt(db, a, n - 1) = ValsAt(db, s, n - 1)
    BY <1>1 DEF Drops
  <2>2. a.txns[n - 1] = txns[n - 1] /\ ValsAt(db, a, n - 1) = ValsAt(db, Now, n - 1)
    BY <1>1, <1>4, <2>1 DEF SameTo
  <2> QED BY <1>5, <1>6, <2>2 DEF SameTo
<1>8. how = "abort" => a.rc = "OK" /\ SameTo(a, n - 1)
  BY <1>1, <1>2, <1>7 DEF Ended1
<1>9. ASSUME how # "abort", a.rc = "OK"
      PROVE  /\ txns[N].err => a.txns[n - 1].err
             /\ ValsAt(db, a, n - 1) = ValsAt(db, Now, N)
  <2>1. s.rc = "OK"
    BY <1>2, <1>9 DEF Ended1
  <2>2. Hands(db, s, a)
    BY <1>2, <1>9, <2>1 DEF Ended1, Breaks
  <2>3. ~s.txns[n].err /\ ValsAt(db, a, n - 1) = ValsAt(db, s, n)
    BY <1>1, <2>2 DEF Hands, T
  <2> QED BY <1>1, <1>9, <2>1, <2>3
<1>10. ASSUME how = "none", ~txns[N].err PROVE a.rc = "OK" /\ ~a.txns[n - 1].err
  <2>1. Hands(db, s, a)
    BY <1>1, <1>2, <1>10 DEF Ended1, T
  <2>2. a.rc = "OK" /\ a.txns[n - 1].err = s.txns[n - 1].err
    BY <1>1, <2>1 DEF Hands
  <2>3. s.txns[n - 1] = txns[n - 1]
    BY <1>1, <1>4 DEF SameTo
  <2> QED BY <1>p, <2>2, <2>3
<1> QED BY <1>0, <1>3, <1>6, <1>8, <1>9, <1>10 DEF Left, n, N

LEMMA LeftIs ==
  ASSUME TypeOK, IInv, OneErr(txns), NEW how
  PROVE  \A i \in 0 .. Len(txns) - 1 : Left(how, i, Ended(how, i))
<1> DEFINE N == Len(txns)
           S == {i \in 0 .. N - 1 : ~Left(how, i, Ended(how, i))}
<1> SUFFICES ASSUME S # {} PROVE FALSE
  OBVIOUS
<1>1. PICK i \in S : \A x \in S : i <= x
  <2>1. S \subseteq Nat
    OBVIOUS
  <2> QED BY <2>1, NatHasMin
<1>2. i \in 0 .. N - 1 /\ ~Left(how, i, Ended(how, i)) /\ N \in Nat
  BY DEF TypeOK
<1>3. CASE i = 0
  <2>1. Ended(how, 0) = Now
    BY EndedIs
  <2>2. /\ Now \in StRec /\ Top(Now) = N /\ Now.file = db.file /\ Now.rc = "OK" /\ Now.txns = txns
    BY NowIs
  <2>3. All(db, Now)
    BY DEF IInv
  <2>4. N - 0 = N
    BY <1>2
  <2>5. \A n : SameTo(Now, n)
    BY <2>2 DEF SameTo
  <2>6. Left(how, 0, Now)
    BY <2>2, <2>3, <2>4, <2>5 DEF Left
  <2> QED BY <1>2, <1>3, <2>1, <2>6
<1>4. CASE i # 0
  <2> DEFINE j == i - 1
  <2>1. j \in Nat /\ j \in 0 .. N - 1 /\ ~ (i <= j) /\ j + 1 = i /\ j + 1 < N
    BY <1>2, <1>4
  <2>2. Left(how, j, Ended(how, j))
    <3>1. j \notin S
      BY <1>1, <2>1
    <3> QED BY <2>1, <3>1
  <2>3. Ended(how, j + 1) = EndOne(Ended(how, j), how)
    BY <2>1, EndedIs
  <2>4. Left(how, j + 1, Ended(how, j + 1))
    BY <2>1, <2>2, <2>3, LeftStep
  <2> QED BY <1>2, <2>1, <2>4
<1> QED BY <1>3, <1>4

\* Transaction l and those above it are gone.
Cut(l, a) == /\ a \in StRec /\ All(db, a) /\ Top(a) = l - 1 /\ a.file = db.file
             /\ SameTo(a, l - 1)
             /\ l = 1 => \A c \in Cursors : ~a.mc[c].init

LEMMA CutIs ==
  ASSUME NEW l \in Nat, NEW s \in StRec, All(db, s), Top(s) = l, l # 0, s.file = db.file,
         SameTo(s, l - 1), NEW a, a = AbortOne(s)
  PROVE  Cut(l, a) /\ a.rc = s.rc
<1>1. Popped(db, s, a)
  BY AbortOneIs
<1>2. /\ a \in StRec /\ All(db, a) /\ Top(a) = l - 1 /\ a.file = db.file /\ a.rc = s.rc
      /\ l = 1 => \A c \in Cursors : ~a.mc[c].init
      /\ \A k \in 1 .. l - 1 : a.txns[k] = s.txns[k] /\ ValsAt(db, a, k) = ValsAt(db, s, k)
  BY <1>1 DEF Popped
<1> QED BY <1>2 DEF Cut, SameTo

LEMMA AbortsIs ==
  ASSUME TypeOK, IInv, OneErr(txns), NEW l \in DOMAIN txns
  PROVE  Cut(l, Ended("abort", Len(txns) - l + 1))
<1> DEFINE N == Len(txns)
           i == N - l
           s == Ended("abort", i)
           a == Ended("abort", i + 1)
<1>1. N \in Nat /\ l \in 1 .. N /\ i \in Nat /\ i \in 0 .. N - 1 /\ N - i = l /\ l # 0 /\ l \in Nat
  BY DEF TypeOK
<1>2. Left("abort", i, s)
  BY <1>1, LeftIs
<1>3. a = EndOne(s, "abort")
  BY <1>1, EndedIs
<1> HIDE DEF a, s, i
<1>4. a = AbortOne(s)
  BY <1>3 DEF EndOne
<1>5. /\ s \in StRec /\ All(db, s) /\ Top(s) = l /\ s.file = db.file /\ SameTo(s, l - 1)
  BY <1>1, <1>2 DEF Left
<1>6. Cut(l, a)
  BY <1>1, <1>4, <1>5, CutIs
<1> QED BY <1>6 DEF a, i

\* The commit of transaction l into its parent, or what is left when it fails.
Into(l, a) ==
  \/ Cut(l, a)
  \/ /\ a \in StRec /\ All(db, a) /\ Top(a) = l - 1 /\ a.file = db.file
     /\ SameTo(a, l - 2)
     /\ \/ a.txns[l - 1].err
        \/ /\ ~a.txns[l - 1].err /\ ~txns[Len(txns)].err
           /\ ValsAt(db, a, l - 1) = ValsAt(db, Now, Len(txns))

LEMMA IntoIs ==
  ASSUME TypeOK, IInv, OneErr(txns), NEW l \in DOMAIN txns, l > 1, NEW f, f # "abort",
         NEW a, a = EndOne(Ended(f, Len(txns) - l), f)
  PROVE  /\ Into(l, a)
         /\ (f = "none" /\ ~txns[Len(txns)].err) =>
              /\ ~a.txns[l - 1].err
              /\ ValsAt(db, a, l - 1) = ValsAt(db, Now, Len(txns))
<1> DEFINE N == Len(txns)
           i == N - l
           s == Ended(f, i)
<1>1. /\ N \in Nat /\ l \in 1 .. N /\ i \in Nat /\ i \in 0 .. N - 1 /\ N - i = l /\ l \in Nat
      /\ l - 1 \in 1 .. l - 1 /\ l - 1 \in 1 .. N - 1 /\ \A k \in 1 .. l - 2 : k \in 1 .. l - 1
  BY DEF TypeOK
<1>2. Left(f, i, s)
  BY <1>1, LeftIs
<1>e. a = EndOne(s, f)
  OBVIOUS
<1> HIDE DEF s, i, N
<1>3. /\ s \in StRec /\ All(db, s) /\ Top(s) = l /\ s.file = db.file /\ SameTo(s, l - 1)
      /\ s.rc = "OK" => /\ txns[N].err => s.txns[l].err
                        /\ ValsAt(db, s, l) = ValsAt(db, Now, N)
      /\ (f = "none" /\ ~txns[N].err) => s.rc = "OK" /\ ~s.txns[l].err
  BY <1>1, <1>2 DEF Left, N
<1>4. Ended1(db, s, f, a)
  BY <1>3, <1>e, EndOneIs
<1>5. /\ a \in StRec /\ All(db, a) /\ Top(a) = l - 1 /\ a.file = db.file
      /\ \A k \in 1 .. l - 2 : a.txns[k] = s.txns[k] /\ ValsAt(db, a, k) = ValsAt(db, s, k)
  BY <1>3, <1>4 DEF Ended1, Ends
<1>6. SameTo(a, l - 2)
  BY <1>1, <1>3, <1>5 DEF SameTo
<1>7. ASSUME Drops(db, s, a) PROVE Into(l, a)
  <2>1. a.txns[l - 1] = s.txns[l - 1] /\ ValsAt(db, a, l - 1) = ValsAt(db, s, l - 1)
    BY <1>3, <1>7 DEF Drops
  <2>2. a.txns[l - 1] = txns[l - 1] /\ ValsAt(db, a, l - 1) = ValsAt(db, Now, l - 1)
    BY <1>1, <1>3, <2>1 DEF SameTo
  <2>3. \A k \in 1 .. l - 1 : k = l - 1 \/ k \in 1 .. l - 2
    BY <1>1
  <2>4. SameTo(a, l - 1)
    BY <1>6, <2>2, <2>3 DEF SameTo
  <2>5. Cut(l, a)
    BY <1>1, <1>5, <2>4 DEF Cut
  <2> QED BY <2>5 DEF Into
<1>8. ASSUME Breaks(s, a) PROVE Into(l, a)
  <2>1. a.txns[l - 1].err
    BY <1>3, <1>8 DEF Breaks
  <2> QED BY <1>5, <1>6, <2>1 DEF Into
<1>9. ASSUME Hands(db, s, a)
      PROVE  /\ Into(l, a) /\ ~a.txns[l - 1].err
             /\ ValsAt(db, a, l - 1) = ValsAt(db, Now, N)
  <2>1. /\ s.rc = "OK" /\ ~s.txns[l].err /\ ValsAt(db, a, l - 1) = ValsAt(db, s, l)
        /\ a.txns[l - 1].err = s.txns[l - 1].err
    BY <1>3, <1>9 DEF Hands, T
  <2>2. ~txns[N].err /\ ValsAt(db, a, l - 1) = ValsAt(db, Now, N)
    BY <1>3, <2>1
  <2>3. s.txns[l - 1] = txns[l - 1] /\ ~txns[l - 1].err
    BY <1>1, <1>3 DEF SameTo, OneErr, N
  <2>4. ~a.txns[l - 1].err
    BY <2>1, <2>3
  <2>5. Into(l, a)
    BY <1>5, <1>6, <2>2, <2>4 DEF Into, N
  <2> QED BY <2>2, <2>4, <2>5
<1>10. Into(l, a)
  BY <1>4, <1>7, <1>8, <1>9 DEF Ended1
<1>11. (f = "none" /\ ~txns[N].err) => Hands(db, s, a)
  BY <1>3, <1>4 DEF Ended1, T
<1> QED BY <1>9, <1>10, <1>11 DEF N

\* The commit of the top-level transaction: it fails and leaves nothing, or it
\* commits what the last transaction sees.
LEMMA CommitsIs ==
  ASSUME TypeOK, IInv, OneErr(txns), NEW f, f # "abort", 1 \in DOMAIN txns,
         NEW kids, kids = Ended(f, Len(txns) - 1), NEW s, s = EndOne(kids, f)
  PROVE  /\ s.rc # "OK" => Cut(1, s)
         /\ s.rc = "OK" => /\ kids \in StRec /\ All(db, kids) /\ Top(kids) = 1
                           /\ kids.file = db.file /\ s.file = Flushed(db.file, T(kids))
                           /\ ~txns[Len(txns)].err
                           /\ ValsAt(db, kids, 1) = ValsAt(db, Now, Len(txns))
         /\ (f = "none" /\ ~txns[Len(txns)].err) => s.rc = "OK"
<1> DEFINE N == Len(txns)
           i == N - 1
<1>1. N \in Nat /\ i \in Nat /\ i \in 0 .. N - 1 /\ N - i = 1 /\ 1 - 1 = 0 /\ 1 \in Nat
  BY DEF TypeOK
<1>2. Left(f, i, kids)
  BY <1>1, LeftIs
<1> HIDE DEF i, N
<1>3. /\ kids \in StRec /\ All(db, kids) /\ Top(kids) = 1 /\ kids.file = db.file /\ SameTo(kids, 0)
      /\ kids.rc = "OK" => /\ txns[N].err => kids.txns[1].err
                           /\ ValsAt(db, kids, 1) = ValsAt(db, Now, N)
      /\ (f = "none" /\ ~txns[N].err) => kids.rc = "OK" /\ ~kids.txns[1].err
  BY <1>1, <1>2 DEF Left, N
<1>4. CASE kids.rc # "OK"
  <2>1. s = AbortOne(kids)
    BY <1>4 DEF EndOne
  <2>2. Cut(1, s) /\ s.rc = kids.rc
    BY <1>1, <1>3, <2>1, CutIs
  <2> QED BY <1>3, <1>4, <2>2 DEF N
<1>5. CASE kids.rc = "OK"
  <2>1. s = CommitTop(kids)
    BY <1>3, <1>5 DEF EndOne
  <2>2. CASE T(kids).err
    <3> DEFINE x == AbortOne(kids)
    <3>1. s = [x EXCEPT !.rc = "BAD_TXN"]
      BY <2>1, <2>2 DEF CommitTop
    <3>2. Cut(1, x)
      BY <1>1, <1>3, CutIs
    <3> HIDE DEF x
    <3>3. x \in StRec /\ All(db, x) /\ "BAD_TXN" \in Rcs
      BY <3>2 DEF Cut, Rcs
    <3>4. /\ s \in StRec /\ All(db, s) /\ s.rc = "BAD_TXN" /\ s.file = x.file /\ s.txns = x.txns
          /\ s.mc = x.mc /\ Top(s) = Top(x) /\ \A l : ValsAt(db, s, l) = ValsAt(db, x, l)
      BY <3>1, <3>3, WithRc
    <3>5. Cut(1, s)
      BY <3>2, <3>4 DEF Cut, SameTo
    <3>6. ~(f = "none" /\ ~txns[N].err)
      BY <1>3, <2>2 DEF T
    <3> QED BY <3>4, <3>5, <3>6 DEF N
  <2>3. CASE ~T(kids).err
    <3>1. s.file = Flushed(kids.file, T(kids)) /\ s.rc = kids.rc
      BY <1>3, <2>1, <2>3, CommitTopIs
    <3>2. ~txns[N].err
      BY <1>3, <1>5, <2>3 DEF T
    <3> QED BY <1>3, <1>5, <3>1, <3>2 DEF N
  <2> QED BY <2>2, <2>3
<1> QED BY <1>4, <1>5

-----------------------------------------------------------------------------
(***************************************************************************)
(* The inductive invariant, and the operations of the last transaction.    *)
(***************************************************************************)

\* No cursor is open outside a transaction.
Closed == txns = <<>> => \A c \in Cursors : ~mc[c].init

\* The inductive invariant.
Whole == TypeOK /\ IInv /\ OneErr(txns) /\ Closed /\ Leaf # {}

\* Transactions 1 .. n stay as they are.
Stay(n)   == \A l \in 1 .. n : txns'[l] = txns[l] /\ ValsAt(db, Now, l)' = ValsAt(db, Now, l)
StoreKept == ValOf(db.file, db.root)' = ValOf(db.file, db.root)

\* What a state a that is reached from the present one gives after Becomes(a).
LEMMA ReachIs ==
  ASSUME Whole, NEW a \in StRec, All(db, a), Becomes(a), OneErr(a.txns),
         a.txns = <<>> => \A c \in Cursors : ~a.mc[c].init
  PROVE  /\ Whole' /\ txns' = a.txns /\ Len(txns') = Top(a)
         /\ ValOf(db.file, db.root)' = ValOf(a.file, db.root)
         /\ \A l : ValsAt(db, Now, l)' = ValsAt(db, a, l)
<1>1. /\ TypeOK' /\ IInv' /\ txns' = a.txns /\ Top(a) = Len(txns')
      /\ ValOf(db'.file, db'.root) = ValOf(a.file, db.root)
      /\ \A l : ValsAt(db', Now', l) = ValsAt(db, a, l)
  BY AllBecomes DEF Whole
<1>2. \A c \in Cursors : mc'[c] = a.mc[c]
  BY BecomesIs DEF Whole
<1>3. Closed'
  BY <1>1, <1>2 DEF Closed
<1>4. OneErr(txns)'
  BY <1>1 DEF OneErr
<1> QED BY <1>1, <1>3, <1>4 DEF Whole

\* An operation of the last transaction.
LEMMA OpIs ==
  ASSUME Whole, Usable, NEW e2, NEW a, NEW V, Did(db, EnvAt(db, Now, Len(txns)), e2, Now, a, V),
         Becomes(a)
  PROVE  /\ Whole' /\ Len(txns') = Len(txns) /\ Stay(Len(txns) - 1) /\ StoreKept
         /\ \/ txns'[Len(txns)].err
            \/ ~txns'[Len(txns)].err /\ ValsAt(db, Now, Len(txns))' = V
<1> DEFINE N == Len(txns)
<1>1. /\ Now \in StRec /\ Top(Now) = N /\ N \in Nat /\ N # 0 /\ N \in 1 .. N /\ Now.txns = txns
      /\ Now.file = db.file /\ All(db, Now) /\ TypeOK
  <2>1. /\ Now \in StRec /\ Top(Now) = N /\ Now.txns = txns /\ Now.file = db.file
    BY NowIs DEF Whole
  <2>2. N \in Nat /\ N # 0
    BY DEF Whole, TypeOK, Usable
  <2> QED BY <2>1, <2>2 DEF Whole, IInv
<1>2. /\ Fits(db, e2, a) /\ Along(Now, a) /\ FileKept(Now, a) /\ Good(e2, T(a), a.head, a.mc, {})
      /\ \/ a.rc # "OK" /\ T(a).err
         \/ a.rc = "OK" /\ T(a).err = T(Now).err /\ Vals(e2, T(a)) = V
  BY DEF Did
<1>3. Lifted(db, Now, a)
  BY <1>1, <1>2, LiftIs
<1>4. /\ a \in StRec /\ All(db, a) /\ Top(a) = N /\ ValOf(a.file, db.root) = ValOf(db.file, db.root)
      /\ \A l \in 1 .. N - 1 : a.txns[l] = txns[l] /\ ValsAt(db, a, l) = ValsAt(db, Now, l)
      /\ Len(a.txns) = N /\ T(a) = a.txns[N] /\ T(Now) = txns[N]
  BY <1>1, <1>2, <1>3, FitsIs DEF Lifted, Top, T
<1>5. OneErr(a.txns) /\ a.txns # <<>>
  BY <1>1, <1>4 DEF Whole, OneErr
<1>6. /\ Whole' /\ txns' = a.txns /\ Len(txns') = Top(a)
      /\ ValOf(db.file, db.root)' = ValOf(a.file, db.root)
      /\ \A l : ValsAt(db, Now, l)' = ValsAt(db, a, l)
  BY <1>4, <1>5, ReachIs
<1>7. Stay(N - 1) /\ StoreKept
  BY <1>4, <1>6 DEF Stay, StoreKept
<1>8. ~txns[N].err
  BY <1>1 DEF Usable, Last
<1>9. e2 = EnvAt(db, a, N)
  BY <1>4, <1>2 DEF Fits, EnvAt
<1>10. Vals(e2, T(a)) = ValsAt(db, a, N)
  BY <1>4, <1>9 DEF ValsAt
<1>11. ASSUME ~txns'[N].err PROVE ValsAt(db, Now, N)' = V
  BY <1>2, <1>4, <1>6, <1>10, <1>11
<1>12. txns'[N].err \/ (~txns'[N].err /\ ValsAt(db, Now, N)' = V)
  BY <1>11
<1> QED BY <1>4, <1>6, <1>7, <1>12

\* The present state is one the operations can begin in.
LEMMA StartIs ==
  ASSUME Whole, Usable
  PROVE  /\ Fits(db, EnvAt(db, Now, Len(txns)), Now) /\ Now.rc = "OK" /\ T(Now) = txns[Len(txns)]
         /\ Good(EnvAt(db, Now, Len(txns)), T(Now), Now.head, Now.mc, {})
<1>1. Now \in StRec /\ Top(Now) = Len(txns) /\ Now.rc = "OK" /\ Now.txns = txns
  BY NowIs DEF Whole
<1>2. All(db, Now) /\ Top(Now) # 0
  BY <1>1 DEF Whole, IInv, Usable, TypeOK
<1> QED BY <1>1, <1>2, AllIs DEF T

V0 == ValsAt(db, Now, Len(txns))

LEMMA SetDoes ==
  ASSUME Whole, NEW c \in Cursors, NEW n \in Leaf, Set(c, n)
  PROVE  \E e2, a : Did(db, EnvAt(db, Now, Len(txns)), e2, Now, a, V0) /\ Becomes(a) /\ Usable
<1> DEFINE e == EnvAt(db, Now, Len(txns))
           a == Position(Now, c, n)
<1>1. Usable /\ Becomes(a)
  BY DEF Set, Mine
<1>2. /\ Fits(db, e, Now) /\ Now.rc = "OK" /\ Good(e, T(Now), Now.head, Now.mc, {})
      /\ T(Now) = txns[Len(txns)] /\ Now.txns = txns
  BY <1>1, StartIs, NowIs DEF Whole
<1>3. c \in Cursors \cup {Local}
  OBVIOUS
<1>4. Positioned(db, e, Now, c, n, a)
  BY <1>2, <1>3, PositionIs
<1> HIDE DEF a, e
<1>5. /\ Fits(db, e, a) /\ Along(Now, a) /\ FileKept(Now, a) /\ Good(e, T(a), a.head, a.mc, {})
      /\ a.rc = "OK" /\ T(a) = T(Now)
  BY <1>4 DEF Positioned, Ready, FileKept
<1>6. V0 = Vals(e, T(Now))
  BY <1>2 DEF V0, ValsAt, e
<1>7. Did(db, e, e, Now, a, V0)
  BY <1>5, <1>6 DEF Did
<1> QED BY <1>1, <1>7 DEF e

LEMMA UpdateDoes ==
  ASSUME Whole, NEW c \in Cursors, NEW v \in Val, Update(c, v)
  PROVE  /\ Usable
         /\ \E e2, a : \E n \in Leaf : Did(db, EnvAt(db, Now, Len(txns)), e2, Now, a, [V0 EXCEPT ![n] = v])
                                       /\ Becomes(a) /\ n = mc[c].leaf
<1> DEFINE e == EnvAt(db, Now, Len(txns))
           a == CursorPut(Now, c, v)
           n == Now.mc[c].leaf
<1>1. Usable /\ Becomes(a) /\ mc[c].init
  BY DEF Update, Mine
<1>2. /\ Fits(db, e, Now) /\ Now.rc = "OK" /\ Good(e, T(Now), Now.head, Now.mc, {})
      /\ T(Now) = txns[Len(txns)] /\ Now.txns = txns /\ Now.mc[c] = mc[c]
  BY <1>1, StartIs, NowIs DEF Whole
<1>3. V0 = Vals(e, T(Now))
  BY <1>2 DEF V0, ValsAt
<1> HIDE DEF a, e
<1>4. Ready(db, e, Now, c) /\ n \in Leaf
  BY <1>1, <1>2 DEF Ready, Work, Good, Curs
<1>5. PICK e2 : Did(db, e, e2, Now, a, [Vals(e, T(Now)) EXCEPT ![n] = v])
  BY <1>4, CursorPutIs DEF a
<1> QED BY <1>1, <1>2, <1>3, <1>4, <1>5 DEF e

\* From the state where the function's own cursor is at its place.
LEMMA FromPosition ==
  ASSUME Whole, Usable, NEW n \in Leaf, NEW e2, NEW a, NEW V,
         NEW e, e = EnvAt(db, Now, Len(txns)),
         NEW s, s = Position(Now, Local, n), Did(db, e, e2, s, a, V)
  PROVE  Did(db, e, e2, Now, a, V)
<1>2. Fits(db, e, Now) /\ Now.rc = "OK" /\ Good(e, T(Now), Now.head, Now.mc, {})
  BY StartIs
<1>3. Local \in Cursors \cup {Local}
  OBVIOUS
<1>4. Positioned(db, e, Now, Local, n, s)
  BY <1>2, <1>3, PositionIs
<1>5. /\ Along(Now, s) /\ T(s) = T(Now) /\ s.file = Now.file /\ s.txns = Now.txns /\ Top(s) = Top(Now)
  BY <1>4 DEF Positioned
<1>6. /\ Fits(db, e2, a) /\ Along(s, a) /\ FileKept(s, a) /\ Good(e2, T(a), a.head, a.mc, {})
      /\ \/ a.rc # "OK" /\ T(a).err
         \/ a.rc = "OK" /\ T(a).err = T(s).err /\ Vals(e2, T(a)) = V
  BY DEF Did
<1>7. Along(Now, a)
  BY <1>5, <1>6, AlongTrans
<1>8. FileKept(Now, a)
  BY <1>5, <1>6 DEF FileKept
<1> QED BY <1>5, <1>6, <1>7, <1>8 DEF Did

LEMMA PutDoes ==
  ASSUME Whole, NEW n \in Leaf, NEW v \in Val, Put(n, v)
  PROVE  /\ Usable
         /\ \E e2, a : Did(db, EnvAt(db, Now, Len(txns)), e2, Now, a, [V0 EXCEPT ![n] = v]) /\ Becomes(a)
<1> DEFINE e == EnvAt(db, Now, Len(txns))
           s == Position(Now, Local, n)
           a == CursorPut(s, Local, v)
<1>1. Usable /\ Becomes(a)
  BY DEF Put
<1>2. /\ Fits(db, e, Now) /\ Now.rc = "OK" /\ Good(e, T(Now), Now.head, Now.mc, {})
      /\ T(Now) = txns[Len(txns)] /\ Now.txns = txns
  BY <1>1, StartIs, NowIs DEF Whole
<1>3. Local \in Cursors \cup {Local}
  OBVIOUS
<1>4. Positioned(db, e, Now, Local, n, s)
  BY <1>2, <1>3, PositionIs
<1>5. V0 = Vals(e, T(Now))
  BY <1>2 DEF V0, ValsAt
<1> HIDE DEF a, e, s
<1>6. Ready(db, e, s, Local) /\ T(s) = T(Now) /\ s.mc[Local].leaf = n
  BY <1>4 DEF Positioned
<1>7. PICK e2 : Did(db, e, e2, s, a, [Vals(e, T(s)) EXCEPT ![s.mc[Local].leaf] = v])
  BY <1>6, CursorPutIs DEF a
<1>8. Did(db, e, e2, s, a, [V0 EXCEPT ![n] = v])
  BY <1>5, <1>6, <1>7
<1>9. Did(db, e, e2, Now, a, [V0 EXCEPT ![n] = v])
  BY <1>1, <1>8, FromPosition DEF e, s
<1> QED BY <1>1, <1>9 DEF e

LEMMA DelDoes ==
  ASSUME Whole, NEW n \in Leaf, Del(n)
  PROVE  /\ Usable
         /\ \E e2, a : Did(db, EnvAt(db, Now, Len(txns)), e2, Now, a, [V0 EXCEPT ![n] = NoVal]) /\ Becomes(a)
<1> DEFINE e == EnvAt(db, Now, Len(txns))
           s == Position(Now, Local, n)
           a == CursorDel(s, Local)
<1>1. Usable /\ Becomes(a) /\ s.mc[Local].init
  BY DEF Del
<1>2. /\ Fits(db, e, Now) /\ Now.rc = "OK" /\ Good(e, T(Now), Now.head, Now.mc, {})
      /\ T(Now) = txns[Len(txns)] /\ Now.txns = txns
  BY <1>1, StartIs, NowIs DEF Whole
<1>3. Local \in Cursors \cup {Local}
  OBVIOUS
<1>4. Positioned(db, e, Now, Local, n, s)
  BY <1>2, <1>3, PositionIs
<1>5. V0 = Vals(e, T(Now))
  BY <1>2 DEF V0, ValsAt
<1> HIDE DEF a, e, s
<1>6. /\ Ready(db, e, s, Local) /\ T(s) = T(Now) /\ s.mc[Local].leaf = n
      /\ Kids(e, T(s))[s.mc[Local].leaf] # NoPg
  BY <1>1, <1>4 DEF Positioned
<1>7. PICK e2 : Did(db, e, e2, s, a, [Vals(e, T(s)) EXCEPT ![s.mc[Local].leaf] = NoVal])
  BY <1>6, CursorDelIs DEF a
<1>8. Did(db, e, e2, s, a, [V0 EXCEPT ![n] = NoVal])
  BY <1>5, <1>6, <1>7
<1>9. Did(db, e, e2, Now, a, [V0 EXCEPT ![n] = NoVal])
  BY <1>1, <1>8, FromPosition DEF e, s
<1> QED BY <1>1, <1>9 DEF e

LEMMA DropDoes ==
  ASSUME Whole, Drop
  PROVE  /\ Usable
         /\ \E e2, a : Did(db, EnvAt(db, Now, Len(txns)), e2, Now, a, [n \in Leaf |-> NoVal]) /\ Becomes(a)
<1> DEFINE e == EnvAt(db, Now, Len(txns))
           a == Dropped(Now)
<1>1. Usable /\ Becomes(a) /\ txns[Len(txns)].root # NoPg
  BY DEF Drop, Last
<1>2. /\ Fits(db, e, Now) /\ Now.rc = "OK" /\ Good(e, T(Now), Now.head, Now.mc, {})
      /\ T(Now) = txns[Len(txns)]
  BY <1>1, StartIs
<1> HIDE DEF e, a
<1>3. Did(db, e, e, Now, a, [n \in Leaf |-> NoVal])
  BY <1>1, <1>2, DroppedIs DEF a
<1> QED BY <1>1, <1>3 DEF e

-----------------------------------------------------------------------------
(***************************************************************************)
(* Abort, Commit and Open.                                                 *)
(***************************************************************************)

LEMMA AbortDoes ==
  ASSUME Whole, NEW l \in DOMAIN txns, Abort(l)
  PROVE  Whole' /\ Len(txns') = l - 1 /\ Stay(l - 1) /\ StoreKept
<1> DEFINE a == Ended("abort", Len(txns) - l + 1)
<1>1. Cut(l, a) /\ Becomes(a)
  BY AbortsIs DEF Whole, Abort
<1> HIDE DEF a
<1>2. l \in 1 .. Len(txns) /\ Len(txns) \in Nat
  BY DEF Whole, TypeOK
<1>3. /\ a \in StRec /\ All(db, a) /\ Top(a) = l - 1 /\ a.file = db.file
      /\ \A k \in 1 .. l - 1 : a.txns[k] = txns[k] /\ ValsAt(db, a, k) = ValsAt(db, Now, k)
      /\ l = 1 => \A c \in Cursors : ~a.mc[c].init
  BY <1>1 DEF Cut, SameTo
<1>4. Len(a.txns) = l - 1
  BY <1>3 DEF Top
<1>5. OneErr(a.txns)
  <2> SUFFICES ASSUME NEW k \in 1 .. Len(a.txns) - 1 PROVE ~a.txns[k].err
    BY DEF OneErr
  <2>1. k \in 1 .. l - 1 /\ k \in 1 .. Len(txns) - 1
    BY <1>2, <1>4
  <2>2. ~txns[k].err
    BY <2>1 DEF Whole, OneErr
  <2> QED BY <1>3, <2>1, <2>2
<1>6. a.txns = <<>> => \A c \in Cursors : ~a.mc[c].init
  BY <1>2, <1>3, <1>4
<1>7. /\ Whole' /\ txns' = a.txns /\ Len(txns') = Top(a)
      /\ ValOf(db.file, db.root)' = ValOf(a.file, db.root)
      /\ \A k : ValsAt(db, Now, k)' = ValsAt(db, a, k)
  BY <1>1, <1>3, <1>5, <1>6, ReachIs
<1> QED BY <1>3, <1>7 DEF Stay, StoreKept

\* A commit into the parent, or its failure.
LEMMA CommitChildDoes ==
  ASSUME Whole, NEW l \in DOMAIN txns, NEW f, f # "abort", Commit(l, f), l > 1
  PROVE  /\ Whole' /\ Len(txns') = l - 1 /\ Stay(l - 2) /\ StoreKept
         /\ \/ Stay(l - 1)
            \/ txns'[l - 1].err
            \/ /\ ~txns'[l - 1].err /\ ~txns[Len(txns)].err
               /\ ValsAt(db, Now, l - 1)' = ValsAt(db, Now, Len(txns))
         /\ (f = "none" /\ ~txns[Len(txns)].err) =>
              /\ ~txns'[l - 1].err
              /\ ValsAt(db, Now, l - 1)' = ValsAt(db, Now, Len(txns))
<1> DEFINE N == Len(txns)
           a == EndOne(Ended(f, N - l), f)
<1>1. /\ Into(l, a) /\ Becomes(a)
      /\ (f = "none" /\ ~txns[N].err) => /\ ~a.txns[l - 1].err
                                         /\ ValsAt(db, a, l - 1) = ValsAt(db, Now, N)
  BY IntoIs DEF Whole, Commit
<1> HIDE DEF a, N
<1>2. l \in 1 .. N /\ N \in Nat /\ N = Len(txns) /\ \A k \in 1 .. l - 2 : k \in 1 .. l - 1
  BY DEF Whole, TypeOK, N
<1>3. /\ a \in StRec /\ All(db, a) /\ Top(a) = l - 1 /\ a.file = db.file
      /\ \A k \in 1 .. l - 2 : a.txns[k] = txns[k] /\ ValsAt(db, a, k) = ValsAt(db, Now, k)
      /\ \/ \A k \in 1 .. l - 1 : a.txns[k] = txns[k] /\ ValsAt(db, a, k) = ValsAt(db, Now, k)
         \/ a.txns[l - 1].err
         \/ /\ ~a.txns[l - 1].err /\ ~txns[N].err /\ ValsAt(db, a, l - 1) = ValsAt(db, Now, N)
  BY <1>1, <1>2 DEF Into, Cut, SameTo
<1>4. Len(a.txns) = l - 1
  BY <1>3 DEF Top
<1>5. OneErr(a.txns)
  <2> SUFFICES ASSUME NEW k \in 1 .. Len(a.txns) - 1 PROVE ~a.txns[k].err
    BY DEF OneErr
  <2>1. k \in 1 .. l - 2 /\ k \in 1 .. Len(txns) - 1
    BY <1>2, <1>4
  <2>2. ~txns[k].err
    BY <2>1 DEF Whole, OneErr
  <2> QED BY <1>3, <2>1, <2>2
<1>6. a.txns # <<>>
  BY <1>2, <1>4
<1>7. /\ Whole' /\ txns' = a.txns /\ Len(txns') = Top(a)
      /\ ValOf(db.file, db.root)' = ValOf(a.file, db.root)
      /\ \A k : ValsAt(db, Now, k)' = ValsAt(db, a, k)
  BY <1>1, <1>3, <1>5, <1>6, ReachIs
<1>8. Stay(l - 2) /\ StoreKept
  BY <1>3, <1>7 DEF Stay, StoreKept
<1>9. \/ Stay(l - 1)
      \/ txns'[l - 1].err
      \/ /\ ~txns'[l - 1].err /\ ~txns[N].err
         /\ ValsAt(db, Now, l - 1)' = ValsAt(db, Now, N)
  BY <1>3, <1>7 DEF Stay
<1>10. (f = "none" /\ ~txns[N].err) => /\ ~txns'[l - 1].err
                                       /\ ValsAt(db, Now, l - 1)' = ValsAt(db, Now, N)
  BY <1>1, <1>7
<1> QED BY <1>2, <1>3, <1>7, <1>8, <1>9, <1>10

LEMMA CommitTopDoes ==
  ASSUME Whole, 1 \in DOMAIN txns, NEW f, f # "abort", Commit(1, f)
  PROVE  /\ Whole' /\ txns' = <<>>
         /\ \/ StoreKept
            \/ ~txns[Len(txns)].err /\ ValOf(db.file, db.root)' = ValsAt(db, Now, Len(txns))
         /\ (f = "none" /\ ~txns[Len(txns)].err) =>
              ValOf(db.file, db.root)' = ValsAt(db, Now, Len(txns))
<1> DEFINE N == Len(txns)
           kids == Ended(f, N - 1)
           s == EndOne(kids, f)
<1>1. /\ s.rc # "OK" => Cut(1, s)
      /\ s.rc = "OK" => /\ kids \in StRec /\ All(db, kids) /\ Top(kids) = 1
                        /\ kids.file = db.file /\ s.file = Flushed(db.file, T(kids))
                        /\ ~txns[N].err
                        /\ ValsAt(db, kids, 1) = ValsAt(db, Now, N)
      /\ (f = "none" /\ ~txns[N].err) => s.rc = "OK"
  BY CommitsIs DEF Whole
<1>2. /\ s.rc # "OK" => Becomes(s)
      /\ s.rc = "OK" => /\ txns' = <<>> /\ mc' = [c \in Cursors |-> Cursor0]
                        /\ db' = [db EXCEPT !.file = s.file, !.root = T(kids).root,
                                    !.next = T(kids).next, !.head = {},
                                    !.old = kids.head \cup db.recent,
                                    !.recent = T(kids).free \cup Range(T(kids).loose)]
  BY DEF Commit
<1> HIDE DEF s, kids, N
<1>3. CASE s.rc # "OK"
  <2>1. Cut(1, s) /\ Becomes(s)
    BY <1>1, <1>2, <1>3
  <2>2. /\ s \in StRec /\ All(db, s) /\ Top(s) = 0 /\ s.file = db.file
        /\ \A c \in Cursors : ~s.mc[c].init
    BY <2>1 DEF Cut
  <2>3. Len(s.txns) = 0 /\ s.txns \in Seq(TxnRec)
    BY <2>2, StIs DEF Top
  <2>4. OneErr(s.txns) /\ s.txns = <<>>
    BY <2>3 DEF OneErr
  <2>5. /\ Whole' /\ txns' = s.txns
        /\ ValOf(db.file, db.root)' = ValOf(s.file, db.root)
    BY <2>1, <2>2, <2>4, ReachIs
  <2>6. StoreKept
    BY <2>2, <2>5 DEF StoreKept
  <2> QED BY <1>1, <1>3, <2>4, <2>5, <2>6 DEF N
<1>4. CASE s.rc = "OK"
  <2> DEFINE t == T(kids)
             f2 == Flushed(db.file, t)
  <2>1. /\ kids \in StRec /\ All(db, kids) /\ Top(kids) = 1 /\ kids.file = db.file /\ s.file = f2
        /\ ~txns[N].err /\ ValsAt(db, kids, 1) = ValsAt(db, Now, N)
        /\ txns' = <<>> /\ mc' = [c \in Cursors |-> Cursor0]
    BY <1>1, <1>2, <1>4
  <2>2. db' = [db EXCEPT !.file = f2, !.root = t.root, !.next = t.next, !.head = {},
                         !.old = kids.head \cup db.recent, !.recent = t.free \cup Range(t.loose)]
    BY <1>2, <1>4, <2>1
  <2> HIDE DEF t, f2
  <2>3. /\ db'.file = f2 /\ db'.root = t.root /\ db'.next = t.next /\ db'.head = {}
        /\ db'.old = kids.head \cup db.recent /\ db'.recent = t.free \cup Range(t.loose)
        /\ db'.begun = db.begun
    BY <2>2 DEF Whole, TypeOK, DbRec
  <2>4. /\ Base(db', f2) /\ ValOf(f2, db'.root) = ValsAt(db, kids, 1)
        /\ f2 \in [Pg -> Page] /\ db'.old \in SUBSET Pg /\ db'.recent \in SUBSET Pg
        /\ db'.root \in PgN /\ db'.next \in Nat
    BY <2>1, <2>3, CommittedIs DEF t, f2
  <2>5. db' \in DbRec
    <3>1. db.begun \in Nat
      BY DEF Whole, TypeOK, DbRec
    <3>2. \A x1 \in [Pg -> Page], x2 \in PgN, x3 \in Nat, x4 \in SUBSET Pg, x5 \in SUBSET Pg :
            [db EXCEPT !.file = x1, !.root = x2, !.next = x3, !.head = {}, !.old = x4,
                       !.recent = x5] \in DbRec
      BY DEF Whole, TypeOK, DbRec
    <3> DEFINE G(x1, x2, x3, x4, x5) ==
                 [db EXCEPT !.file = x1, !.root = x2, !.next = x3, !.head = {}, !.old = x4, !.recent = x5]
    <3>3. db' = G(f2, t.root, t.next, kids.head \cup db.recent, t.free \cup Range(t.loose))
      BY <2>2
    <3>4. \A x1 \in [Pg -> Page], x2 \in PgN, x3 \in Nat, x4 \in SUBSET Pg, x5 \in SUBSET Pg :
            G(x1, x2, x3, x4, x5) \in DbRec
      BY <3>2
    <3> HIDE DEF G
    <3> QED BY <2>3, <2>4, <3>3, <3>4
  <2>6. mc' \in [Cursors -> CurRec] /\ \A c \in Cursors : ~mc'[c].init
    BY <2>1, Cursor0Is
  <2>7. txns' \in Seq(TxnRec) /\ Len(txns') = 0
    BY <2>1
  <2>8. TypeOK'
    BY <2>5, <2>6, <2>7 DEF TypeOK
  <2>9. Now'.file = db'.file /\ Now'.head = db'.head /\ Now'.txns = txns'
    BY DEF Now
  <2>10. Top(Now') = 0
    BY <2>7, <2>9 DEF Top
  <2>11. All(db', Now')
    BY <2>3, <2>4, <2>9, <2>10 DEF All
  <2>12. IInv'
    BY <2>11 DEF IInv
  <2>13. OneErr(txns)' /\ Closed'
    BY <2>6, <2>7 DEF OneErr, Closed
  <2>14. Whole'
    BY <2>8, <2>12, <2>13 DEF Whole
  <2>15. ValOf(db.file, db.root)' = ValsAt(db, Now, N)
    BY <2>1, <2>3, <2>4
  <2> QED BY <2>1, <2>14, <2>15 DEF N
<1> QED BY <1>3, <1>4

LEMMA OpenDoes ==
  ASSUME Whole, NEW c \in Cursors, Open(c)
  PROVE  Whole' /\ txns' = txns /\ Stay(Len(txns)) /\ StoreKept
<1>1. /\ Usable /\ mc' = [mc EXCEPT ![c].of = Len(txns)] /\ db' = db /\ txns' = txns
  BY DEF Open
<1>2. /\ TypeOK /\ Len(txns) \in Nat
  BY DEF Whole, TypeOK
<1>3. mc' \in [Cursors -> CurRec]
  <2>1. mc \in [Cursors -> CurRec] /\ mc[c] \in CurRec
    BY <1>2 DEF TypeOK
  <2>2. [mc[c] EXCEPT !.of = Len(txns)] \in CurRec
    BY <1>2, <2>1 DEF CurRec
  <2> QED BY <1>1, <2>1, <2>2
<1>4. TypeOK'
  BY <1>1, <1>2, <1>3 DEF TypeOK
<1>5. \A d \in Cursors : mc'[d].init = mc[d].init /\ mc'[d].leaf = mc[d].leaf /\ mc'[d].pg = mc[d].pg
  <2>1. mc \in [Cursors -> CurRec]
    BY <1>2 DEF TypeOK
  <2>2. [mc[c] EXCEPT !.of = Len(txns)].init = mc[c].init
        /\ [mc[c] EXCEPT !.of = Len(txns)].leaf = mc[c].leaf
        /\ [mc[c] EXCEPT !.of = Len(txns)].pg = mc[c].pg
    BY <2>1 DEF CurRec
  <2> QED BY <1>1, <2>1, <2>2
<1>6. /\ Now'.file = db'.file /\ Now'.head = db'.head /\ Now'.txns = txns'
      /\ Now.file = db.file /\ Now.head = db.head /\ Now.txns = txns
      /\ (\A d \in Cursors : Now'.mc[d] = mc'[d] /\ Now.mc[d] = mc[d])
  <2>1. Local \notin Cursors
    BY NestedAssumption DEF Local
  <2> QED BY <2>1 DEF Now
<1>7. Fewer(Now.mc, Now'.mc)
  BY <1>5, <1>6 DEF Fewer
<1>8. Close(Now, Now') /\ SameBase(db, db')
  BY <1>1, <1>6, <1>7 DEF Close, SameBase
<1>9. All(db, Now)
  BY DEF Whole, IInv
<1>10. All(db', Now') /\ \A l : ValsAt(db', Now', l) = ValsAt(db, Now, l)
  BY <1>8, <1>9, AllClose
<1>11. IInv'
  BY <1>10 DEF IInv
<1>12. OneErr(txns)' /\ Closed'
  BY <1>1 DEF Whole, OneErr, Closed, Usable
<1>13. Whole'
  BY <1>4, <1>11, <1>12 DEF Whole
<1> QED BY <1>1, <1>10, <1>13 DEF Stay, StoreKept

-----------------------------------------------------------------------------
(***************************************************************************)
(* mdb_txn_begin of a top-level transaction.                               *)
(***************************************************************************)

\* A transaction with nothing in its lists.
Bare(t, root, next, room, head, bk) ==
  /\ t \in TxnRec /\ t.root = root /\ t.next = next /\ t.room = room /\ t.head = head /\ t.bk = bk
  /\ DOMAIN t.dirty = {} /\ t.spill = {} /\ t.free = {} /\ Range(t.loose) = {} /\ DOMAIN t.loose = {}
  /\ ~t.err

\* A new top-level transaction reads the last snapshot.
LEMMA NewTxnIs ==
  ASSUME TypeOK
  PROVE  Bare(NewTxn, db.root, db.next, DirtyMax, {}, mc)
<1>1. <<>> \in Dirties /\ DOMAIN <<>> = {}
  <2>1. <<>> \in [{} -> Page]
    OBVIOUS
  <2>2. {} \in SUBSET Pg
    OBVIOUS
  <2> QED BY <2>1, <2>2, DirtiesBy
<1>2. <<>> \in Seq(Pg)
  OBVIOUS
<1>3. Range(<<>>) = {}
  BY <1>1 DEF Range
<1> DEFINE nil == <<>>
<1>4. nil \in Dirties /\ nil \in Seq(Pg) /\ DOMAIN nil = {} /\ Range(nil) = {}
  BY <1>1, <1>2, <1>3
<1>5. db.root \in PgN /\ db.next \in Nat /\ mc \in [Cursors -> CurRec] /\ DirtyMax \in Int
  BY NestedAssumption DEF TypeOK, DbRec
<1>6. NewTxn = [root |-> db.root, next |-> db.next, dirty |-> nil, spill |-> {}, free |-> {},
           loose |-> nil, room |-> DirtyMax, err |-> FALSE, spills |-> FALSE,
           head |-> {}, bk |-> mc]
  BY DEF NewTxn
<1> HIDE DEF nil
<1> QED BY <1>4, <1>5, <1>6 DEF Bare, TxnRec

\* What BeginChild makes of it for a child of p.
ChildOf(n, p, head) == [n EXCEPT !.root = p.root, !.next = p.next, !.room = p.room,
                                 !.spills = p.spills, !.head = head]

LEMMA ChildIs ==
  ASSUME NEW n, NEW root, NEW next, NEW room, NEW h, NEW bk, Bare(n, root, next, room, h, bk),
         NEW p \in TxnRec, NEW head \in SUBSET Pg
  PROVE  Bare(ChildOf(n, p, head), p.root, p.next, p.room, head, bk)
<1> DEFINE w == ChildOf(n, p, head)
<1>1. /\ n \in TxnRec /\ n.bk = bk
      /\ DOMAIN n.dirty = {} /\ n.spill = {} /\ n.free = {} /\ Range(n.loose) = {} /\ DOMAIN n.loose = {}
      /\ ~n.err
  BY DEF Bare
<1>2. p.root \in PgN /\ p.next \in Nat /\ p.room \in Int
  BY TxnIs
<1>3. p.spills \in BOOLEAN
  BY TxnIs
<1>4. w \in TxnRec
  <2>1. PICK x \in BOOLEAN : p.spills = x
    BY <1>3
  <2>2. \A r1 \in PgN, n1 \in Nat, o1 \in Int, h1 \in SUBSET Pg :
          [n EXCEPT !.root = r1, !.next = n1, !.room = o1, !.spills = x, !.head = h1] \in TxnRec
    BY <1>1 DEF TxnRec
  <2> DEFINE G(r1, n1, o1, h1) ==
               [n EXCEPT !.root = r1, !.next = n1, !.room = o1, !.spills = x, !.head = h1]
  <2>3. w = G(p.root, p.next, p.room, head)
    BY <2>1 DEF ChildOf
  <2>4. \A r1 \in PgN, n1 \in Nat, o1 \in Int, h1 \in SUBSET Pg : G(r1, n1, o1, h1) \in TxnRec
    BY <2>2
  <2> HIDE DEF G, w
  <2>5. G(p.root, p.next, p.room, head) \in TxnRec
    BY <1>2, <2>4
  <2> QED BY <2>3, <2>5
<1>5. /\ w.root = p.root /\ w.next = p.next /\ w.room = p.room /\ w.head = head /\ w.bk = n.bk
      /\ w.dirty = n.dirty /\ w.spill = n.spill /\ w.free = n.free /\ w.loose = n.loose
      /\ w.err = n.err
  BY <1>1 DEF TxnRec, ChildOf
<1> HIDE DEF w
<1> QED BY <1>1, <1>4, <1>5 DEF Bare, w

\* What the environment e has to be for a transaction with that root and next page.
Starts(e, root, next, room, head, m) ==
  /\ next \in 2 .. MaxPg /\ next \in e.min /\ head \subseteq 2 .. next - 1 /\ head \subseteq e.cap
  /\ room = DirtyMax - Cardinality(e.list) /\ TreeShape(e.at, root)
  /\ Split(PagesOf(e.at, root), head, e.freed, {}, {}, e.recent, {}, next)
  /\ \A c \in Cursors : m[c].init =>
        /\ m[c].leaf \in Leaf /\ KidOf(e.at, root)[m[c].leaf] # NoPg
        /\ m[c].pg = <<IF root = NoPg THEN NoPtr ELSE e.get[root],
                       IF KidOf(e.at, root)[m[c].leaf] = NoPg THEN NoPtr
                       ELSE e.get[KidOf(e.at, root)[m[c].leaf]]>>

LEMMA BareGood ==
  ASSUME NEW e, EnvOK(e), NEW t, NEW root, NEW next, NEW room, NEW head0, NEW bk,
         Bare(t, root, next, room, head0, bk), NEW head, NEW m,
         Starts(e, root, next, room, head, m)
  PROVE  Good(e, t, head, m, {}) /\ Vals(e, t) = ValOf(e.at, root)
<1>1. /\ t \in TxnRec /\ t.root = root /\ t.next = next /\ t.room = room
      /\ DOMAIN t.dirty = {} /\ t.spill = {} /\ t.free = {} /\ Range(t.loose) = {} /\ DOMAIN t.loose = {}
  BY DEF Bare
<1>2. AtIn(e, t) = e.at
  <2>1. AtIn(e, t) = [p \in Pg |-> e.at[p]]
    BY <1>1 DEF AtIn
  <2> QED BY <2>1 DEF EnvOK
<1>3. \A p : GetIn(e, t, p) = e.get[p]
  BY <1>1 DEF GetIn
<1>4. Mem(e, t, head)
  BY <1>1 DEF Mem, Held, Once, Starts
<1>5. RoomIn(e, t)
  <2>1. ListIn(e, t) = e.list
    BY <1>1 DEF ListIn
  <2> QED BY <1>1, <2>1 DEF RoomIn, Starts
<1>6. Parts(e, t, head, {})
  BY <1>1, <1>2 DEF Parts, Starts
<1>7. Curs(e, t, m)
  <2> SUFFICES ASSUME NEW c \in Cursors, m[c].init
               PROVE  /\ m[c].leaf \in Leaf /\ KidOf(AtIn(e, t), t.root)[m[c].leaf] # NoPg
                      /\ m[c].pg = Path(e, t, m[c].leaf)
    BY DEF Curs
  <2>1. Path(e, t, m[c].leaf) = <<IF root = NoPg THEN NoPtr ELSE e.get[root],
                           IF KidOf(e.at, root)[m[c].leaf] = NoPg THEN NoPtr
                           ELSE e.get[KidOf(e.at, root)[m[c].leaf]]>>
    BY <1>1, <1>2, <1>3 DEF Path, PtrTo
  <2>2. /\ m[c].leaf \in Leaf /\ KidOf(e.at, root)[m[c].leaf] # NoPg
        /\ m[c].pg = <<IF root = NoPg THEN NoPtr ELSE e.get[root],
                       IF KidOf(e.at, root)[m[c].leaf] = NoPg THEN NoPtr
                       ELSE e.get[KidOf(e.at, root)[m[c].leaf]]>>
    BY DEF Starts
  <2> QED BY <1>1, <1>2, <2>1, <2>2
<1>8. TreeShape(AtIn(e, t), t.root)
  BY <1>1, <1>2 DEF Starts
<1> QED BY <1>1, <1>2, <1>4, <1>5, <1>6, <1>7, <1>8 DEF Good, Vals

NowOK == /\ Now \in StRec /\ Now.file = db.file /\ Now.head = db.head /\ Now.txns = txns
         /\ \A c \in Cursors : Now.mc[c] = mc[c]

LEMMA NowThen ==
  TypeOK' => NowOK'
<1>1. TypeOK => NowOK
  BY NowIs DEF NowOK
<1> QED BY <1>1, PTL

LEMMA BeginDoes ==
  ASSUME Whole, Begin
  PROVE  /\ Whole' /\ Len(txns') = 1 /\ StoreKept /\ ~txns'[1].err
         /\ ValsAt(db, Now, 1)' = ValOf(db.file, db.root)
<1> DEFINE t == NewTxn
<1>1. /\ txns = <<>> /\ txns' = <<t>> /\ mc' = mc
      /\ db' = [db EXCEPT !.head = db.old, !.begun = @ + 1]
      /\ TypeOK /\ All(db, Now)
  BY DEF Begin, Whole, IInv
<1>2. /\ db \in DbRec /\ mc \in [Cursors -> CurRec] /\ db.root \in PgN /\ db.next \in Nat
      /\ db.old \in SUBSET Pg /\ db.file \in [Pg -> Page] /\ db.begun \in Nat
  BY <1>1 DEF TypeOK, DbRec
<1>3. /\ db'.file = db.file /\ db'.root = db.root /\ db'.next = db.next /\ db'.head = db.old
      /\ db'.old = db.old /\ db'.recent = db.recent /\ db' \in DbRec
  <2> DEFINE k == db.begun + 1
  <2>1. k \in Nat /\ db' = [db EXCEPT !.head = db.old, !.begun = k]
    <3>1. k \in Nat
      BY <1>2
    <3>2. db' = [db EXCEPT !.head = db.old, !.begun = k]
      BY <1>1
    <3> QED BY <3>1, <3>2
  <2> HIDE DEF k
  <2>2. /\ db'.file = db.file /\ db'.root = db.root /\ db'.next = db.next /\ db'.head = db.old
        /\ db'.old = db.old /\ db'.recent = db.recent
    BY <1>2, <2>1 DEF DbRec
  <2>3. db' \in DbRec
    BY <1>2, <2>1 DEF DbRec
  <2> QED BY <2>2, <2>3
<1>4. Bare(t, db.root, db.next, DirtyMax, {}, mc)
  BY <1>1, NewTxnIs
<1>5. t \in TxnRec /\ ~t.err
  BY <1>4 DEF Bare
<1> HIDE DEF t
<1>6. txns' \in Seq(TxnRec) /\ Len(txns') = 1 /\ txns'[1] = t
  BY <1>1, <1>5
<1>7. TypeOK'
  BY <1>1, <1>2, <1>3, <1>6 DEF TypeOK
<1>8. /\ Now' \in StRec /\ Now'.file = db'.file /\ Now'.head = db'.head /\ Now'.txns = txns'
      /\ \A c \in Cursors : Now'.mc[c] = mc'[c]
  BY <1>7, NowThen DEF NowOK
<1>9. Base(db, db.file) /\ Base(db', db'.file)
  <2>1. Now.file = db.file
    BY <1>1, NowIs
  <2>2. Base(db, db.file)
    BY <1>1, <2>1 DEF All
  <2> QED BY <1>3, <2>2 DEF Base
<1> DEFINE e == EnvOf(db', db'.file, txns', 1)
<1>10. EnvOK(e)
  <2>1. db'.next \in Nat /\ db'.file \in [Pg -> Page] /\ 1 \in 1 .. Len(txns')
    BY <1>2, <1>3, <1>6
  <2>2. \A i \in 1 .. 1 - 1 : Mem(EnvOf(db', db'.file, txns', i), txns'[i], txns'[i + 1].head)
    OBVIOUS
  <2> QED BY <1>6, <2>1, <2>2, EnvIsOK
<1>11. /\ e.recent = db.recent /\ e.freed = {} /\ e.list = {} /\ e.at = db.file
       /\ e.cap = {p \in Pg : p \in db.old} /\ e.min = {p \in Nat : db.next <= p}
  <2>1. /\ e.recent = db.recent /\ e.freed = FreedTo(txns', 0) /\ e.list = ListAt(txns', 0)
        /\ e.at = AtOf(db.file, txns', 0)
        /\ e.cap = {p \in Pg : \A j \in 0 .. 0 : p \in HeadUnder(db', txns', j)}
        /\ e.min = {p \in Nat : \A j \in 0 .. 0 : NextAt(db', txns', j) <= p}
    BY <1>3 DEF EnvOf
  <2>2. FreedTo(txns', 0) = {} /\ ListAt(txns', 0) = {}
    BY DEF FreedTo, ListAt
  <2>3. AtOf(db.file, txns', 0) = [p \in Pg |-> db.file[p]]
    BY GetZero DEF AtOf, PageAt
  <2>4. HeadUnder(db', txns', 0) = db.old /\ NextAt(db', txns', 0) = db.next
    BY <1>3 DEF HeadUnder, NextAt
  <2>5. \A j \in 0 .. 0 : j = 0
    OBVIOUS
  <2>6. 0 \in 0 .. 0
    OBVIOUS
  <2> HIDE DEF e
  <2> QED BY <1>2, <2>1, <2>2, <2>3, <2>4, <2>5, <2>6
<1> HIDE DEF e
<1>12. /\ db.next \in 2 .. MaxPg /\ TreeShape(db.file, db.root)
       /\ Split(PagesOf(db.file, db.root), db.old, {}, {}, {}, db.recent, {}, db.next)
  BY <1>9 DEF Base
<1>13. Good(e, t, db.old, Now'.mc, {}) /\ Vals(e, t) = ValOf(db.file, db.root)
  <2>1. db.old \subseteq 2 .. db.next - 1
    BY <1>12 DEF Split
  <2>2. db.old \subseteq e.cap /\ db.next \in e.min
    BY <1>2, <1>11
  <2>3. DirtyMax = DirtyMax - Cardinality(e.list)
    <3>1. Cardinality({}) = 0
      BY FS_EmptySet
    <3> QED BY <1>11, <3>1, NestedAssumption
  <2>4. \A c \in Cursors : ~Now'.mc[c].init
    BY <1>1, <1>8 DEF Whole, Closed
  <2>5. TreeShape(e.at, db.root) /\ Split(PagesOf(e.at, db.root), db.old, e.freed, {}, {}, e.recent, {}, db.next)
    BY <1>11, <1>12
  <2>6. Good(e, t, db.old, Now'.mc, {}) /\ Vals(e, t) = ValOf(e.at, db.root)
    <3>1. Starts(e, db.root, db.next, DirtyMax, db.old, Now'.mc)
      BY <1>12, <2>1, <2>2, <2>3, <2>4, <2>5 DEF Starts
    <3> QED BY <1>4, <1>10, <3>1, BareGood
  <2> QED BY <1>11, <2>6
<1>14. Top(Now') = 1
  BY <1>6, <1>8 DEF Top
<1>15. All(db', Now')
  <2>1. ASSUME NEW l \in 1 .. Top(Now')
        PROVE  Good(EnvOf(db', Now'.file, Now'.txns, l), Now'.txns[l], HeadAt(Now', l), McAt(Now', l), {})
    <3>1. l = 1
      BY <1>14
    <3>2. HeadAt(Now', l) = db.old /\ McAt(Now', l) = Now'.mc
      BY <1>3, <1>8, <1>14, <3>1 DEF HeadAt, McAt
    <3> QED BY <1>6, <1>8, <1>13, <3>1, <3>2 DEF e
  <2>2. Now'.txns # <<>>
    <3>1. Len(Now'.txns) = 1
      BY <1>14 DEF Top
    <3> QED BY <3>1
  <2> QED BY <1>8, <1>9, <2>1, <2>2 DEF All
<1>16. IInv'
  BY <1>15 DEF IInv
<1>17. OneErr(txns)' /\ Closed'
  <2>1. OneErr(txns)'
    BY <1>6 DEF OneErr
  <2>2. Closed'
    BY <1>6 DEF Closed
  <2> QED BY <2>1, <2>2
<1>18. Whole'
  BY <1>7, <1>16, <1>17 DEF Whole
<1>19. ValsAt(db, Now, 1)' = ValOf(db.file, db.root)
  <2>1. ValsAt(db', Now', 1) = Vals(e, t)
    BY <1>6, <1>8 DEF ValsAt, EnvAt, e
  <2> QED BY <1>13, <2>1
<1> QED BY <1>3, <1>5, <1>6, <1>18, <1>19 DEF StoreKept

-----------------------------------------------------------------------------
(***************************************************************************)
(* mdb_txn_begin of a child.                                               *)
(***************************************************************************)

\* s with transaction t on top.
Pushed(s, t) == [s EXCEPT !.txns = Append(s.txns, t)]

LEMMA PushedIs ==
  ASSUME NEW s \in StRec, NEW t \in TxnRec
  PROVE  /\ Pushed(s, t) \in StRec /\ Pushed(s, t).file = s.file /\ Pushed(s, t).head = s.head
         /\ Pushed(s, t).mc = s.mc /\ Pushed(s, t).txns = Append(s.txns, t)
         /\ Top(Pushed(s, t)) = Top(s) + 1 /\ T(Pushed(s, t)) = t
         /\ \A i \in 1 .. Top(s) : Pushed(s, t).txns[i] = s.txns[i]
<1> DEFINE us == Append(s.txns, t)
           a == Pushed(s, t)
<1>1. s.txns \in Seq(TxnRec) /\ Top(s) = Len(s.txns)
  BY StIs DEF Top
<1>2. /\ us \in Seq(TxnRec) /\ Len(us) = Len(s.txns) + 1 /\ us[Len(s.txns) + 1] = t
      /\ \A i \in 1 .. Len(s.txns) : us[i] = s.txns[i]
  BY <1>1, AppendProperties
<1> HIDE DEF us
<1>3. a = [s EXCEPT !.txns = us]
  BY DEF Pushed, us
<1>4. a \in StRec /\ a.file = s.file /\ a.head = s.head /\ a.mc = s.mc /\ a.txns = us
  BY <1>2, <1>3 DEF StRec
<1> HIDE DEF a
<1>5. Top(a) = Top(s) + 1 /\ T(a) = t
  BY <1>1, <1>2, <1>4 DEF Top, T
<1> QED BY <1>1, <1>2, <1>4, <1>5 DEF a, us

\* t is a new child of p: e is the environment of p, and e2 that of t.
Nests(e, p, head, m, e2, t, bk) ==
  /\ EnvOK(e) /\ EnvOK(e2) /\ p \in TxnRec /\ head \in SUBSET Pg
  /\ Above(e, p, head, e2) /\ Good(e, p, head, m, {})
  /\ Bare(t, p.root, p.next, p.room, head, bk)

\* A new child has its parent's root and reads what it reads.
LEMMA ChildGood ==
  ASSUME NEW e, NEW p, NEW head, NEW m, NEW e2, NEW t, NEW bk, Nests(e, p, head, m, e2, t, bk)
  PROVE  Good(e2, t, head, m, {}) /\ Vals(e2, t) = Vals(e, p)
<1>0. /\ EnvOK(e) /\ EnvOK(e2) /\ p \in TxnRec /\ head \in SUBSET Pg
      /\ Above(e, p, head, e2) /\ Good(e, p, head, m, {})
  BY DEF Nests
<1>b. Bare(t, p.root, p.next, p.room, head, bk)
  BY DEF Nests
<1> DEFINE at == AtIn(e, p)
<1>1. /\ e2.recent = e.recent
      /\ \A q \in Pg : e2.get[q] = GetIn(e, p, q) /\ e2.at[q] = at[q]
      /\ e2.list = ListIn(e, p) /\ e2.freed = e.freed \cup p.free \cup Range(p.loose)
      /\ e2.cap = e.cap \cap head /\ \A x : x \in e2.min <=> x \in e.min /\ p.next <= x
  BY <1>0 DEF Above
<1>2. e2.at = at
  <2>1. at \in [Pg -> Page] /\ e2.at \in [Pg -> Page]
    BY <1>0, AtInIs DEF EnvOK
  <2> HIDE DEF at
  <2> QED BY <1>1, <2>1
<1>3. /\ TreeShape(at, p.root) /\ Mem(e, p, head) /\ RoomIn(e, p) /\ Parts(e, p, head, {}) /\ Curs(e, p, m)
      /\ at \in [Pg -> Page]
  BY <1>0, AtInIs DEF Good
<1>4. /\ p.next \in 2 .. MaxPg /\ p.next \in e.min /\ head \subseteq 2 .. p.next - 1 /\ head \subseteq e.cap
  BY <1>3 DEF Mem
<1>5. p.next \in e2.min /\ head \subseteq e2.cap
  <2>1. p.next <= p.next
    BY <1>0, TxnIs
  <2> QED BY <1>1, <1>4, <2>1
<1>6. p.room = DirtyMax - Cardinality(e2.list)
  BY <1>1, <1>3 DEF RoomIn
<1>7. Split(PagesOf(e2.at, p.root), head, e2.freed, {}, {}, e2.recent, {}, p.next)
  <2> DEFINE P == PagesOf(at, p.root)
             L == Range(p.loose)
  <2>1. Split(P, head, e.freed, p.free, L, e.recent, {}, p.next)
    BY <1>3 DEF Parts
  <2> HIDE DEF P, L
  <2>2. Split(P, head, e2.freed, {}, {}, e2.recent, {}, p.next)
    BY <1>1, <2>1 DEF Split, L
  <2> QED BY <1>2, <2>2 DEF P
<1>8. ASSUME NEW c \in Cursors, m[c].init
      PROVE  /\ m[c].leaf \in Leaf /\ KidOf(e2.at, p.root)[m[c].leaf] # NoPg
             /\ m[c].pg = <<IF p.root = NoPg THEN NoPtr ELSE e2.get[p.root],
                            IF KidOf(e2.at, p.root)[m[c].leaf] = NoPg THEN NoPtr
                            ELSE e2.get[KidOf(e2.at, p.root)[m[c].leaf]]>>
  <2> DEFINE n == m[c].leaf
             k == KidOf(at, p.root)[n]
  <2>1. n \in Leaf /\ k # NoPg /\ m[c].pg = Path(e, p, n)
    BY <1>3, <1>8 DEF Curs
  <2>2. p.root \in Pg /\ p.root # NoPg /\ k \in Pg
    BY <1>3, <2>1, TreeIs
  <2> HIDE DEF k, at
  <2>3. Path(e, p, n) = <<GetIn(e, p, p.root), GetIn(e, p, k)>>
    BY <2>1, <2>2 DEF Path, PtrTo, k, at
  <2>4. e2.get[p.root] = GetIn(e, p, p.root) /\ e2.get[k] = GetIn(e, p, k)
    BY <1>1, <2>2
  <2> QED BY <1>2, <2>1, <2>2, <2>3, <2>4 DEF k
<1> HIDE DEF at
<1>9. TreeShape(e2.at, p.root)
  BY <1>2, <1>3
<1>10. Good(e2, t, head, m, {}) /\ Vals(e2, t) = ValOf(e2.at, p.root)
  <2> DEFINE root == p.root
             next == p.next
             room == p.room
  <2>1. Bare(t, root, next, room, head, bk)
    BY <1>b
  <2>2. Starts(e2, root, next, room, head, m)
    BY <1>4, <1>5, <1>6, <1>7, <1>8, <1>9 DEF Starts
  <2> HIDE DEF root, next, room
  <2>3. Good(e2, t, head, m, {}) /\ Vals(e2, t) = ValOf(e2.at, root)
    BY <1>0, <2>1, <2>2, BareGood
  <2> QED BY <2>3 DEF root
<1> QED BY <1>2, <1>10 DEF Vals, at

LEMMA PushedAll ==
  ASSUME NEW b, NEW s \in StRec, All(b, s), Top(s) # 0,
         NEW t, NEW bk, Bare(t, T(s).root, T(s).next, T(s).room, s.head, bk), Fewer(s.mc, bk)
  PROVE  /\ All(b, Pushed(s, t))
         /\ \A l \in 1 .. Top(s) : ValsAt(b, Pushed(s, t), l) = ValsAt(b, s, l)
         /\ ValsAt(b, Pushed(s, t), Top(s) + 1) = ValsAt(b, s, Top(s))
<1> DEFINE N == Top(s)
           a == Pushed(s, t)
           e == EnvAt(b, s, N)
           e2 == EnvAt(b, a, N + 1)
           p == T(s)
<1>1. t \in TxnRec /\ t.head = s.head /\ t.bk = bk
  BY DEF Bare
<1>2. /\ a \in StRec /\ a.file = s.file /\ a.head = s.head /\ a.mc = s.mc
      /\ Top(a) = N + 1 /\ T(a) = t /\ a.txns[N + 1] = t
      /\ \A i \in 1 .. N : a.txns[i] = s.txns[i]
  BY <1>1, PushedIs DEF T
<1>3. /\ N \in Nat /\ N > 0 /\ N \in 1 .. N /\ a.txns \in Seq(TxnRec) /\ Len(a.txns) = N + 1
      /\ a.file \in [Pg -> Page] /\ s.head \in SUBSET Pg /\ p = s.txns[N] /\ (N + 1) - 1 = N
  BY <1>2, StIs DEF Top, T
<1> HIDE DEF a
<1>4. \A l \in 1 .. N : EnvAt(b, a, l) = EnvAt(b, s, l) /\ ValsAt(b, a, l) = ValsAt(b, s, l)
  BY <1>2, <1>3, PopEnv
<1>5. /\ \A l \in 1 .. N : Level(b, s, l)
      /\ Base(b, s.file) /\ b.next \in Nat
  BY AllIs
<1>6. /\ EnvOK(e) /\ p \in TxnRec /\ Good(e, p, s.head, s.mc, {})
  <2>1. Level(b, s, N)
    BY <1>3, <1>5
  <2>2. HeadAt(s, N) = s.head /\ McAt(s, N) = s.mc
    BY DEF HeadAt, McAt
  <2> QED BY <1>3, <2>1, <2>2 DEF Level
<1>7. ASSUME NEW l \in 1 .. N
      PROVE  Good(EnvAt(b, a, l), a.txns[l], HeadAt(a, l), McAt(a, l), {})
  <2>0. l # Top(a) /\ l + 1 \in 1 .. N + 1
    BY <1>2, <1>3
  <2>1. HeadAt(a, l) = a.txns[l + 1].head /\ McAt(a, l) = a.txns[l + 1].bk
    BY <2>0 DEF HeadAt, McAt
  <2>2. Good(EnvAt(b, s, l), s.txns[l], HeadAt(s, l), McAt(s, l), {})
    BY <1>5 DEF Level
  <2>3. CASE l = N
    <3>1. HeadAt(a, l) = s.head /\ McAt(a, l) = bk
      BY <1>1, <1>2, <2>1, <2>3
    <3>2. Good(e, p, s.head, bk, {})
      BY <1>6, GoodFewer
    <3> QED BY <1>2, <1>3, <1>4, <2>3, <3>1, <3>2
  <2>4. CASE l # N
    <3>1. l + 1 \in 1 .. N
      BY <1>3, <2>4
    <3>2. HeadAt(s, l) = s.txns[l + 1].head /\ McAt(s, l) = s.txns[l + 1].bk
      BY <2>4 DEF HeadAt, McAt
    <3> QED BY <1>2, <1>4, <2>1, <2>2, <3>1, <3>2
  <2> QED BY <2>3, <2>4
<1>8. Above(e, p, s.head, e2)
  <2>1. EnvOf(b, a.file, a.txns, N) = e
    BY <1>3, <1>4 DEF EnvAt
  <2>2. a.txns[N] = p /\ a.txns[N + 1].head = s.head
    BY <1>1, <1>2, <1>3
  <2>3. DOMAIN a.txns[N].dirty \cap a.txns[N].spill = {}
    BY <1>6, <2>2 DEF Good, Mem
  <2>4. N \in 1 .. Len(a.txns) - 1
    BY <1>3
  <2>5. Above(EnvOf(b, a.file, a.txns, N), a.txns[N], a.txns[N + 1].head, EnvOf(b, a.file, a.txns, N + 1))
    BY <1>3, <2>3, <2>4, AboveIs
  <2> QED BY <2>1, <2>2, <2>5 DEF EnvAt
<1>9. EnvOK(e2)
  <2>1. ASSUME NEW i \in 1 .. (N + 1) - 1
        PROVE  Mem(EnvOf(b, a.file, a.txns, i), a.txns[i], a.txns[i + 1].head)
    <3>1. i \in 1 .. N /\ i # Top(a)
      BY <1>2, <1>3
    <3>2. Good(EnvAt(b, a, i), a.txns[i], HeadAt(a, i), McAt(a, i), {})
      BY <1>7, <3>1
    <3> QED BY <3>1, <3>2 DEF Good, HeadAt, EnvAt
  <2>2. N + 1 \in 1 .. Len(a.txns)
    BY <1>3
  <2> QED BY <1>3, <1>5, <2>1, <2>2, EnvIsOK DEF EnvAt
<1> HIDE DEF e, e2, p
<1>10. Good(e2, t, s.head, s.mc, {}) /\ Vals(e2, t) = Vals(e, p)
  <2>1. Bare(t, p.root, p.next, p.room, s.head, bk)
    BY DEF p
  <2>2. Nests(e, p, s.head, s.mc, e2, t, bk)
    BY <1>3, <1>6, <1>8, <1>9, <2>1 DEF Nests
  <2> QED BY <2>2, ChildGood
<1>11. Good(EnvAt(b, a, N + 1), a.txns[N + 1], HeadAt(a, N + 1), McAt(a, N + 1), {})
  BY <1>2, <1>10 DEF HeadAt, McAt, e2
<1>12. \A l \in 1 .. Top(a) : l = N + 1 \/ l \in 1 .. N
  BY <1>2, <1>3
<1>13. \A l \in 1 .. Top(a) : Good(EnvAt(b, a, l), a.txns[l], HeadAt(a, l), McAt(a, l), {})
  BY <1>7, <1>11, <1>12
<1>14. a.txns # <<>>
  BY <1>3
<1>15. All(b, a)
  BY <1>2, <1>5, <1>13, <1>14 DEF All, EnvAt
<1>16. ValsAt(b, a, N + 1) = ValsAt(b, s, N)
  BY <1>2, <1>3, <1>10 DEF ValsAt, e2, e
<1> QED BY <1>4, <1>15, <1>16 DEF a

LEMMA BeginChildDoes ==
  ASSUME Whole, BeginChild
  PROVE  /\ Usable /\ Whole' /\ Len(txns') = Len(txns) + 1 /\ Stay(Len(txns)) /\ StoreKept
         /\ ~txns'[Len(txns) + 1].err
         /\ \A l : l = Len(txns) + 1 => ValsAt(db, Now, l)' = ValsAt(db, Now, Len(txns))
<1> DEFINE N == Len(txns)
           p == txns[N]
           t == ChildOf(NewTxn, p, db.head)
           a == Pushed(Now, t)
<1>1. /\ Usable /\ txns' = Append(txns, t) /\ db' = db /\ mc' = mc /\ TypeOK /\ All(db, Now)
      /\ txns \in Seq(TxnRec) /\ N \in Nat /\ N # 0 /\ N \in 1 .. N
  BY DEF BeginChild, ChildOf, Last, Whole, IInv, TypeOK, Usable
<1>2. /\ Now \in StRec /\ Now.file = db.file /\ Now.head = db.head /\ Now.txns = txns
      /\ Top(Now) = N /\ T(Now) = p /\ \A c \in Cursors : Now.mc[c] = mc[c]
  BY <1>1, NowIs DEF T
<1>3. p \in TxnRec /\ db.head \in SUBSET Pg /\ db \in DbRec /\ mc \in [Cursors -> CurRec]
  BY <1>1 DEF TypeOK, DbRec
<1>4. Bare(t, p.root, p.next, p.room, db.head, mc)
  BY <1>1, <1>3, NewTxnIs, ChildIs
<1>5. t \in TxnRec /\ ~t.err
  BY <1>4 DEF Bare
<1> HIDE DEF t
<1>6. Fewer(Now.mc, mc)
  BY <1>2 DEF Fewer
<1>7. /\ All(db, a)
      /\ \A l \in 1 .. N : ValsAt(db, a, l) = ValsAt(db, Now, l)
      /\ ValsAt(db, a, N + 1) = ValsAt(db, Now, N)
  BY <1>1, <1>2, <1>4, <1>6, PushedAll
<1>8. /\ a \in StRec /\ a.file = db.file /\ a.head = db.head /\ a.mc = Now.mc /\ a.txns = Append(txns, t)
      /\ Top(a) = N + 1 /\ T(a) = t /\ \A i \in 1 .. N : a.txns[i] = txns[i]
  BY <1>2, <1>5, PushedIs
<1> HIDE DEF a, p
<1>9. Becomes(a)
  <2>1. db = [db EXCEPT !.file = db.file, !.head = db.head]
    BY <1>3 DEF DbRec
  <2>2. mc = [c \in Cursors |-> a.mc[c]]
    BY <1>2, <1>3, <1>8
  <2> QED BY <1>1, <1>8, <2>1, <2>2 DEF Becomes
<1>10. Len(a.txns) = N + 1 /\ a.txns[N + 1] = t
  BY <1>8 DEF Top, T
<1>11. OneErr(a.txns)
  <2> SUFFICES ASSUME NEW l \in 1 .. Len(a.txns) - 1 PROVE ~a.txns[l].err
    BY DEF OneErr
  <2>1. l \in 1 .. N
    BY <1>1, <1>10
  <2>2. ~txns[l].err
    <3>1. CASE l = N
      BY <1>1, <3>1 DEF Usable, Last
    <3>2. CASE l # N
      <4>1. l \in 1 .. N - 1
        BY <2>1, <3>2
      <4> QED BY <4>1 DEF Whole, OneErr
    <3> QED BY <3>1, <3>2
  <2> QED BY <1>8, <2>1, <2>2
<1>12. a.txns # <<>>
  BY <1>1, <1>10
<1>13. /\ Whole' /\ txns' = a.txns /\ Len(txns') = Top(a)
       /\ ValOf(db.file, db.root)' = ValOf(a.file, db.root)
       /\ \A l : ValsAt(db, Now, l)' = ValsAt(db, a, l)
  BY <1>7, <1>8, <1>9, <1>11, <1>12, ReachIs
<1>14. Stay(N) /\ StoreKept
  BY <1>7, <1>8, <1>13 DEF Stay, StoreKept
<1>15. Len(txns') = N + 1 /\ ~txns'[N + 1].err
  BY <1>5, <1>10, <1>13
<1>16. \A l : l = N + 1 => ValsAt(db, Now, l)' = ValsAt(db, Now, N)
  BY <1>7, <1>13
<1> QED BY <1>1, <1>13, <1>14, <1>15, <1>16

-----------------------------------------------------------------------------
(***************************************************************************)
(* The initial states, and every step.                                     *)
(***************************************************************************)

LEMMA BlankIs ==
  Blank \in Page /\ Blank.kid = [n \in Leaf |-> NoPg] /\ Blank.val = NoVal
<1>1. [n \in Leaf |-> NoPg] \in [Leaf -> PgN]
  BY DEF PgN
<1> QED BY <1>1 DEF Blank, Page

LEMMA InitBase ==
  ASSUME Init
  PROVE  db \in DbRec /\ Base(db, db.file) /\ db.head = {} /\ Leaf # {}
<1>1. PICK n \in Leaf, v \in Val, f \in SUBSET {4}, empty \in BOOLEAN :
        db = [file |-> [p \in 2 .. MaxPg - 1 |->
                          IF p = 2 /\ ~empty THEN [Blank EXCEPT !.kid[n] = 3]
                          ELSE IF p = 3 /\ ~empty THEN [Blank EXCEPT !.val = v] ELSE Blank],
              root |-> IF empty THEN NoPg ELSE 2,
              next |-> IF empty THEN 3 ELSE 4 + Cardinality(f),
              head |-> {}, old |-> IF empty THEN {} ELSE f,
              recent |-> IF empty THEN {2} ELSE {}, begun |-> 0]
  BY DEF Init
<1> DEFINE root2 == [Blank EXCEPT !.kid[n] = 3]
           leaf3 == [Blank EXCEPT !.val = v]
<1>2. MaxPg \in Nat /\ MaxPg > 4 /\ 2 \in Pg /\ 3 \in Pg /\ 4 \in Pg
  BY NestedAssumption DEF Pg
<1>3. /\ leaf3 \in Page /\ leaf3.kid = [m \in Leaf |-> NoPg]
  BY BlankIs DEF Page
<1>4. /\ root2 \in Page /\ root2.kid = [m \in Leaf |-> IF m = n THEN 3 ELSE NoPg]
  <2> DEFINE k == [Blank.kid EXCEPT ![n] = 3]
  <2>1. root2 = [Blank EXCEPT !.kid = k]
    OBVIOUS
  <2>2. k \in [Leaf -> PgN] /\ k = [m \in Leaf |-> IF m = n THEN 3 ELSE NoPg]
    BY <1>2, BlankIs DEF PgN
  <2> HIDE DEF k
  <2> QED BY <2>1, <2>2, BlankIs DEF Page
<1> HIDE DEF root2, leaf3
<1>5. /\ db.file = [p \in Pg |-> IF p = 2 /\ ~empty THEN root2 ELSE IF p = 3 /\ ~empty THEN leaf3 ELSE Blank]
      /\ db.root = (IF empty THEN NoPg ELSE 2)
      /\ db.next = (IF empty THEN 3 ELSE 4 + Cardinality(f))
      /\ db.head = {} /\ db.recent = (IF empty THEN {2} ELSE {}) /\ db.begun = 0
      /\ db.old = (IF empty THEN {} ELSE f)
  BY <1>1 DEF root2, leaf3, Pg
<1>6. DOMAIN db = {"file", "root", "next", "head", "old", "recent", "begun"} /\ db = [x \in DOMAIN db |-> db[x]]
  BY <1>1
<1>7. f = {} \/ f = {4}
  OBVIOUS
<1>8. db.file \in [Pg -> Page]
  BY <1>3, <1>4, <1>5, BlankIs
<1>9. Cardinality({}) = 0 /\ Cardinality({4}) = 1
  BY FS_EmptySet, FS_Singleton
<1>10. /\ db.next \in 2 .. MaxPg /\ db.root \in PgN
       /\ db.old \in SUBSET Pg /\ db.recent \in SUBSET Pg
  <2>1. CASE empty
    BY <1>2, <1>5, <2>1 DEF PgN
  <2>2. CASE ~empty
    <3>1. Cardinality(f) = 0 \/ Cardinality(f) = 1
      BY <1>7, <1>9
    <3>2. db.next \in 2 .. MaxPg
      BY <1>2, <1>5, <2>2, <3>1
    <3>3. db.root \in PgN /\ db.old \in SUBSET Pg /\ db.recent \in SUBSET Pg
      BY <1>2, <1>5, <1>7, <2>2 DEF PgN
    <3> QED BY <3>2, <3>3
  <2> QED BY <2>1, <2>2
<1>11. db \in DbRec
  <2> DEFINE file == db.file
             root == db.root
             next == db.next
             old  == db.old
             recent == db.recent
  <2>1. db = [file |-> file, root |-> root, next |-> next, head |-> {}, old |-> old,
              recent |-> recent, begun |-> 0]
    BY <1>1
  <2>2. /\ file \in [Pg -> Page] /\ root \in PgN /\ next \in Nat
        /\ old \in SUBSET Pg /\ recent \in SUBSET Pg
    BY <1>2, <1>8, <1>10
  <2> HIDE DEF file, root, next, old, recent
  <2> QED BY <2>1, <2>2 DEF DbRec
<1>12. TreeShape(db.file, db.root) /\ Split(PagesOf(db.file, db.root), db.old, {}, {}, {}, db.recent, {}, db.next)
  <2>1. CASE empty
    <3>1. db.root = NoPg /\ db.next = 3 /\ db.old = {} /\ db.recent = {2}
      BY <1>5, <2>1
    <3>2. KidOf(db.file, db.root) = [m \in Leaf |-> NoPg]
      BY <3>1 DEF KidOf
    <3>3. PagesOf(db.file, db.root) = {}
      BY <3>1, <3>2 DEF PagesOf
    <3>4. TreeShape(db.file, db.root)
      BY <3>1, <3>2 DEF TreeShape, PgN
    <3> QED BY <3>1, <3>3, <3>4 DEF Split
  <2>2. CASE ~empty
    <3>1. db.root = 2 /\ db.old = f /\ db.recent = {} /\ db.file[2] = root2 /\ db.next = 4 + Cardinality(f)
      BY <1>2, <1>5, <2>2
    <3>2. KidOf(db.file, db.root) = [m \in Leaf |-> IF m = n THEN 3 ELSE NoPg]
      BY <1>4, <3>1 DEF KidOf, NoPg
    <3>3. PagesOf(db.file, db.root) = {2, 3}
      <4>1. PagesOf(db.file, db.root) = ({2} \cup {IF m = n THEN 3 ELSE NoPg : m \in Leaf}) \ {NoPg}
        BY <3>1, <3>2 DEF PagesOf
      <4> QED BY <4>1 DEF NoPg
    <3>4. TreeShape(db.file, db.root)
      BY <1>2, <3>1, <3>2 DEF TreeShape, PgN, NoPg
    <3>5. {2, 3} \cup f = 2 .. db.next - 1 /\ {2, 3} \cap f = {}
      <4>1. CASE f = {}
        <5>1. db.next = 4
          BY <1>9, <3>1, <4>1
        <5> QED BY <4>1, <5>1
      <4>2. CASE f = {4}
        <5>1. db.next = 5
          BY <1>9, <3>1, <4>2
        <5> QED BY <4>2, <5>1
      <4> QED BY <1>7, <4>1, <4>2
    <3> QED BY <3>1, <3>3, <3>4, <3>5 DEF Split
  <2> QED BY <2>1, <2>2
<1> QED BY <1>5, <1>10, <1>11, <1>12 DEF Base

LEMMA InitWhole ==
  ASSUME Init
  PROVE  Whole
<1>1. db \in DbRec /\ Base(db, db.file) /\ db.head = {} /\ Leaf # {}
  BY InitBase
<1>2. txns = <<>> /\ mc = [c \in Cursors |-> Cursor0]
  BY DEF Init
<1>3. Cursor0 \in CurRec /\ ~Cursor0.init
  <2> DEFINE pg == <<NoPtr, NoPtr>>
  <2>1. pg \in [1 .. 2 -> Ptrs]
    BY DEF NoPtr, NoPg, Ptrs
  <2>2. Cursor0 = [of |-> 0, init |-> FALSE, leaf |-> NoVal, pg |-> pg]
    BY DEF Cursor0
  <2> HIDE DEF pg
  <2> QED BY <2>1, <2>2 DEF CurRec
<1>4. TypeOK
  BY <1>1, <1>2, <1>3 DEF TypeOK
<1>5. Now.file = db.file /\ Now.head = db.head /\ Now.txns = txns /\ Top(Now) = 0
  <2>1. Len(txns) = 0
    BY <1>2
  <2> QED BY <1>4, <2>1, NowIs
<1>6. IInv
  BY <1>1, <1>5 DEF IInv, All
<1>7. OneErr(txns)
  BY <1>2 DEF OneErr
<1>8. Closed
  BY <1>2, <1>3 DEF Closed
<1> QED BY <1>1, <1>4, <1>6, <1>7, <1>8 DEF Whole

\* Nothing changes.
LEMMA Nothing ==
  ASSUME Whole, UNCHANGED vars
  PROVE  /\ Whole' /\ txns' = txns /\ Stay(Len(txns)) /\ StoreKept
<1>1. db' = db /\ txns' = txns /\ mc' = mc
  BY DEF vars
<1>2. Now' = Now
  BY <1>1 DEF Now
<1>3. Whole'
  BY <1>1, <1>2 DEF Whole, TypeOK, IInv, Closed
<1>4. Stay(Len(txns)) /\ StoreKept
  BY <1>1, <1>2 DEF Stay, StoreKept
<1> QED BY <1>1, <1>3, <1>4

\* Every step keeps the invariant.
LEMMA WholeNext ==
  ASSUME Whole, [Next]_vars
  PROVE  Whole'
<1>1. CASE Begin
  BY <1>1, BeginDoes
<1>2. CASE BeginChild
  BY <1>2, BeginChildDoes
<1>3. CASE Drop
  <2>1. PICK e2, a : Did(db, EnvAt(db, Now, Len(txns)), e2, Now, a, [n \in Leaf |-> NoVal]) /\ Becomes(a)
    BY <1>3, DropDoes
  <2> QED BY <1>3, <2>1, DropDoes, OpIs
<1>4. ASSUME NEW l \in DOMAIN txns, Abort(l) PROVE Whole'
  BY <1>4, AbortDoes
<1>5. ASSUME NEW l \in DOMAIN txns, NEW f \in Faults \cup {"none"}, Commit(l, f) PROVE Whole'
  <2>1. f # "abort" /\ l \in 1 .. Len(txns) /\ Len(txns) \in Nat
    BY NestedAssumption DEF Whole, TypeOK
  <2>2. CASE l = 1
    BY <1>5, <2>1, <2>2, CommitTopDoes
  <2>3. CASE l # 1
    <3>1. l > 1
      BY <2>1, <2>3
    <3> QED BY <1>5, <2>1, <3>1, CommitChildDoes
  <2> QED BY <2>2, <2>3
<1>6. ASSUME NEW c \in Cursors, Open(c) PROVE Whole'
  BY <1>6, OpenDoes
<1>7. ASSUME NEW c \in Cursors, NEW n \in Leaf, Set(c, n) PROVE Whole'
  <2>1. PICK e2, a : Did(db, EnvAt(db, Now, Len(txns)), e2, Now, a, V0) /\ Becomes(a) /\ Usable
    BY <1>7, SetDoes
  <2> QED BY <2>1, OpIs
<1>8. ASSUME NEW c \in Cursors, NEW v \in Val, Update(c, v) PROVE Whole'
  <2>1. PICK e2, a : \E n \in Leaf : Did(db, EnvAt(db, Now, Len(txns)), e2, Now, a, [V0 EXCEPT ![n] = v])
                                     /\ Becomes(a)
    BY <1>8, UpdateDoes
  <2>2. PICK n \in Leaf : Did(db, EnvAt(db, Now, Len(txns)), e2, Now, a, [V0 EXCEPT ![n] = v])
    BY <2>1
  <2> QED BY <1>8, <2>1, <2>2, UpdateDoes, OpIs
<1>9. ASSUME NEW n \in Leaf, Del(n) PROVE Whole'
  <2>1. PICK e2, a : Did(db, EnvAt(db, Now, Len(txns)), e2, Now, a, [V0 EXCEPT ![n] = NoVal]) /\ Becomes(a)
    BY <1>9, DelDoes
  <2> QED BY <1>9, <2>1, DelDoes, OpIs
<1>10. ASSUME NEW n \in Leaf, NEW v \in Val, Put(n, v) PROVE Whole'
  <2>1. PICK e2, a : Did(db, EnvAt(db, Now, Len(txns)), e2, Now, a, [V0 EXCEPT ![n] = v]) /\ Becomes(a)
    BY <1>10, PutDoes
  <2> QED BY <1>10, <2>1, PutDoes, OpIs
<1>11. CASE UNCHANGED vars
  BY <1>11, Nothing
<1> QED BY <1>1, <1>2, <1>3, <1>4, <1>5, <1>6, <1>7, <1>8, <1>9, <1>10, <1>11 DEF Next

\* In every reachable state, after any sequence of mdb_txn_begin, puts, deletes,
\* spills, commits and aborts of a stack of transactions, each of them is good in
\* the environment of its parents: the inductive invariant.
THEOREM WholeHolds == Spec => []Whole
<1>1. Init => Whole
  BY InitWhole
<1>2. Whole /\ [Next]_vars => Whole'
  BY WholeNext
<1> QED BY <1>1, <1>2, PTL DEF Spec

-----------------------------------------------------------------------------
(***************************************************************************)
(* RoomExact and CursorSees, from the invariant.                           *)
(***************************************************************************)

\* What the invariant says of the present state and each of its transactions.
LEMMA LevelIs ==
  ASSUME Whole, NEW l \in 1 .. Len(txns)
  PROVE  /\ EnvOf(db, db.file, txns, l) = EnvAt(db, Now, l)
         /\ Level(db, Now, l) /\ txns[l] \in TxnRec /\ Now.txns = txns /\ txns \in Seq(TxnRec)
         /\ Good(EnvAt(db, Now, l), txns[l], HeadAt(Now, l), McAt(Now, l), {})
         /\ EnvAt(db, Now, l).freed = FreedTo(txns, l - 1) /\ EnvAt(db, Now, l).recent = db.recent
<1>1. Now \in StRec /\ Now.file = db.file /\ Now.txns = txns /\ Top(Now) = Len(txns)
  BY NowIs DEF Whole
<1>2. All(db, Now)
  BY DEF Whole, IInv
<1>3. Level(db, Now, l)
  BY <1>1, <1>2, AllIs
<1>4. EnvOf(db, db.file, txns, l) = EnvAt(db, Now, l)
  BY <1>1 DEF EnvAt
<1>5. EnvAt(db, Now, l).freed = FreedTo(txns, l - 1) /\ EnvAt(db, Now, l).recent = db.recent
  BY <1>4 DEF EnvOf
<1>6. txns \in Seq(TxnRec)
  BY DEF Whole, TypeOK
<1> QED BY <1>1, <1>3, <1>4, <1>5, <1>6 DEF Level

\* mt_dirty_room (mdb_page_dirty, mdb_page_spill, the merge in _mdb_txn_commit).
LEMMA RoomFrom ==
  ASSUME Whole
  PROVE  RoomExact
<1> SUFFICES ASSUME NEW l \in DOMAIN txns
             PROVE  txns[l].room = DirtyMax - Cardinality(ListOf(l))
  BY DEF RoomExact
<1>1. l \in 1 .. Len(txns) /\ txns \in Seq(TxnRec)
  BY DEF Whole, TypeOK
<1> DEFINE e == EnvAt(db, Now, l)
<1>2. e = EnvOf(db, db.file, txns, l) /\ Good(e, txns[l], HeadAt(Now, l), McAt(Now, l), {})
  BY <1>1, LevelIs
<1> HIDE DEF e
<1>3. RoomIn(e, txns[l]) /\ DOMAIN txns[l].dirty \cap txns[l].spill = {}
  BY <1>2 DEF Good, Mem
<1>4. ListAt(txns, l) = ListIn(e, txns[l])
  <2>1. ListAt(txns, l) = ListIn(EnvOf(db, db.file, txns, l), txns[l])
    BY <1>1, <1>3, InEnv
  <2> QED BY <1>2, <2>1
<1>5. ListOf(l) = ListAt(txns, l)
  BY DEF ListOf, ListAt, Pg
<1> QED BY <1>3, <1>4, <1>5 DEF RoomIn

LEMMA SeesFrom ==
  ASSUME Whole
  PROVE  CursorSees
<1> SUFFICES ASSUME NEW c \in Cursors, Usable, mc[c].init
             PROVE  LET root == Get(Now, Last(txns).root)
                    IN  mc[c].pg = <<root, Get(Now, PageAt(Now, root).kid[mc[c].leaf])>>
  BY DEF CursorSees
<1> DEFINE e == EnvAt(db, Now, Len(txns))
           t == txns[Len(txns)]
           n == mc[c].leaf
           at == AtIn(e, t)
           k == KidOf(at, t.root)[n]
<1>1. /\ Fits(db, e, Now) /\ T(Now) = t /\ Good(e, t, Now.head, Now.mc, {}) /\ Last(txns) = t
      /\ Now.mc[c] = mc[c]
  BY StartIs, NowIs DEF Whole, Last
<1> HIDE DEF e, t, at
<1>2. /\ EnvOK(e) /\ t \in TxnRec
      /\ \A p \in Pg : Get(Now, p) = GetIn(e, t, p) /\ PageAt(Now, Get(Now, p)) = at[p]
  BY <1>1, FitsIs DEF at
<1>3. TreeShape(at, t.root) /\ at \in [Pg -> Page]
  BY <1>1, <1>2, AtInIs DEF Good, at
<1>4. n \in Leaf /\ k # NoPg /\ mc[c].pg = Path(e, t, n)
  BY <1>1 DEF Good, Curs, at
<1>5. t.root # NoPg /\ t.root \in Pg /\ k \in Pg
  BY <1>3, <1>4, TreeIs
<1>6. k = at[t.root].kid[n]
  BY <1>5 DEF KidOf
<1>7. mc[c].pg = <<GetIn(e, t, t.root), GetIn(e, t, k)>>
  BY <1>4, <1>5 DEF Path, PtrTo, at
<1> HIDE DEF k
<1>8. Get(Now, t.root) = GetIn(e, t, t.root) /\ Get(Now, k) = GetIn(e, t, k)
      /\ PageAt(Now, Get(Now, t.root)) = at[t.root]
  BY <1>2, <1>5
<1> QED BY <1>1, <1>6, <1>7, <1>8

-----------------------------------------------------------------------------
(***************************************************************************)
(* PagesInOneList, from the invariant.                                     *)
(***************************************************************************)

\* What transaction l freed or has loose.
Gone(l) == txns[l].free \cup Range(txns[l].loose)

LEMMA GoneApart ==
  ASSUME Whole, NEW k \in 1 .. Len(txns), NEW l \in 1 .. Len(txns), k # l
  PROVE  Gone(k) \cap Gone(l) = {}
<1>1. ASSUME NEW i \in 1 .. Len(txns), NEW j \in 1 .. Len(txns), i < j
      PROVE  Gone(i) \cap Gone(j) = {}
  <2> DEFINE e == EnvAt(db, Now, j)
  <2>1. Good(e, txns[j], HeadAt(Now, j), McAt(Now, j), {}) /\ e.freed = FreedTo(txns, j - 1)
    BY LevelIs
  <2> HIDE DEF e
  <2>2. e.freed \cap Gone(j) = {}
    BY <2>1 DEF Good, Parts, Split, Gone
  <2>3. i \in 1 .. j - 1
    BY <1>1
  <2>4. Gone(i) \subseteq FreedTo(txns, j - 1)
    BY <2>3 DEF FreedTo, Gone
  <2> QED BY <2>1, <2>2, <2>4
<1>2. k < l \/ l < k
  OBVIOUS
<1> QED BY <1>1, <1>2

\* The top-level transaction and its children, together.
LEMMA GoneTo ==
  ASSUME Whole, Usable
  PROVE  LET N == Len(txns)
             t == txns[N]
             P == TreePages(db.file, txns, N, t.root)
             G == UNION {Gone(l) : l \in 1 .. N}
         IN  /\ P \cap (db.head \cup db.recent \cup G) = {}
             /\ db.head \cap (db.recent \cup G) = {} /\ db.recent \cap G = {}
             /\ P \cup db.head \cup db.recent \cup G = 2 .. t.next - 1
<1> DEFINE N == Len(txns)
           t == txns[N]
           P == TreePages(db.file, txns, N, t.root)
           G == UNION {Gone(l) : l \in 1 .. N}
           e == EnvAt(db, Now, N)
           old == FreedTo(txns, N - 1)
<1>1. N \in Nat /\ N \in 1 .. N
  BY DEF Whole, TypeOK, Usable
<1>2. /\ Fits(db, e, Now) /\ T(Now) = t /\ Good(e, t, Now.head, Now.mc, {})
      /\ Now.txns = txns /\ Now.file = db.file /\ Now.head = db.head /\ Top(Now) = N
  BY StartIs, NowIs DEF Whole
<1>3. e.freed = old /\ e.recent = db.recent
  BY <1>1, LevelIs
<1> HIDE DEF e, t
<1>4. TreePages(Now.file, Now.txns, Top(Now), T(Now).root) = Pages(e, T(Now))
  <2>1. TreeShape(AtIn(e, T(Now)), T(Now).root)
    BY <1>2 DEF Good
  <2> QED BY <1>2, <2>1, TreePagesIs
<1>5. P = Pages(e, t)
  BY <1>2, <1>4
<1>6. Split(P, db.head, old, t.free, Range(t.loose), db.recent, {}, t.next)
  BY <1>2, <1>3, <1>5 DEF Good, Parts, Pages
<1>7. G = old \cup Gone(N)
  <2>1. old = UNION {Gone(l) : l \in 1 .. N - 1}
    BY DEF FreedTo, Gone
  <2>2. \A l : l \in 1 .. N <=> l \in 1 .. N - 1 \/ l = N
    BY <1>1
  <2> QED BY <2>1, <2>2
<1>8. G = old \cup t.free \cup Range(t.loose)
  BY <1>7 DEF Gone, t
<1> HIDE DEF P, G, old, N
<1>9. /\ P \cap (db.head \cup db.recent \cup G) = {}
      /\ db.head \cap (db.recent \cup G) = {} /\ db.recent \cap G = {}
      /\ P \cup db.head \cup db.recent \cup G = 2 .. t.next - 1
  BY <1>6, <1>8 DEF Split
<1> QED BY <1>9 DEF P, G, t, N

\* PagesInOneList's sequence of sets.
Listed(A, B, C, n, b, c, q) ==
  /\ DOMAIN q = 1 .. 3 + n + n /\ q[1] = A /\ q[2] = B /\ q[3] = C
  /\ \A i \in 1 .. n : q[3 + i] = b[i] /\ q[3 + n + i] = c[i]

LEMMA Listing ==
  ASSUME NEW S, NEW A \in S, NEW B \in S, NEW C \in S, NEW n \in Nat,
         NEW b \in [1 .. n -> S], NEW c \in [1 .. n -> S]
  PROVE  Listed(A, B, C, n, b, c, <<A, B, C>> \o b \o c)
<1> DEFINE a == <<A, B, C>>
           ab == a \o b
           q == ab \o c
<1>1. a \in Seq(S) /\ Len(a) = 3 /\ a[1] = A /\ a[2] = B /\ a[3] = C
  OBVIOUS
<1>2. b \in Seq(S) /\ Len(b) = n /\ c \in Seq(S) /\ Len(c) = n
  OBVIOUS
<1> HIDE DEF a
<1>3. ab \in Seq(S) /\ Len(ab) = 3 + n
      /\ \A i \in 1 .. 3 + n : ab[i] = IF i <= 3 THEN a[i] ELSE b[i - 3]
  <2>1. a \in Seq(S) /\ b \in Seq(S)
    BY <1>1, <1>2
  <2>2. /\ ab \in Seq(S) /\ Len(ab) = Len(a) + Len(b)
        /\ \A i \in 1 .. Len(a) + Len(b) : ab[i] = IF i <= Len(a) THEN a[i] ELSE b[i - Len(a)]
    BY ONLY <2>1, ConcatProperties DEF ab
  <2> HIDE DEF ab
  <2> QED BY <1>1, <1>2, <2>2
<1> HIDE DEF ab
<1>4. q \in Seq(S) /\ Len(q) = (3 + n) + n
      /\ \A i \in 1 .. (3 + n) + n : q[i] = IF i <= 3 + n THEN ab[i] ELSE c[i - (3 + n)]
  <2>1. ab \in Seq(S) /\ c \in Seq(S)
    BY <1>2, <1>3
  <2>2. /\ q \in Seq(S) /\ Len(q) = Len(ab) + Len(c)
        /\ \A i \in 1 .. Len(ab) + Len(c) : q[i] = IF i <= Len(ab) THEN ab[i] ELSE c[i - Len(ab)]
    BY ONLY <2>1, ConcatProperties DEF q
  <2> HIDE DEF q
  <2> QED BY <1>2, <1>3, <2>2
<1> HIDE DEF q
<1>5. DOMAIN q = 1 .. 3 + n + n
  BY <1>4
<1>6. q[1] = A /\ q[2] = B /\ q[3] = C
  BY <1>1, <1>3, <1>4
<1>7. ASSUME NEW i \in 1 .. n PROVE q[3 + i] = b[i] /\ q[3 + n + i] = c[i]
  <2>1. 3 + i \in 1 .. 3 + n /\ 3 + i \in 1 .. 3 + n + n /\ ~(3 + i <= 3) /\ (3 + i) - 3 = i /\ 3 + i <= 3 + n
    OBVIOUS
  <2>2. 3 + n + i \in 1 .. 3 + n + n /\ ~(3 + n + i <= 3 + n) /\ (3 + n + i) - (3 + n) = i
    OBVIOUS
  <2>3. q[3 + i] = b[i]
    BY <1>3, <1>4, <2>1
  <2>4. q[3 + n + i] = c[i]
    BY <1>4, <2>2
  <2> QED BY <2>3, <2>4
<1>8. Listed(A, B, C, n, b, c, q)
  BY <1>5, <1>6, <1>7 DEF Listed
<1> QED BY <1>8 DEF q, ab, a

LEMMA PagesFrom ==
  ASSUME Whole
  PROVE  PagesInOneList
<1> SUFFICES ASSUME Usable
             PROVE  LET l     == Len(txns)
                        t     == txns[l]
                        parts == <<TreePages(db.file, txns, l, t.root), db.head, db.recent>>
                                 \o [i \in 1 .. l |-> txns[i].free] \o [i \in 1 .. l |-> Range(txns[i].loose)]
                    IN  /\ \A i, j \in DOMAIN parts : i # j => parts[i] \cap parts[j] = {}
                        /\ UNION Range(parts) = 2 .. t.next - 1
  BY DEF PagesInOneList
<1> DEFINE N == Len(txns)
           A == TreePages(db.file, txns, N, txns[N].root)
           B == db.head
           C == db.recent
           f == [i \in 1 .. N |-> txns[i].free]
           g == [i \in 1 .. N |-> Range(txns[i].loose)]
           q == <<A, B, C>> \o f \o g
           S == {A, B, C} \cup {f[i] : i \in 1 .. N} \cup {g[i] : i \in 1 .. N}
           G == UNION {Gone(l) : l \in 1 .. N}
           next == txns[N].next
<1>1. N \in Nat
  BY DEF Whole, TypeOK
<1>2. /\ A \cap (B \cup C \cup G) = {} /\ B \cap (C \cup G) = {} /\ C \cap G = {}
      /\ A \cup B \cup C \cup G = 2 .. next - 1
  BY GoneTo
<1>3. \A i, j \in 1 .. N : i # j => Gone(i) \cap Gone(j) = {}
  BY GoneApart
<1>4. ASSUME NEW i \in 1 .. N
      PROVE  f[i] \cap g[i] = {} /\ Gone(i) = f[i] \cup g[i] /\ Gone(i) \subseteq G
  <2>1. Good(EnvAt(db, Now, i), txns[i], HeadAt(Now, i), McAt(Now, i), {})
    BY LevelIs
  <2>2. txns[i].free \cap Range(txns[i].loose) = {}
    BY <2>1 DEF Good, Parts, Split
  <2> QED BY <2>2 DEF Gone
<1>5. A \in S /\ B \in S /\ C \in S /\ f \in [1 .. N -> S] /\ g \in [1 .. N -> S]
  OBVIOUS
<1>6. G = UNION {f[i] \cup g[i] : i \in 1 .. N}
  BY <1>4
<1> HIDE DEF A, B, C, f, g, S, G, next, N
<1>7. /\ DOMAIN q = 1 .. 3 + N + N /\ q[1] = A /\ q[2] = B /\ q[3] = C
      /\ \A i \in 1 .. N : q[3 + i] = f[i] /\ q[3 + N + i] = g[i]
  <2>1. Listed(A, B, C, N, f, g, <<A, B, C>> \o f \o g)
    BY ONLY <1>1, <1>5, Listing
  <2> QED BY <2>1 DEF Listed, q
<1> HIDE DEF q
\* A member of q by its kind: one of the first three, or a list of transaction x.
<1> DEFINE Kind(k) == \/ k \in {1, 2, 3}
                      \/ \E x \in 1 .. N : k = 3 + x \/ k = 3 + N + x
<1>8. ASSUME NEW k \in DOMAIN q PROVE Kind(k)
  <2>1. k \in Int /\ 1 <= k /\ k <= 3 + N + N
    BY <1>1, <1>7
  <2>2. CASE k <= 3
    BY <2>1, <2>2
  <2>3. CASE 3 < k /\ k <= 3 + N
    <3>1. k - 3 \in 1 .. N /\ k = 3 + (k - 3)
      BY <1>1, <2>1, <2>3
    <3> QED BY <3>1
  <2>4. CASE 3 + N < k
    <3>1. k - 3 - N \in 1 .. N /\ k = 3 + N + (k - 3 - N)
      BY <1>1, <2>1, <2>4
    <3> QED BY <3>1
  <2> QED BY <1>1, <2>1, <2>2, <2>3, <2>4
<1>9. ASSUME NEW i \in DOMAIN q, NEW j \in DOMAIN q, i < j PROVE q[i] \cap q[j] = {}
  <2>0. Kind(i) /\ Kind(j)
    BY <1>8
  <2>1. CASE j \in {1, 2, 3}
    <3>1. i \in Int /\ 1 <= i
      BY <1>1, <1>7
    <3>2. (i = 1 /\ j = 2) \/ (i = 1 /\ j = 3) \/ (i = 2 /\ j = 3)
      BY <1>9, <2>1, <3>1
    <3> QED BY <1>2, <1>7, <3>2
  <2>2. CASE i \in {1, 2, 3} /\ j \notin {1, 2, 3}
    <3>1. PICK x \in 1 .. N : j = 3 + x \/ j = 3 + N + x
      BY <2>0, <2>2
    <3>2. q[j] \subseteq G
      BY <1>4, <1>7, <3>1
    <3> QED BY <1>2, <1>7, <2>2, <3>2
  <2>3. CASE i \notin {1, 2, 3} /\ j \notin {1, 2, 3}
    <3>1. PICK x \in 1 .. N : i = 3 + x \/ i = 3 + N + x
      BY <2>0, <2>3
    <3>2. PICK y \in 1 .. N : j = 3 + y \/ j = 3 + N + y
      BY <2>0, <2>3
    <3>3. q[i] \subseteq Gone(x) /\ q[j] \subseteq Gone(y)
      BY <1>4, <1>7, <3>1, <3>2
    <3>4. CASE x # y
      BY <1>3, <3>3, <3>4
    <3>5. CASE x = y
      <4>1. i = 3 + x /\ j = 3 + N + x
        BY <1>1, <1>9, <3>1, <3>2, <3>5
      <4> QED BY <1>4, <1>7, <4>1
    <3> QED BY <3>4, <3>5
  <2> QED BY <2>1, <2>2, <2>3
<1>10. \A i, j \in DOMAIN q : i # j => q[i] \cap q[j] = {}
  <2>1. \A i \in DOMAIN q : i \in Int
    BY <1>1, <1>7
  <2> QED BY <1>9, <2>1
<1>11. UNION Range(q) = A \cup B \cup C \cup G
  <2>1. UNION Range(q) \subseteq A \cup B \cup C \cup G
    <3> SUFFICES ASSUME NEW k \in DOMAIN q PROVE q[k] \subseteq A \cup B \cup C \cup G
      BY DEF Range
    <3>1. Kind(k)
      BY <1>8
    <3>2. CASE k \in {1, 2, 3}
      BY <1>7, <3>2
    <3>3. CASE k \notin {1, 2, 3}
      <4>1. PICK x \in 1 .. N : k = 3 + x \/ k = 3 + N + x
        BY <3>1, <3>3
      <4> QED BY <1>4, <1>7, <4>1
    <3> QED BY <3>2, <3>3
  <2>2. ASSUME NEW k \in DOMAIN q PROVE q[k] \subseteq UNION Range(q)
    BY DEF Range
  <2>3. A \cup B \cup C \subseteq UNION Range(q)
    <3>1. 1 \in DOMAIN q /\ 2 \in DOMAIN q /\ 3 \in DOMAIN q
      BY <1>1, <1>7
    <3> QED BY <1>7, <2>2, <3>1
  <2>4. G \subseteq UNION Range(q)
    <3>1. ASSUME NEW x \in 1 .. N PROVE 3 + x \in DOMAIN q /\ 3 + N + x \in DOMAIN q
      BY <1>1, <1>7
    <3>2. ASSUME NEW x \in 1 .. N PROVE f[x] \cup g[x] \subseteq UNION Range(q)
      BY <1>7, <2>2, <3>1
    <3> QED BY <1>6, <3>2
  <2> QED BY <2>1, <2>3, <2>4
<1> QED BY <1>2, <1>10, <1>11 DEF q, A, B, C, f, g, N, next

-----------------------------------------------------------------------------
(***************************************************************************)
(* The refinement mapping: the values that View finds are the tree's.      *)
(***************************************************************************)

\* What View reads is the values of the tree.
LEMMA ViewIs ==
  ASSUME NEW ts, NEW l, NEW root, NEW at, at = AtOf(db.file, ts, l), TreeShape(at, root)
  PROVE  View(ts, l, root) = ValOf(at, root)
<1> DEFINE g == [p \in Nat |-> IF p = NoPg THEN Blank
                               ELSE PageAt([file |-> db.file, txns |-> ts], PageGet(ts, l, p))]
<1>1. View(ts, l, root) = [n \in Leaf |-> g[g[root].kid[n]].val]
  BY DEF View
<1>2. /\ \A p \in Pg : p \in Nat /\ p # NoPg
      /\ NoPg \in Nat
  BY PgIs DEF NoPg
<1>3. /\ g[NoPg] = Blank /\ \A p \in Pg : g[p] = at[p]
  BY <1>2 DEF AtOf
<1>4. root \in PgN /\ \A n \in Leaf : KidOf(at, root)[n] \in PgN
  BY DEF TreeShape
<1> HIDE DEF g
<1>5. ASSUME NEW n \in Leaf
      PROVE  g[g[root].kid[n]].val = IF KidOf(at, root)[n] = NoPg THEN NoVal
                                     ELSE at[KidOf(at, root)[n]].val
  <2> DEFINE k == KidOf(at, root)[n]
  <2>1. g[root].kid[n] = k
    <3>1. CASE root = NoPg
      BY <1>3, <3>1, BlankIs DEF KidOf
    <3>2. CASE root # NoPg
      <4>1. root \in Pg
        BY <1>4, <3>2 DEF PgN
      <4> QED BY <1>3, <3>2, <4>1 DEF KidOf
    <3> QED BY <3>1, <3>2
  <2>2. k \in Pg \/ k = NoPg
    BY <1>4 DEF PgN
  <2> HIDE DEF k
  <2>3. g[k].val = IF k = NoPg THEN NoVal ELSE at[k].val
    BY <1>2, <1>3, <2>2, BlankIs
  <2> QED BY <2>1, <2>3 DEF k
<1> QED BY <1>1, <1>5 DEF ValOf

Maps == [Leaf -> Val \cup {NoVal}]
Lost1 == [n \in Leaf |-> "MDB_TXN_ERROR"]   \* Abs!Broken

LEMMA ValOfIs ==
  ASSUME NEW at \in [Pg -> Page], NEW root, TreeShape(at, root)
  PROVE  ValOf(at, root) \in Maps
<1> SUFFICES ASSUME NEW n \in Leaf
             PROVE  (IF KidOf(at, root)[n] = NoPg THEN NoVal ELSE at[KidOf(at, root)[n]].val)
                    \in Val \cup {NoVal}
  BY DEF ValOf, Maps
<1> DEFINE k == KidOf(at, root)[n]
<1>1. k = NoPg \/ k \in Pg
  BY DEF TreeShape, PgN
<1> HIDE DEF k
<1>2. (IF k = NoPg THEN NoVal ELSE at[k].val) \in Val \cup {NoVal}
  BY <1>1 DEF Page
<1> QED BY <1>2 DEF k

\* The store and the stack of the abstract specification.
Mapped == /\ Store = ValOf(db.file, db.root) /\ Store \in Maps
          /\ \A l \in 1 .. Len(txns) : ValsAt(db, Now, l) \in Maps
          /\ Stack \in Seq(Maps \cup {Lost1}) /\ Len(Stack) = Len(txns) /\ Len(txns) \in Nat
          /\ \A l \in 1 .. Len(txns) :
               Stack[l] = IF txns[l].err THEN Lost1 ELSE ValsAt(db, Now, l)

\* The store and the stack, as the values of trees.
LEMMA MappedIs ==
  Whole => Mapped
<1> SUFFICES ASSUME Whole PROVE Mapped
  OBVIOUS
<1>1. txns \in Seq(TxnRec) /\ Len(txns) \in Nat /\ DOMAIN txns = 1 .. Len(txns) /\ db.file \in [Pg -> Page]
  BY DEF Whole, TypeOK, DbRec
<1>2. Base(db, db.file)
  <2>1. Now.file = db.file
    BY NowIs DEF Whole
  <2> QED BY <2>1 DEF Whole, IInv, All
<1>3. Store = ValOf(db.file, db.root) /\ Store \in Maps
  <2>1. AtOf(db.file, <<>>, 0) = db.file
    <3>1. \A p \in Pg : PageAt([file |-> db.file, txns |-> <<>>], PageGet(<<>>, 0, p)) = db.file[p]
      BY GetZero DEF PageAt
    <3> QED BY <1>1, <3>1 DEF AtOf
  <2>2. TreeShape(db.file, db.root)
    BY <1>2 DEF Base
  <2>3. View(<<>>, 0, db.root) = ValOf(db.file, db.root)
    BY <2>1, <2>2, ViewIs
  <2> QED BY <1>1, <2>2, <2>3, ValOfIs DEF Store
<1>4. ASSUME NEW l \in 1 .. Len(txns)
      PROVE  ValsAt(db, Now, l) \in Maps /\ View(txns, l, txns[l].root) = ValsAt(db, Now, l)
  <2> DEFINE e == EnvAt(db, Now, l)
             t == txns[l]
             at == AtIn(e, t)
  <2>1. /\ e = EnvOf(db, db.file, txns, l) /\ EnvOK(e) /\ t \in TxnRec /\ Now.txns = txns
        /\ Good(e, t, HeadAt(Now, l), McAt(Now, l), {})
    BY LevelIs DEF Level
  <2>2. AtOf(db.file, txns, l) = AtIn(EnvOf(db, db.file, txns, l), t)
    BY <1>1, InEnv
  <2>3. ValsAt(db, Now, l) = ValOf(at, t.root)
    BY <2>1 DEF ValsAt, Vals
  <2> HIDE DEF e, t
  <2>4. at = AtOf(db.file, txns, l) /\ TreeShape(at, t.root) /\ at \in [Pg -> Page]
    BY <2>1, <2>2, AtInIs DEF Good
  <2> HIDE DEF at
  <2>5. View(txns, l, t.root) = ValOf(at, t.root) /\ ValOf(at, t.root) \in Maps
    BY <2>4, ViewIs, ValOfIs
  <2> QED BY <2>3, <2>5 DEF t
<1>5. ASSUME NEW l \in 1 .. Len(txns)
      PROVE  Stack[l] = IF txns[l].err THEN Lost1 ELSE ValsAt(db, Now, l)
  BY <1>1, <1>4 DEF Stack, Lost1
<1>6. Stack \in Seq(Maps \cup {Lost1}) /\ Len(Stack) = Len(txns)
  <2>1. \A l \in 1 .. Len(txns) : Stack[l] \in Maps \cup {Lost1}
    BY <1>4, <1>5
  <2>2. Stack = [l \in 1 .. Len(txns) |-> Stack[l]]
    BY <1>1 DEF Stack
  <2> QED BY <1>1, <2>1, <2>2
<1> QED BY <1>1, <1>3, <1>4, <1>5, <1>6 DEF Mapped

LEMMA MappedThen ==
  Whole' => Mapped'
<1>1. Whole => Mapped
  BY MappedIs
<1> QED BY <1>1, PTL

-----------------------------------------------------------------------------
(***************************************************************************)
(* The steps of NestedStore.                                               *)
(***************************************************************************)

\* Sequences from their members.
LEMMA SameSeq ==
  ASSUME NEW S, NEW x \in Seq(S), NEW y \in Seq(S), Len(y) = Len(x), \A i \in 1 .. Len(x) : y[i] = x[i]
  PROVE  y = x
  OBVIOUS

LEMMA AppendBy ==
  ASSUME NEW S, NEW x \in Seq(S), NEW y \in Seq(S), Len(y) = Len(x) + 1,
         \A i \in 1 .. Len(x) : y[i] = x[i]
  PROVE  y = Append(x, y[Len(x) + 1])
<1> DEFINE m == y[Len(x) + 1]
<1>1. m \in S /\ Len(x) \in Nat
  OBVIOUS
<1> HIDE DEF m
<1>2. /\ Append(x, m) \in Seq(S) /\ Len(Append(x, m)) = Len(x) + 1
      /\ \A i \in 1 .. Len(x) : Append(x, m)[i] = x[i]
      /\ Append(x, m)[Len(x) + 1] = m
  BY <1>1, AppendProperties
<1>3. ASSUME NEW i \in 1 .. Len(x) + 1 PROVE y[i] = Append(x, m)[i]
  <2>1. CASE i \in 1 .. Len(x)
    BY <1>2, <2>1
  <2>2. CASE i = Len(x) + 1
    BY <1>2, <2>2 DEF m
  <2> QED BY <1>1, <2>1, <2>2
<1>4. y = Append(x, m)
  BY <1>2, <1>3, SameSeq
<1> QED BY <1>4 DEF m

LEMMA BelowBy ==
  ASSUME NEW S, NEW x \in Seq(S), NEW y \in Seq(S), NEW l \in 1 .. Len(x), Len(y) = l - 1,
         \A i \in 1 .. l - 1 : y[i] = x[i]
  PROVE  y = SubSeq(x, 1, l - 1)
<1> DEFINE z == SubSeq(x, 1, l - 1)
<1>1. z \in Seq(S) /\ Len(z) = l - 1 /\ \A i \in 1 .. l - 1 : z[i] = x[i]
  OBVIOUS
<1> HIDE DEF z
<1>2. y = z
  BY <1>1, SameSeq
<1> QED BY <1>2 DEF z

LEMMA UnderBy ==
  ASSUME NEW S, NEW x \in Seq(S), NEW y \in Seq(S), NEW l \in 2 .. Len(x), Len(y) = l - 1,
         \A i \in 1 .. l - 2 : y[i] = x[i]
  PROVE  y = Append(SubSeq(x, 1, (l - 1) - 1), y[l - 1])
<1> DEFINE z == SubSeq(x, 1, (l - 1) - 1)
<1>1. z \in Seq(S) /\ Len(z) = l - 2 /\ \A i \in 1 .. l - 2 : z[i] = x[i]
  OBVIOUS
<1>2. Len(y) = Len(z) + 1 /\ Len(z) + 1 = l - 1 /\ \A i \in 1 .. Len(z) : y[i] = z[i]
  <2> HIDE DEF z
  <2> QED BY <1>1
<1> HIDE DEF z
<1>3. y = Append(z, y[l - 1])
  <2>1. y = Append(z, y[Len(z) + 1])
    BY <1>1, <1>2, AppendBy
  <2> QED BY <1>2, <2>1
<1> QED BY <1>3 DEF z

LEMMA ChangeBy ==
  ASSUME NEW S, NEW x \in Seq(S), NEW y \in Seq(S), Len(y) = Len(x), Len(x) # 0,
         \A i \in 1 .. Len(x) - 1 : y[i] = x[i]
  PROVE  y = [x EXCEPT ![Len(x)] = y[Len(x)]]
<1> DEFINE N == Len(x)
           z == [x EXCEPT ![N] = y[N]]
<1>1. N \in 1 .. N /\ N \in Nat /\ y[N] \in S
  OBVIOUS
<1>2. z \in Seq(S) /\ Len(z) = N /\ z[N] = y[N] /\ \A i \in 1 .. N - 1 : z[i] = x[i]
  BY <1>1
<1> HIDE DEF z
<1>3. ASSUME NEW i \in 1 .. N PROVE y[i] = z[i]
  <2>1. i = N \/ i \in 1 .. N - 1
    BY <1>1
  <2> QED BY <1>2, <2>1
<1>4. y = z
  BY <1>2, <1>3, SameSeq
<1> QED BY <1>4 DEF z, N

\* A step that begins a transaction, writes in the last one, aborts or commits,
\* seen in the stack alone.
Wide == Maps \cup {Lost1}

LEMMA NotBroken ==
  ASSUME Leaf # {}, NEW m \in Maps
  PROVE  m # Lost1
<1>1. PICK n \in Leaf : TRUE
  OBVIOUS
<1>2. m[n] \in Val \cup {NoVal} /\ Lost1[n] = "MDB_TXN_ERROR"
  BY DEF Maps, Lost1
<1> QED BY <1>2, ErrorAssumption DEF NoVal

LEMMA BegunStep ==
  ASSUME Store' = Store, Stack \in Seq(Wide), Stack' \in Seq(Wide),
         Len(Stack') = Len(Stack) + 1, \A i \in 1 .. Len(Stack) : Stack'[i] = Stack[i],
         NEW m, m # Lost1, \A i : i = Len(Stack) + 1 => Stack'[i] = m, Abs!Seen(Stack) = m
  PROVE  Abs!Next
<1>1. Stack' = Append(Stack, m)
  <2> DEFINE x == Stack
             y == Stack'
  <2>1. x \in Seq(Wide) /\ y \in Seq(Wide) /\ Len(y) = Len(x) + 1 /\ \A i \in 1 .. Len(x) : y[i] = x[i]
    OBVIOUS
  <2>2. y[Len(x) + 1] = m
    OBVIOUS
  <2> HIDE DEF x, y
  <2>3. y = Append(x, m)
    BY <2>1, <2>2, AppendBy
  <2> QED BY <2>3 DEF x, y
<1>2. m # Abs!Broken
  BY DEF Abs!Broken, Lost1
<1>3. Stack' \in Abs!Begun(Stack)
  BY <1>1, <1>2 DEF Abs!Begun
<1> QED BY <1>3 DEF Abs!Next

LEMMA AbortedStep ==
  ASSUME Store' = Store, Stack \in Seq(Wide), Stack' \in Seq(Wide), NEW l \in 1 .. Len(Stack),
         Len(Stack') = l - 1, \A i \in 1 .. l - 1 : Stack'[i] = Stack[i]
  PROVE  Abs!Next /\ Abs!Abort(l)
<1>1. Stack' = SubSeq(Stack, 1, l - 1)
  <2> DEFINE x == Stack
             y == Stack'
  <2>1. x \in Seq(Wide) /\ y \in Seq(Wide) /\ l \in 1 .. Len(x) /\ Len(y) = l - 1 /\ \A i \in 1 .. l - 1 : y[i] = x[i]
    OBVIOUS
  <2> HIDE DEF x, y
  <2>2. y = SubSeq(x, 1, l - 1)
    BY <2>1, BelowBy
  <2> QED BY <2>2 DEF x, y
<1>2. Stack' \in Abs!Aborted(Stack)
  BY <1>1 DEF Abs!Aborted, Abs!Below
<1> QED BY <1>1, <1>2 DEF Abs!Next, Abs!Abort, Abs!Below

LEMMA CommittedStep ==
  ASSUME Store' = Store, Stack \in Seq(Wide), Stack' \in Seq(Wide), NEW l \in 2 .. Len(Stack),
         Len(Stack') = l - 1, \A i \in 1 .. l - 2 : Stack'[i] = Stack[i],
         NEW m, Stack'[l - 1] = m, m = Lost1 \/ (m # Lost1 /\ Stack[Len(Stack)] = m)
  PROVE  Abs!Next /\ (m = Stack[Len(Stack)] => Abs!Commit(l))
<1>1. Stack' = Append(SubSeq(Stack, 1, (l - 1) - 1), m)
  <2> DEFINE x == Stack
             y == Stack'
  <2>1. /\ x \in Seq(Wide) /\ y \in Seq(Wide) /\ l \in 2 .. Len(x) /\ Len(y) = l - 1
        /\ \A i \in 1 .. l - 2 : y[i] = x[i]
    OBVIOUS
  <2>2. y[l - 1] = m
    OBVIOUS
  <2> HIDE DEF x, y
  <2>3. y = Append(SubSeq(x, 1, (l - 1) - 1), y[l - 1])
    BY <2>1, UnderBy
  <2> QED BY <2>2, <2>3 DEF x, y
<1>2. Stack # <<>> /\ Len(Stack) \in Nat
  OBVIOUS
<1>3. Lost1 = Abs!Broken
  BY DEF Abs!Broken, Lost1
<1>4. Stack' \in Abs!Committed(Stack)
  BY <1>1, <1>2, <1>3 DEF Abs!Committed, Abs!Below, Abs!Seen
<1>5. Abs!Commit(l) \/ m # Stack[Len(Stack)]
  <2>1. l # 1
    OBVIOUS
  <2> QED BY <1>1, <1>2, <2>1 DEF Abs!Commit, Abs!Below, Abs!Seen
<1> QED BY <1>4, <1>5 DEF Abs!Next

LEMMA WrittenStep ==
  ASSUME Store' = Store, Stack \in Seq(Wide), Stack' \in Seq(Wide), Len(Stack) # 0,
         Len(Stack') = Len(Stack), \A i \in 1 .. Len(Stack) - 1 : Stack'[i] = Stack[i],
         Stack[Len(Stack)] # Lost1,
         NEW m, \A i : i = Len(Stack) => Stack'[i] = m,
         \/ m = Lost1 \/ m = [n \in Leaf |-> NoVal]
         \/ \E n \in Leaf, v \in Val \cup {NoVal} : m = [Stack[Len(Stack)] EXCEPT ![n] = v]
  PROVE  Abs!Next
<1>1. Stack' = [Stack EXCEPT ![Len(Stack)] = m]
  <2> DEFINE x == Stack
             y == Stack'
  <2>1. /\ x \in Seq(Wide) /\ y \in Seq(Wide) /\ Len(y) = Len(x) /\ Len(x) # 0
        /\ \A i \in 1 .. Len(x) - 1 : y[i] = x[i]
    OBVIOUS
  <2>2. y[Len(x)] = m
    OBVIOUS
  <2> HIDE DEF x, y
  <2>3. y = [x EXCEPT ![Len(x)] = y[Len(x)]]
    BY <2>1, ChangeBy
  <2> QED BY <2>2, <2>3 DEF x, y
<1>2. Stack # <<>>
  OBVIOUS
<1>3. Lost1 = Abs!Broken
  BY DEF Abs!Broken, Lost1
<1>4. Stack' \in Abs!Written(Stack)
  <2> DEFINE N == Len(Stack)
             top == Stack[N]
             E(n, v) == [top EXCEPT ![n] = v]
             Y == {E(n, v) : n \in Leaf, v \in Val \cup {NoVal}}
             Z == {[n \in Leaf |-> NoVal], Abs!Broken}
             X == Y \cup Z
  <2>1. m \in X
    <3>1. m \in Z \/ \E n \in Leaf, v \in Val \cup {NoVal} : m = E(n, v)
      BY <1>3
    <3>2. (\E n \in Leaf, v \in Val \cup {NoVal} : m = E(n, v)) => m \in Y
      <4> HIDE DEF E
      <4> QED OBVIOUS
    <3> HIDE DEF Y, Z
    <3> QED BY <3>1, <3>2
  <2>2. Abs!Written(Stack) = {[Stack EXCEPT ![N] = x] : x \in X}
    BY <1>2, <1>3 DEF Abs!Written
  <2> HIDE DEF X, N
  <2>3. [Stack EXCEPT ![N] = m] \in {[Stack EXCEPT ![N] = x] : x \in X}
    BY <2>1
  <2> QED BY <1>1, <2>2, <2>3 DEF N
<1> QED BY <1>4 DEF Abs!Next

-----------------------------------------------------------------------------
(***************************************************************************)
(* The operations and mdb_txn_begin are steps of NestedStore.              *)
(***************************************************************************)

\* What the invariant says before and after a step.
LEMMA BothIs ==
  ASSUME Whole, Whole'
  PROVE  /\ Mapped /\ Mapped' /\ Stack \in Seq(Wide) /\ Stack' \in Seq(Wide)
         /\ Len(Stack) = Len(txns) /\ Len(Stack') = Len(txns') /\ Len(txns) \in Nat /\ Len(txns') \in Nat
         /\ StoreKept => Store' = Store
         /\ \A l \in 1 .. Len(txns) : txns[l].err => Stack[l] = Lost1
         /\ \A l \in 1 .. Len(txns) : ~txns[l].err => Stack[l] = ValsAt(db, Now, l) /\ Stack[l] # Lost1
         /\ \A l \in 1 .. Len(txns') : txns'[l].err => Stack'[l] = Lost1
         /\ \A l \in 1 .. Len(txns') : ~txns'[l].err => Stack'[l] = ValsAt(db, Now, l)' /\ Stack'[l] # Lost1
         /\ Store # Lost1
<1>1. Mapped /\ Mapped' /\ Leaf # {}
  BY MappedIs, MappedThen DEF Whole
<1>2. /\ Stack \in Seq(Wide) /\ Stack' \in Seq(Wide)
      /\ Len(Stack) = Len(txns) /\ Len(Stack') = Len(txns') /\ Len(txns) \in Nat /\ Len(txns') \in Nat
  BY <1>1 DEF Mapped, Wide
<1>3. StoreKept => Store' = Store
  BY <1>1 DEF Mapped, StoreKept
<1>4. /\ \A l \in 1 .. Len(txns) : ValsAt(db, Now, l) \in Maps
      /\ \A l \in 1 .. Len(txns) : Stack[l] = IF txns[l].err THEN Lost1 ELSE ValsAt(db, Now, l)
      /\ Store \in Maps
  BY <1>1 DEF Mapped
<1>5. /\ \A l \in 1 .. Len(txns') : ValsAt(db, Now, l)' \in Maps
      /\ \A l \in 1 .. Len(txns') : Stack'[l] = IF txns'[l].err THEN Lost1 ELSE ValsAt(db, Now, l)'
  BY <1>1 DEF Mapped
<1>6. ASSUME NEW l \in 1 .. Len(txns), ~txns[l].err
      PROVE  Stack[l] = ValsAt(db, Now, l) /\ Stack[l] # Lost1
  BY <1>1, <1>4, <1>6, NotBroken
<1>7. ASSUME NEW l \in 1 .. Len(txns'), ~txns'[l].err
      PROVE  Stack'[l] = ValsAt(db, Now, l)' /\ Stack'[l] # Lost1
  BY <1>1, <1>5, <1>7, NotBroken
<1>8. Store # Lost1
  BY <1>1, <1>4, NotBroken
<1>9. \A l \in 1 .. Len(txns) : txns[l].err => Stack[l] = Lost1
  BY <1>4
<1>10. \A l \in 1 .. Len(txns') : txns'[l].err => Stack'[l] = Lost1
  BY <1>5
<1> QED BY <1>1, <1>2, <1>3, <1>6, <1>7, <1>8, <1>9, <1>10

LEMMA StaySame ==
  ASSUME Mapped, Mapped', NEW n \in Nat, n <= Len(txns), n <= Len(txns'), Stay(n)
  PROVE  \A i \in 1 .. n : Stack'[i] = Stack[i]
<1> SUFFICES ASSUME NEW i \in 1 .. n PROVE Stack'[i] = Stack[i]
  OBVIOUS
<1>1. txns'[i] = txns[i] /\ ValsAt(db, Now, i)' = ValsAt(db, Now, i)
  BY DEF Stay
<1>2. Len(txns) \in Nat /\ Len(txns') \in Nat
  BY DEF Mapped
<1>3. i \in 1 .. Len(txns) /\ i \in 1 .. Len(txns')
  BY <1>2
<1>4. Stack[i] = IF txns[i].err THEN Lost1 ELSE ValsAt(db, Now, i)
  BY <1>3 DEF Mapped
<1>5. Stack'[i] = IF txns'[i].err THEN Lost1 ELSE ValsAt(db, Now, i)'
  BY <1>3 DEF Mapped
<1> QED BY <1>1, <1>4, <1>5

AbsStep == Abs!Next \/ UNCHANGED <<Store, Stack>>

\* One operation of the last transaction.
LEMMA OpStep ==
  ASSUME Whole, Usable, NEW e2, NEW a, NEW V, Did(db, EnvAt(db, Now, Len(txns)), e2, Now, a, V),
         Becomes(a),
         \/ V = V0 \/ V = [n \in Leaf |-> NoVal]
         \/ \E n \in Leaf, v \in Val \cup {NoVal} : V = [V0 EXCEPT ![n] = v]
  PROVE  AbsStep /\ Abs!Write(V)
<1> DEFINE N == Len(txns)
<1>1. /\ Whole' /\ Len(txns') = N /\ Stay(N - 1) /\ StoreKept
      /\ txns'[N].err \/ (~txns'[N].err /\ ValsAt(db, Now, N)' = V)
  BY OpIs
<1>2. N \in Nat /\ N # 0 /\ N \in 1 .. N /\ ~txns[N].err /\ N - 1 \in Nat /\ N - 1 <= N
  <2>1. N \in Nat /\ N # 0
    BY DEF Whole, TypeOK, Usable
  <2>2. ~txns[N].err
    BY DEF Usable, Last
  <2> QED BY <2>1, <2>2
<1>3. /\ Mapped /\ Mapped' /\ Stack \in Seq(Wide) /\ Stack' \in Seq(Wide)
      /\ Len(Stack) = N /\ Len(Stack') = N /\ Store' = Store
      /\ Stack[N] = V0 /\ Stack[N] # Lost1
      /\ txns'[N].err => Stack'[N] = Lost1
      /\ ~txns'[N].err => Stack'[N] = ValsAt(db, Now, N)'
  BY <1>1, <1>2, BothIs DEF V0
<1>4. \A i \in 1 .. N - 1 : Stack'[i] = Stack[i]
  BY <1>1, <1>2, <1>3, StaySame
<1> DEFINE m == Stack'[N]
<1>5. m = Lost1 \/ m = V
  BY <1>1, <1>3
<1>w. Abs!Write(V)
  <2> DEFINE x == Stack
             y == Stack'
  <2>1. /\ x \in Seq(Wide) /\ y \in Seq(Wide) /\ Len(y) = Len(x) /\ Len(x) # 0
        /\ \A i \in 1 .. Len(x) - 1 : y[i] = x[i]
    BY <1>2, <1>3, <1>4
  <2>2. y[Len(x)] = m
    BY <1>3
  <2> HIDE DEF x, y, m
  <2>3. y = [x EXCEPT ![Len(x)] = m]
    BY <2>1, <2>2, ChangeBy
  <2>4. Lost1 = Abs!Broken
    BY DEF Abs!Broken, Lost1
  <2> QED BY <1>3, <1>5, <2>3, <2>4 DEF Abs!Write, x, y
<1>6. ASSUME m = V0 PROVE AbsStep
  <2> DEFINE x == Stack
             y == Stack'
  <2>1. /\ x \in Seq(Wide) /\ y \in Seq(Wide) /\ Len(y) = Len(x)
    BY <1>3
  <2>2. ASSUME NEW i \in 1 .. Len(x) PROVE y[i] = x[i]
    <3>1. i = N \/ i \in 1 .. N - 1
      BY <1>2, <1>3
    <3> QED BY <1>3, <1>4, <1>6, <3>1
  <2> HIDE DEF x, y
  <2>3. y = x
    BY <2>1, <2>2, SameSeq
  <2>4. Stack' = Stack
    BY <2>3 DEF x, y
  <2> QED BY <1>3, <2>4 DEF AbsStep
<1>7. ASSUME m # V0 PROVE AbsStep
  <2>1. \A i : i = Len(Stack) => Stack'[i] = m
    BY <1>3
  <2>2. \/ m = Lost1 \/ m = [n \in Leaf |-> NoVal]
        \/ \E n \in Leaf, v \in Val \cup {NoVal} : m = [Stack[Len(Stack)] EXCEPT ![n] = v]
    <3>1. Stack[Len(Stack)] = V0
      BY <1>3
    <3> HIDE DEF m
    <3> QED BY <1>5, <1>7, <3>1
  <2>3. /\ Len(Stack) # 0 /\ Len(Stack') = Len(Stack) /\ Stack[Len(Stack)] # Lost1
        /\ \A i \in 1 .. Len(Stack) - 1 : Stack'[i] = Stack[i]
    BY <1>2, <1>3, <1>4
  <2> HIDE DEF m
  <2>4. Abs!Next
    BY <1>3, <2>1, <2>2, <2>3, WrittenStep
  <2> QED BY <2>4 DEF AbsStep
<1> QED BY <1>w, <1>6, <1>7

\* A new transaction begins with what is below it.
LEMMA BeginStep ==
  ASSUME Whole, Begin
  PROVE  AbsStep
<1>1. /\ Whole' /\ Len(txns') = 1 /\ StoreKept /\ ~txns'[1].err
      /\ ValsAt(db, Now, 1)' = ValOf(db.file, db.root) /\ txns = <<>>
  BY BeginDoes DEF Begin
<1>2. /\ Stack \in Seq(Wide) /\ Stack' \in Seq(Wide) /\ Len(Stack) = 0 /\ Len(Stack') = 1
      /\ Store' = Store /\ Stack'[1] = ValsAt(db, Now, 1)' /\ Store # Lost1 /\ Mapped
  <2>1. Len(txns) = 0 /\ 1 \in 1 .. Len(txns')
    BY <1>1
  <2> QED BY <1>1, <2>1, BothIs
<1>3. Store = ValOf(db.file, db.root)
  BY <1>2 DEF Mapped
<1>4. Stack = <<>>
  BY <1>2
<1>5. Abs!Seen(Stack) = Store
  BY <1>4 DEF Abs!Seen
<1> DEFINE m == Store
<1>6. \A i : i = Len(Stack) + 1 => Stack'[i] = m
  BY <1>1, <1>2, <1>3
<1>7. /\ Len(Stack') = Len(Stack) + 1 /\ \A i \in 1 .. Len(Stack) : Stack'[i] = Stack[i]
  BY <1>2
<1>8. m # Lost1 /\ Abs!Seen(Stack) = m
  BY <1>2, <1>5
<1> HIDE DEF m
<1>9. Abs!Next
  BY <1>2, <1>6, <1>7, <1>8, BegunStep
<1> QED BY <1>9 DEF AbsStep

LEMMA BeginChildStep ==
  ASSUME Whole, BeginChild
  PROVE  AbsStep
<1> DEFINE N == Len(txns)
<1>1. /\ Usable /\ Whole' /\ Len(txns') = N + 1 /\ Stay(N) /\ StoreKept /\ ~txns'[N + 1].err
      /\ \A l : l = N + 1 => ValsAt(db, Now, l)' = ValsAt(db, Now, N)
  BY BeginChildDoes
<1>2. N \in Nat /\ N # 0 /\ N \in 1 .. N /\ N + 1 \in 1 .. N + 1 /\ ~txns[N].err /\ N <= N /\ N <= N + 1
  <2>1. N \in Nat /\ N # 0
    BY <1>1 DEF Whole, TypeOK, Usable
  <2>2. ~txns[N].err
    BY <1>1 DEF Usable, Last
  <2> QED BY <2>1, <2>2
<1>3. /\ Mapped /\ Mapped' /\ Stack \in Seq(Wide) /\ Stack' \in Seq(Wide)
      /\ Len(Stack) = N /\ Len(Stack') = N + 1 /\ Store' = Store
      /\ Stack[N] = ValsAt(db, Now, N) /\ Stack[N] # Lost1
      /\ \A l : l = N + 1 => Stack'[l] = ValsAt(db, Now, l)'
  <2>1. \A l : l = N + 1 => l \in 1 .. Len(txns') /\ ~txns'[l].err
    BY <1>1, <1>2
  <2> QED BY <1>1, <1>2, <2>1, BothIs
<1>4. \A i \in 1 .. N : Stack'[i] = Stack[i]
  BY <1>1, <1>2, <1>3, StaySame
<1> DEFINE m == Stack[N]
<1>5. \A i : i = Len(Stack) + 1 => Stack'[i] = m
  BY <1>1, <1>3
<1>6. Abs!Seen(Stack) = m /\ m # Lost1
  <2>1. Stack # <<>>
    BY <1>2, <1>3
  <2> QED BY <1>3, <2>1 DEF Abs!Seen
<1>7. Len(Stack') = Len(Stack) + 1 /\ \A i \in 1 .. Len(Stack) : Stack'[i] = Stack[i]
  BY <1>3, <1>4
<1> HIDE DEF m, N
<1>8. Abs!Next
  BY <1>3, <1>5, <1>6, <1>7, BegunStep
<1> QED BY <1>8 DEF AbsStep

-----------------------------------------------------------------------------
(***************************************************************************)
(* The ends of transactions are steps of NestedStore; the theorems.        *)
(***************************************************************************)

LEMMA AbortStep ==
  ASSUME Whole, NEW l \in DOMAIN txns, Abort(l)
  PROVE  AbsStep /\ Abs!Abort(l)
<1>1. Whole' /\ Len(txns') = l - 1 /\ Stay(l - 1) /\ StoreKept
  BY AbortDoes
<1>2. l \in 1 .. Len(txns) /\ l - 1 \in Nat /\ l - 1 <= Len(txns) /\ l - 1 <= Len(txns') /\ l \in Nat
  <2>1. l \in 1 .. Len(txns) /\ Len(txns) \in Nat
    BY DEF Whole, TypeOK
  <2> QED BY <1>1, <2>1
<1>3. /\ Mapped /\ Mapped' /\ Stack \in Seq(Wide) /\ Stack' \in Seq(Wide)
      /\ Len(Stack) = Len(txns) /\ Len(Stack') = l - 1 /\ Store' = Store
  BY <1>1, BothIs
<1>4. \A i \in 1 .. l - 1 : Stack'[i] = Stack[i]
  BY <1>1, <1>2, <1>3, StaySame
<1>5. l \in 1 .. Len(Stack)
  BY <1>2, <1>3
<1>6. Abs!Next /\ Abs!Abort(l)
  BY <1>3, <1>4, <1>5, AbortedStep
<1> QED BY <1>6 DEF AbsStep

LEMMA CommitChildStep ==
  ASSUME Whole, NEW l \in DOMAIN txns, NEW f, f # "abort", Commit(l, f), l > 1
  PROVE  AbsStep /\ ((f = "none" /\ Usable) => Abs!Commit(l))
<1> DEFINE N == Len(txns)
<1>1. /\ Whole' /\ Len(txns') = l - 1 /\ Stay(l - 2) /\ StoreKept
      /\ \/ Stay(l - 1)
         \/ txns'[l - 1].err
         \/ /\ ~txns'[l - 1].err /\ ~txns[N].err
            /\ ValsAt(db, Now, l - 1)' = ValsAt(db, Now, N)
      /\ (f = "none" /\ ~txns[N].err) => /\ ~txns'[l - 1].err
                                         /\ ValsAt(db, Now, l - 1)' = ValsAt(db, Now, N)
  BY CommitChildDoes
<1>2. /\ l \in 2 .. N /\ N \in 1 .. N /\ l \in 1 .. N /\ l - 1 \in Nat /\ l - 2 \in Nat /\ l - 1 \in 1 .. l - 1
      /\ l - 1 <= N /\ l - 2 <= N /\ l - 1 <= Len(txns') /\ l - 2 <= Len(txns')
  <2>1. l \in 1 .. N /\ N \in Nat
    BY DEF Whole, TypeOK
  <2> QED BY <1>1, <2>1
<1>3. /\ Mapped /\ Mapped' /\ Stack \in Seq(Wide) /\ Stack' \in Seq(Wide)
      /\ Len(Stack) = N /\ Len(Stack') = l - 1 /\ Store' = Store
      /\ ~txns[N].err => Stack[N] = ValsAt(db, Now, N) /\ Stack[N] # Lost1
      /\ txns'[l - 1].err => Stack'[l - 1] = Lost1
      /\ ~txns'[l - 1].err => Stack'[l - 1] = ValsAt(db, Now, l - 1)'
  <2>1. l - 1 \in 1 .. Len(txns')
    BY <1>1, <1>2
  <2> QED BY <1>1, <1>2, <2>1, BothIs
<1>4. \A i \in 1 .. l - 2 : Stack'[i] = Stack[i]
  BY <1>1, <1>2, <1>3, StaySame
<1>5. l \in 1 .. Len(Stack) /\ l \in 2 .. Len(Stack)
  BY <1>2, <1>3
<1>c. ASSUME f = "none", Usable PROVE Abs!Commit(l)
  <2>1. ~txns[N].err
    BY <1>c DEF Usable, Last
  <2> DEFINE m == Stack'[l - 1]
  <2>2. m # Lost1 /\ Stack[Len(Stack)] = m
    BY <1>1, <1>3, <1>c, <2>1
  <2>3. Stack'[l - 1] = m
    OBVIOUS
  <2> HIDE DEF m
  <2> QED BY <1>3, <1>4, <1>5, <2>2, <2>3, CommittedStep
<1>6. ASSUME Stay(l - 1) PROVE AbsStep
  <2>1. \A i \in 1 .. l - 1 : Stack'[i] = Stack[i]
    BY <1>2, <1>3, <1>6, StaySame
  <2>2. Abs!Next
    BY <1>3, <1>5, <2>1, AbortedStep
  <2> QED BY <2>2 DEF AbsStep
<1>7. ASSUME \/ txns'[l - 1].err
             \/ ~txns'[l - 1].err /\ ~txns[N].err /\ ValsAt(db, Now, l - 1)' = ValsAt(db, Now, N)
      PROVE  AbsStep
  <2> DEFINE m == Stack'[l - 1]
  <2>1. m = Lost1 \/ (m # Lost1 /\ Stack[Len(Stack)] = m)
    BY <1>3, <1>7
  <2>2. Stack'[l - 1] = m
    OBVIOUS
  <2> HIDE DEF m
  <2>3. Abs!Next
    BY <1>3, <1>4, <1>5, <2>1, <2>2, CommittedStep
  <2> QED BY <2>3 DEF AbsStep
<1>8. AbsStep
  <2>1. CASE Stay(l - 1)
    BY <1>6, <2>1
  <2>2. CASE \/ txns'[l - 1].err
             \/ ~txns'[l - 1].err /\ ~txns[N].err /\ ValsAt(db, Now, l - 1)' = ValsAt(db, Now, N)
    BY <1>7, <2>2
  <2> QED BY <1>1, <2>1, <2>2
<1> QED BY <1>8, <1>c

LEMMA CommitTopStep ==
  ASSUME Whole, 1 \in DOMAIN txns, NEW f, f # "abort", Commit(1, f)
  PROVE  AbsStep /\ ((f = "none" /\ Usable) => Abs!Commit(1))
<1> DEFINE N == Len(txns)
<1>1. /\ Whole' /\ txns' = <<>>
      /\ \/ StoreKept
         \/ ~txns[N].err /\ ValOf(db.file, db.root)' = ValsAt(db, Now, N)
      /\ (f = "none" /\ ~txns[N].err) => ValOf(db.file, db.root)' = ValsAt(db, Now, N)
  BY CommitTopDoes
<1>2. N \in 1 .. N /\ 1 \in 1 .. N /\ N # 0 /\ Len(txns') = 0
  <2>1. 1 \in 1 .. N /\ N \in Nat
    BY DEF Whole, TypeOK
  <2> QED BY <1>1, <2>1
<1>3. /\ Mapped /\ Mapped' /\ Stack \in Seq(Wide) /\ Stack' \in Seq(Wide)
      /\ Len(Stack) = N /\ Len(Stack') = 0 /\ (StoreKept => Store' = Store)
      /\ ~txns[N].err => Stack[N] = ValsAt(db, Now, N) /\ Stack[N] # Lost1
  BY <1>1, <1>2, BothIs
<1>4. Stack' = <<>> /\ Stack # <<>>
  BY <1>2, <1>3
<1>c. ASSUME f = "none", Usable PROVE Abs!Commit(1)
  <2>1. ~txns[N].err
    BY <1>c DEF Usable, Last
  <2>2. Store' = Stack[N]
    BY <1>1, <1>3, <1>c, <2>1 DEF Mapped
  <2>3. Abs!Seen(Stack) = Stack[N]
    BY <1>3, <1>4 DEF Abs!Seen
  <2> QED BY <1>4, <2>2, <2>3 DEF Abs!Commit
<1>5. ASSUME StoreKept PROVE AbsStep
  <2>1. Store' = Store
    BY <1>3, <1>5
  <2> DEFINE l == 1
  <2>2. l \in 1 .. Len(Stack) /\ Len(Stack') = l - 1 /\ \A i \in 1 .. l - 1 : Stack'[i] = Stack[i]
    BY <1>2, <1>3
  <2> HIDE DEF l
  <2>3. Abs!Next
    BY <1>3, <2>1, <2>2, AbortedStep
  <2> QED BY <2>3 DEF AbsStep
<1>6. ASSUME ~txns[N].err, ValOf(db.file, db.root)' = ValsAt(db, Now, N)
      PROVE  AbsStep
  <2>1. Store' = Stack[N] /\ Stack[N] # Lost1
    BY <1>3, <1>6 DEF Mapped
  <2>2. Abs!Seen(Stack) = Stack[N]
    BY <1>3, <1>4 DEF Abs!Seen
  <2>3. Abs!Seen(Stack) # Abs!Broken /\ Store' = Abs!Seen(Stack)
    BY <2>1, <2>2 DEF Abs!Broken, Lost1
  <2>4. Abs!Next
    BY <1>4, <2>3 DEF Abs!Next
  <2> QED BY <2>4 DEF AbsStep
<1> QED BY <1>1, <1>c, <1>5, <1>6

LEMMA QuietStep ==
  ASSUME Whole, Whole', txns' = txns, Stay(Len(txns)), StoreKept
  PROVE  AbsStep
<1> DEFINE N == Len(txns)
<1>1. /\ Mapped /\ Mapped' /\ Stack \in Seq(Wide) /\ Stack' \in Seq(Wide)
      /\ Len(Stack) = N /\ Len(Stack') = N /\ Store' = Store /\ N \in Nat /\ Len(txns') = N
  BY BothIs
<1>2. \A i \in 1 .. N : Stack'[i] = Stack[i]
  <2>1. N <= Len(txns) /\ N <= Len(txns')
    BY <1>1
  <2> QED BY <1>1, <2>1, StaySame
<1> DEFINE x == Stack
           y == Stack'
<1>3. x \in Seq(Wide) /\ y \in Seq(Wide) /\ Len(y) = Len(x) /\ \A i \in 1 .. Len(x) : y[i] = x[i]
  BY <1>1, <1>2
<1> HIDE DEF x, y
<1>4. y = x
  BY <1>3, SameSeq
<1> QED BY <1>1, <1>4 DEF AbsStep, x, y

\* Every step of NestedTxn is one of NestedStore, or none.
LEMMA RefineNext ==
  ASSUME Whole, [Next]_vars
  PROVE  AbsStep
<1>1. CASE Begin
  BY <1>1, BeginStep
<1>2. CASE BeginChild
  BY <1>2, BeginChildStep
<1>3. CASE Drop
  <2>1. PICK e2, a : Did(db, EnvAt(db, Now, Len(txns)), e2, Now, a, [n \in Leaf |-> NoVal]) /\ Becomes(a)
    BY <1>3, DropDoes
  <2> DEFINE V == [n \in Leaf |-> NoVal]
  <2>2. Usable /\ Did(db, EnvAt(db, Now, Len(txns)), e2, Now, a, V) /\ V = [n \in Leaf |-> NoVal]
    BY <1>3, <2>1, DropDoes
  <2> HIDE DEF V
  <2> QED BY <2>1, <2>2, OpStep
<1>4. ASSUME NEW l \in DOMAIN txns, Abort(l) PROVE AbsStep
  BY <1>4, AbortStep
<1>5. ASSUME NEW l \in DOMAIN txns, NEW f \in Faults \cup {"none"}, Commit(l, f) PROVE AbsStep
  <2>1. f # "abort" /\ l \in 1 .. Len(txns) /\ Len(txns) \in Nat
    BY NestedAssumption DEF Whole, TypeOK
  <2>2. CASE l = 1
    BY <1>5, <2>1, <2>2, CommitTopStep
  <2>3. CASE l # 1
    <3>1. l > 1
      BY <2>1, <2>3
    <3> QED BY <1>5, <2>1, <3>1, CommitChildStep
  <2> QED BY <2>2, <2>3
<1>6. ASSUME NEW c \in Cursors, Open(c) PROVE AbsStep
  BY <1>6, OpenDoes, QuietStep
<1>7. ASSUME NEW c \in Cursors, NEW n \in Leaf, Set(c, n) PROVE AbsStep
  <2>1. PICK e2, a : Did(db, EnvAt(db, Now, Len(txns)), e2, Now, a, V0) /\ Becomes(a) /\ Usable
    BY <1>7, SetDoes
  <2> DEFINE V == V0
  <2>2. Did(db, EnvAt(db, Now, Len(txns)), e2, Now, a, V) /\ V = V0
    BY <2>1
  <2> HIDE DEF V
  <2> QED BY <2>1, <2>2, OpStep
<1>w. ASSUME Usable, NEW e2, NEW a, Becomes(a), NEW n \in Leaf, NEW v \in Val \cup {NoVal},
             Did(db, EnvAt(db, Now, Len(txns)), e2, Now, a, [V0 EXCEPT ![n] = v])
      PROVE  AbsStep
  <2> DEFINE V == [V0 EXCEPT ![n] = v]
  <2>1. Did(db, EnvAt(db, Now, Len(txns)), e2, Now, a, V)
    BY <1>w
  <2>2. \E k \in Leaf, x \in Val \cup {NoVal} : V = [V0 EXCEPT ![k] = x]
    OBVIOUS
  <2> HIDE DEF V
  <2> QED BY <1>w, <2>1, <2>2, OpStep
<1>8. ASSUME NEW c \in Cursors, NEW v \in Val, Update(c, v) PROVE AbsStep
  <2>1. PICK e2, a : \E n \in Leaf : Did(db, EnvAt(db, Now, Len(txns)), e2, Now, a, [V0 EXCEPT ![n] = v])
                                     /\ Becomes(a)
    BY <1>8, UpdateDoes
  <2>2. PICK n \in Leaf : Did(db, EnvAt(db, Now, Len(txns)), e2, Now, a, [V0 EXCEPT ![n] = v]) /\ Becomes(a)
    BY <2>1
  <2>3. Usable
    BY <1>8, UpdateDoes
  <2> QED BY <2>2, <2>3, <1>w
<1>9. ASSUME NEW n \in Leaf, Del(n) PROVE AbsStep
  <2>1. PICK e2, a : Did(db, EnvAt(db, Now, Len(txns)), e2, Now, a, [V0 EXCEPT ![n] = NoVal]) /\ Becomes(a)
    BY <1>9, DelDoes
  <2>2. Usable
    BY <1>9, DelDoes
  <2>3. NoVal \in Val \cup {NoVal}
    OBVIOUS
  <2> QED BY <2>1, <2>2, <2>3, <1>w
<1>10. ASSUME NEW n \in Leaf, NEW v \in Val, Put(n, v) PROVE AbsStep
  <2>1. PICK e2, a : Did(db, EnvAt(db, Now, Len(txns)), e2, Now, a, [V0 EXCEPT ![n] = v]) /\ Becomes(a)
    BY <1>10, PutDoes
  <2>2. Usable
    BY <1>10, PutDoes
  <2> QED BY <2>1, <2>2, <1>w
<1>11. CASE UNCHANGED vars
  BY <1>11, Nothing, QuietStep
<1> QED BY <1>1, <1>2, <1>3, <1>4, <1>5, <1>6, <1>7, <1>8, <1>9, <1>10, <1>11 DEF Next

\* The steps are those of the calls that make them.
LEMMA CalledNext ==
  ASSUME Whole
  PROVE  AsCalled
<1> DEFINE N == Len(txns)
           seen == Abs!Seen(Stack)
<1>1. ASSUME Usable PROVE seen = V0
  <2>1. N \in 1 .. N /\ N # 0 /\ ~txns[N].err
    BY <1>1 DEF Whole, TypeOK, Usable, Last
  <2>2. Mapped
    BY MappedIs
  <2>3. Len(Stack) = N /\ Stack[N] = V0 /\ Stack \in Seq(Maps \cup {Lost1})
    BY <2>1, <2>2 DEF Mapped, V0
  <2>4. Stack # <<>>
    BY <2>1, <2>3
  <2> QED BY <2>3, <2>4 DEF Abs!Seen
<1> HIDE DEF seen
<1>2. ASSUME NEW n \in Leaf, NEW v \in Val, Put(n, v)
      PROVE  Abs!Write([seen EXCEPT ![n] = v])
  <2> DEFINE V == [V0 EXCEPT ![n] = v]
  <2>1. PICK e2, a : Did(db, EnvAt(db, Now, N), e2, Now, a, V) /\ Becomes(a)
    BY <1>2, PutDoes
  <2>2. Usable /\ \E k \in Leaf, x \in Val \cup {NoVal} : V = [V0 EXCEPT ![k] = x]
    BY <1>2, PutDoes
  <2> HIDE DEF V
  <2>3. Abs!Write(V)
    BY <2>1, <2>2, OpStep
  <2> QED BY <1>1, <2>2, <2>3 DEF V
<1>3. ASSUME NEW c \in Cursors, NEW v \in Val, Update(c, v)
      PROVE  Abs!Write([seen EXCEPT ![mc[c].leaf] = v])
  <2> DEFINE V == [V0 EXCEPT ![mc[c].leaf] = v]
  <2>1. PICK e2, a : \E n \in Leaf : Did(db, EnvAt(db, Now, N), e2, Now, a, [V0 EXCEPT ![n] = v])
                                     /\ Becomes(a) /\ n = mc[c].leaf
    BY <1>3, UpdateDoes
  <2>2. Did(db, EnvAt(db, Now, N), e2, Now, a, V) /\ Becomes(a) /\ mc[c].leaf \in Leaf
    BY <2>1
  <2>3. Usable /\ \E k \in Leaf, x \in Val \cup {NoVal} : V = [V0 EXCEPT ![k] = x]
    BY <1>3, <2>2, UpdateDoes
  <2> HIDE DEF V
  <2>4. Abs!Write(V)
    BY <2>2, <2>3, OpStep
  <2> QED BY <1>1, <2>3, <2>4 DEF V
<1>4. ASSUME NEW n \in Leaf, Del(n) PROVE Abs!Write([seen EXCEPT ![n] = NoVal])
  <2> DEFINE V == [V0 EXCEPT ![n] = NoVal]
  <2>1. PICK e2, a : Did(db, EnvAt(db, Now, N), e2, Now, a, V) /\ Becomes(a)
    BY <1>4, DelDoes
  <2>2. Usable /\ \E k \in Leaf, x \in Val \cup {NoVal} : V = [V0 EXCEPT ![k] = x]
    BY <1>4, DelDoes
  <2> HIDE DEF V
  <2>3. Abs!Write(V)
    BY <2>1, <2>2, OpStep
  <2> QED BY <1>1, <2>2, <2>3 DEF V
<1>5. ASSUME Drop PROVE Abs!Write([n \in Leaf |-> NoVal])
  <2> DEFINE V == [n \in Leaf |-> NoVal]
  <2>1. PICK e2, a : Did(db, EnvAt(db, Now, N), e2, Now, a, V) /\ Becomes(a)
    BY <1>5, DropDoes
  <2>2. Usable /\ V = [n \in Leaf |-> NoVal]
    BY <1>5, DropDoes
  <2> HIDE DEF V
  <2>3. Abs!Write(V)
    BY <2>1, <2>2, OpStep
  <2> QED BY <2>3 DEF V
<1>6. WritesAsCalled
  BY <1>2, <1>3, <1>4, <1>5 DEF WritesAsCalled, seen
<1>7. ASSUME NEW l \in DOMAIN txns, Abort(l) PROVE Abs!Abort(l)
  BY <1>7, AbortStep
<1>8. ASSUME NEW l \in DOMAIN txns, Commit(l, "none"), Usable PROVE Abs!Commit(l)
  <2>1. l = 1 \/ l > 1
    BY DEF Whole, TypeOK
  <2>2. CASE l = 1
    BY <1>8, <2>2, CommitTopStep
  <2>3. CASE l > 1
    BY <1>8, <2>3, CommitChildStep
  <2> QED BY <2>1, <2>2, <2>3
<1>9. EndsAsCalled
  BY <1>7, <1>8 DEF EndsAsCalled
<1> QED BY <1>6, <1>9 DEF AsCalled

LEMMA RefineInit ==
  ASSUME Init
  PROVE  Abs!Init
<1>1. Whole /\ Mapped /\ txns = <<>>
  BY InitWhole, MappedIs DEF Init
<1>2. Store \in [Leaf -> Val \cup {NoVal}]
  BY <1>1 DEF Mapped, Maps
<1>3. Stack = <<>>
  <2>1. Len(txns) = 0
    BY <1>1
  <2> QED BY <1>1, <2>1 DEF Mapped
<1> QED BY <1>2, <1>3 DEF Abs!Init, Abs!Stores

\* The page numbers, lists, counters and pointers of the stack of transactions
\* keep their types.
THEOREM TypeCorrect == Spec => []TypeOK
<1>1. Whole => TypeOK
  BY DEF Whole
<1> QED BY <1>1, WholeHolds, PTL

\* mdb_page_alloc, mdb_page_loose, mdb_page_spill and the merge of a child's lists
\* in _mdb_txn_commit never lose a page or give one away twice.
THEOREM PagesAccounted == Spec => []PagesInOneList
<1>1. Whole => PagesInOneList
  BY PagesFrom
<1> QED BY <1>1, WholeHolds, PTL

\* mt_dirty_room stays what the dirty lists leave (mdb_page_dirty, mdb_page_spill,
\* mdb_page_unspill), which the merge in _mdb_txn_commit asserts and relies on.
THEOREM RoomCounted == Spec => []RoomExact
<1>1. Whole => RoomExact
  BY RoomFrom
<1> QED BY <1>1, WholeHolds, PTL

\* The cursors that mdb_page_touch, mdb_txn_begin, mdb_cursors_close and mdb_page_new
\* move read the pages that their transaction has.
THEOREM CursorsFollow == Spec => []CursorSees
<1>1. Whole => CursorSees
  BY SeesFrom
<1> QED BY <1>1, WholeHolds, PTL

\* Nested transactions implement a stack of private copies of the database, of
\* which a commit gives the last to the one below (_mdb_txn_commit), an abort
\* drops it (mdb_txn_abort), and a write changes its key in the last alone,
\* whatever was spilled to the file in between.
THEOREM Implements == Spec => NestedRefines
<1>1. Init => Whole /\ Abs!Init
  BY InitWhole, RefineInit
<1>2. Whole /\ [Next]_vars => Whole' /\ [Abs!Next]_(Abs!vars)
  BY WholeNext, RefineNext DEF AbsStep, Abs!vars
<1>3. Whole => AsCalled
  BY CalledNext
<1> QED BY <1>1, <1>2, <1>3, PTL DEF Spec, NestedRefines, Abs!Spec

=============================================================================
